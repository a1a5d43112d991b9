-------------------------- MODULE LidarSideProofs ---------------------------
(***************************************************************************)
(* Proofs about the LiDAR path.  The scan service, for any number of       *)
(* captures, pauses, generations and exits of its child: the invariant     *)
(* keeps, for the log of events, which captures can still get an outcome   *)
(* and which can still be reported over budget; appending an event takes   *)
(* its capture out of that set, so no capture gets a second one.           *)
(* Coordinator and shards, for every number of requests and every set of   *)
(* faults: the invariant says for each shard what is on its two pipes, by  *)
(* how far the coordinator is with the frame.  The sensor output: what is  *)
(* waited for is what the service still has.  The obstacle mirror of a     *)
(* child, for any obstacles, shapes, scans and failures: the invariant     *)
(* says, for each step of a request and of its rollback, which records and *)
(* candidates the bodies of the child are.                                 *)
(***************************************************************************)
EXTENDS MCLidarSide, SequenceTheorems, FiniteSetTheorems, WellFoundedInduction, TLAPS

Events == [kind : {"service_failed", "capture_rejected", "job_overrun", "frame_failed"},
           id : 0..MaxCaptures]
Outcomes == {"capture_rejected", "frame_failed"}
Jobs == [id : 1..MaxCaptures, gen : 0..MaxGen, epoch : 0..MaxEpoch]
Answers == [job : Jobs, kind : Kinds]

PipeTypes == requests \in Seq(Jobs) /\ responses \in Seq(Answers)

IdOf(c) == IF c = None THEN {} ELSE {c.id}
Later == {id \in Nat : id > captures}

(* Captures that have no failure or rejection in the log, and captures     *)
(* without an overrun in it.                                               *)
Open == Later \cup IdOf(inFlight) \cup IdOf(pending)
          \cup {delivered[k] : k \in 1..Len(delivered)}
Unreported == Later \cup (IF reported THEN {} ELSE IdOf(inFlight)) \cup IdOf(pending)

LogOk(log, open, unreported) ==
    /\ log \in Seq(Events)
    /\ \A i \in 1..Len(log) :
         /\ log[i].kind \in Outcomes => log[i].id \notin open
         /\ log[i].kind = "job_overrun" => log[i].id \notin unreported
    /\ \A i, j \in 1..Len(log) :
         i < j /\ log[i].id = log[j].id =>
            /\ ~(log[i].kind \in Outcomes /\ log[j].kind \in Outcomes)
            /\ ~(log[i].kind = "job_overrun" /\ log[j].kind = "job_overrun")

DeliveredInOrder ==
    /\ \A i \in 1..Len(delivered) : delivered[i] <= captures
    /\ \A i \in 1..Len(delivered) : inFlight # None => delivered[i] < inFlight.id
    /\ \A i, j \in 1..Len(delivered) : i < j => delivered[i] < delivered[j]

(* A capture is of the past; one that a pause or a new generation has      *)
(* overtaken stays stale; none waits in a service that is suspended, has   *)
(* failed or was closed.                                                   *)
Overtaken ==
    /\ inFlight # None => /\ inFlight.id <= captures
                          /\ inFlight.gen <= svcGen /\ inFlight.epoch <= pauseEpoch
                          /\ ~Stale(inFlight) => inFlight.id > barrier
    /\ pending # None => /\ pending.id <= captures /\ pending.id > barrier
                         /\ state \in {"ready", "draining"}

ServiceInv ==
    /\ ServiceTypeOK /\ PipeTypes /\ OneJobOutstanding /\ PendingIsCurrent
    /\ Overtaken /\ DeliveredInOrder /\ LogOk(events, Open, Unreported)

-----------------------------------------------------------------------------
LEMMA NoneIs == None \notin Capture
  <1>1. Capture \subseteq [id : Nat, gen : Nat, epoch : Nat, late : BOOLEAN]
    BY ServiceAssumption DEF Capture
  <1> QED BY <1>1, ServiceAssumption

LEMMA CaptureIs ==
  ASSUME NEW c \in Capture
  PROVE  /\ c # None /\ c.id \in 1..MaxCaptures /\ c.gen \in 0..MaxGen /\ c.epoch \in 0..MaxEpoch
         /\ c.late \in BOOLEAN /\ Job(c) \in Jobs
         /\ c.id \in Nat \ {0} /\ c.gen \in Nat /\ c.epoch \in Nat /\ IdOf(c) = {c.id}
  BY NoneIs, ServiceAssumption DEF Capture, Job, Jobs, IdOf

LEMMA EventIs ==
  ASSUME NEW c \in Capture \cup {None},
         NEW kind \in {"service_failed", "capture_rejected", "job_overrun", "frame_failed"}
  PROVE  /\ Event(kind, c) \in Events /\ Event(kind, c).kind = kind
         /\ c \in Capture => Event(kind, c).id = c.id
  BY CaptureIs, ServiceAssumption DEF Event, Events

(* Sequences: Append, Tail and a sequence of one. *)
LEMMA Appended ==
  ASSUME NEW S, NEW s \in Seq(S), NEW x \in S
  PROVE  /\ Append(s, x) \in Seq(S) /\ Len(Append(s, x)) = Len(s) + 1 /\ Len(s) \in Nat
         /\ \A i \in 1..Len(s) : Append(s, x)[i] = s[i]
         /\ Append(s, x)[Len(s) + 1] = x
  BY AppendProperties

LEMMA OnlyOne ==
  ASSUME NEW S, NEW s \in Seq(S), Len(s) = 1
  PROVE  s # <<>> /\ Tail(s) = <<>> /\ Head(s) \in S
  <1>1. s # <<>>
    BY EmptySeq
  <1>2. Tail(s) \in Seq(S) /\ Len(Tail(s)) = 0 /\ Head(s) \in S
    BY <1>1, HeadTailProperties
  <1> QED BY <1>1, <1>2, EmptySeq

LEMMA AppendedToNone ==
  ASSUME NEW S, NEW x \in S, NEW s, s = <<>>
  PROVE  Append(s, x) \in Seq(S) /\ Len(Append(s, x)) = 1 /\ Head(Append(s, x)) = x
  <1>1. s \in Seq(S) /\ Len(s) = 0
    BY EmptySeq
  <1>2. Append(s, x) \in Seq(S) /\ Len(Append(s, x)) = 1 /\ Append(s, x)[1] = x
    BY <1>1, Appended
  <1>3. Append(s, x) # <<>>
    BY <1>2, EmptySeq
  <1> QED BY <1>2, <1>3, HeadTailProperties

LEMMA NoneOrSome ==
  ASSUME NEW S, NEW s \in Seq(S)
  PROVE  Len(s) \in Nat /\ (s = <<>> <=> Len(s) = 0)
  BY EmptySeq, LenProperties

-----------------------------------------------------------------------------
(* The log. *)
LEMMA LogShrinks ==
  ASSUME NEW log, NEW open, NEW unreported, LogOk(log, open, unreported),
         NEW o \in SUBSET open, NEW u \in SUBSET unreported
  PROVE  LogOk(log, o, u)
  BY DEF LogOk

LEMMA LogAppended ==
  ASSUME NEW log, NEW open, NEW unreported, LogOk(log, open, unreported), NEW e \in Events,
         e.kind \in Outcomes => e.id \in open,
         e.kind = "job_overrun" => e.id \in unreported
  PROVE  /\ LogOk(Append(log, e), IF e.kind \in Outcomes THEN open \ {e.id} ELSE open,
                                  IF e.kind = "job_overrun" THEN unreported \ {e.id} ELSE unreported)
         /\ Len(Append(log, e)) = Len(log) + 1 /\ Len(log) \in Nat
  <1> DEFINE new == Append(log, e)
             o == IF e.kind \in Outcomes THEN open \ {e.id} ELSE open
             u == IF e.kind = "job_overrun" THEN unreported \ {e.id} ELSE unreported
  <1>1. /\ new \in Seq(Events) /\ Len(new) = Len(log) + 1 /\ Len(log) \in Nat
        /\ \A i \in 1..Len(log) : new[i] = log[i]
        /\ new[Len(log) + 1] = e
    BY Appended DEF LogOk
  <1> HIDE DEF new
  <1>2. ASSUME NEW i \in 1..Len(new)
        PROVE  /\ new[i].kind \in Outcomes => new[i].id \notin o
               /\ new[i].kind = "job_overrun" => new[i].id \notin u
    <2>1. CASE i = Len(log) + 1
      BY <1>1, <2>1
    <2>2. CASE i \in 1..Len(log)
      BY <1>1, <2>2 DEF LogOk
    <2> QED BY <1>1, <2>1, <2>2
  <1>3. ASSUME NEW i \in 1..Len(new), NEW j \in 1..Len(new), i < j, new[i].id = new[j].id
        PROVE  /\ ~(new[i].kind \in Outcomes /\ new[j].kind \in Outcomes)
               /\ ~(new[i].kind = "job_overrun" /\ new[j].kind = "job_overrun")
    <2>1. i \in 1..Len(log)
      BY <1>1, <1>3
    <2>2. CASE j \in 1..Len(log)
      BY <1>1, <1>3, <2>1, <2>2 DEF LogOk
    <2>3. CASE j = Len(log) + 1
      BY <1>1, <1>3, <2>1, <2>3 DEF LogOk
    <2> QED BY <1>1, <2>2, <2>3
  <1>4. LogOk(new, o, u)
    <2> HIDE DEF o, u
    <2> QED BY <1>1, <1>2, <1>3 DEF LogOk
  <1> QED BY <1>1, <1>4 DEF new

LEMMA OutcomeLogged ==
  ASSUME NEW log, NEW open, NEW unreported, LogOk(log, open, unreported), NEW e \in Events,
         e.kind \in Outcomes, e.id \in open
  PROVE  /\ LogOk(Append(log, e), open \ {e.id}, unreported)
         /\ Len(Append(log, e)) = Len(log) + 1 /\ Len(log) \in Nat
  <1>1. e.kind # "job_overrun"
    BY DEF Outcomes
  <1>2. (IF e.kind \in Outcomes THEN open \ {e.id} ELSE open) = open \ {e.id}
    OBVIOUS
  <1>3. (IF e.kind = "job_overrun" THEN unreported \ {e.id} ELSE unreported) = unreported
    BY <1>1
  <1>4. /\ LogOk(Append(log, e), IF e.kind \in Outcomes THEN open \ {e.id} ELSE open,
                                 IF e.kind = "job_overrun" THEN unreported \ {e.id} ELSE unreported)
        /\ Len(Append(log, e)) = Len(log) + 1 /\ Len(log) \in Nat
    BY <1>1, LogAppended
  <1> QED BY <1>2, <1>3, <1>4, Zenon

LEMMA OverrunLogged ==
  ASSUME NEW log, NEW open, NEW unreported, LogOk(log, open, unreported), NEW e \in Events,
         e.kind = "job_overrun", e.id \in unreported
  PROVE  /\ LogOk(Append(log, e), open, unreported \ {e.id})
         /\ Len(Append(log, e)) = Len(log) + 1 /\ Len(log) \in Nat
  <1>1. e.kind \notin Outcomes
    BY DEF Outcomes
  <1>2. (IF e.kind \in Outcomes THEN open \ {e.id} ELSE open) = open
    BY <1>1
  <1>3. (IF e.kind = "job_overrun" THEN unreported \ {e.id} ELSE unreported) = unreported \ {e.id}
    OBVIOUS
  <1>4. /\ LogOk(Append(log, e), IF e.kind \in Outcomes THEN open \ {e.id} ELSE open,
                                 IF e.kind = "job_overrun" THEN unreported \ {e.id} ELSE unreported)
        /\ Len(Append(log, e)) = Len(log) + 1 /\ Len(log) \in Nat
    BY <1>1, LogAppended
  <1> QED BY <1>2, <1>3, <1>4, Zenon

(* At most one element: the counts of OneOutcome. *)
LEMMA FewerThanTwo ==
  ASSUME NEW n \in Nat, NEW S \in SUBSET (1..n), \A x, y \in S : x = y
  PROVE  Cardinality(S) = IF S = {} THEN 0 ELSE 1
  <1>1. CASE S = {}
    BY <1>1, FS_EmptySet
  <1>2. CASE S # {}
    <2>1. PICK x \in S : TRUE
      BY <1>2
    <2>2. S = {x}
      BY <2>1
    <2> QED BY <1>2, <2>2, FS_Singleton
  <1> QED BY <1>1, <1>2

LEMMA CountedOnce == ServiceInv => OneOutcome
  <1> SUFFICES ASSUME ServiceInv PROVE OneOutcome
    OBVIOUS
  <1>0. /\ LogOk(events, Open, Unreported) /\ DeliveredInOrder
        /\ Len(events) \in Nat /\ Len(delivered) \in Nat /\ delivered \in Seq(1..MaxCaptures)
    BY NoneOrSome DEF ServiceInv, ServiceTypeOK
  <1>1. ASSUME NEW id \in 1..MaxCaptures PROVE Count("job_overrun", id) <= 1
    <2> DEFINE S == {i \in 1..Len(events) : events[i].kind = "job_overrun" /\ events[i].id = id}
    <2>1. \A x, y \in S : x = y
      <3> SUFFICES ASSUME NEW x \in S, NEW y \in S, x < y PROVE FALSE
        BY <1>0
      <3> QED BY <1>0 DEF LogOk
    <2>2. Cardinality(S) = IF S = {} THEN 0 ELSE 1
      <3> HIDE DEF S
      <3>1. S \in SUBSET (1..Len(events))
        BY DEF S
      <3> QED BY <1>0, <2>1, <3>1, FewerThanTwo
    <2> QED BY <2>2 DEF Count
  <1>2. ASSUME NEW id \in 1..MaxCaptures
        PROVE  Count("frame_failed", id) + Count("capture_rejected", id)
                  + Cardinality({i \in 1..Len(delivered) : delivered[i] = id}) <= 1
    <2> DEFINE F == {i \in 1..Len(events) : events[i].kind = "frame_failed" /\ events[i].id = id}
               R == {i \in 1..Len(events) : events[i].kind = "capture_rejected" /\ events[i].id = id}
               D == {i \in 1..Len(delivered) : delivered[i] = id}
    <2>1. \A x, y \in F \cup R : x = y
      <3> SUFFICES ASSUME NEW x \in F \cup R, NEW y \in F \cup R, x < y PROVE FALSE
        BY <1>0
      <3> QED BY <1>0 DEF LogOk, Outcomes
    <2>2. \A x, y \in D : x = y
      <3> SUFFICES ASSUME NEW x \in D, NEW y \in D, x < y PROVE FALSE
        BY <1>0
      <3>1. delivered[x] \in 1..MaxCaptures /\ delivered[x] < delivered[y] /\ delivered[x] = delivered[y]
        BY <1>0, ElementOfSeq DEF DeliveredInOrder
      <3> QED BY <3>1
    <2>3. F = {} \/ R = {}
      <3> SUFFICES ASSUME NEW x \in F, NEW y \in R PROVE FALSE
        OBVIOUS
      <3>1. x = y
        BY <2>1
      <3> QED BY <3>1
    <2>4. D = {} \/ (F = {} /\ R = {})
      <3> SUFFICES ASSUME NEW d \in D, NEW x \in F \cup R PROVE FALSE
        OBVIOUS
      <3>1. delivered[d] = events[x].id /\ events[x].kind \in Outcomes /\ x \in 1..Len(events)
        BY DEF Outcomes
      <3>2. delivered[d] \in Open
        BY DEF Open
      <3> QED BY <1>0, <3>1, <3>2 DEF LogOk
    <2>5. /\ F \in SUBSET (1..Len(events)) /\ R \in SUBSET (1..Len(events))
          /\ D \in SUBSET (1..Len(delivered))
      OBVIOUS
    <2>6. /\ Count("frame_failed", id) = Cardinality(F) /\ Count("capture_rejected", id) = Cardinality(R)
      BY DEF Count
    <2> HIDE DEF F, R, D
    <2>7. /\ Cardinality(F) = IF F = {} THEN 0 ELSE 1
          /\ Cardinality(R) = IF R = {} THEN 0 ELSE 1
          /\ Cardinality(D) = IF D = {} THEN 0 ELSE 1
      <3>1. \A x, y \in F : x = y
        BY <2>1
      <3>2. \A x, y \in R : x = y
        BY <2>1
      <3> QED BY <1>0, <2>2, <2>5, <3>1, <3>2, FewerThanTwo
    <2>8. Cardinality(F) + Cardinality(R) + Cardinality(D) <= 1
      BY <2>3, <2>4, <2>7
    <2> QED BY <2>6, <2>8 DEF D
  <1> QED BY <1>0, <1>1, <1>2 DEF OneOutcome, DeliveredInOrder

-----------------------------------------------------------------------------
(* What a step that leaves a part alone keeps of it. *)
LEMMA LogKept ==
  ASSUME ServiceInv, events' = events, Open' \subseteq Open, Unreported' \subseteq Unreported
  PROVE  LogOk(events, Open, Unreported)'
  BY LogShrinks DEF ServiceInv

LEMMA DeliveredKept ==
  ASSUME ServiceInv, delivered' = delivered, captures' \in Nat, captures' >= captures,
         inFlight' # None => \/ inFlight'.id = captures + 1
                             \/ inFlight # None /\ inFlight'.id = inFlight.id
  PROVE  DeliveredInOrder'
  <1>1. \A i \in 1..Len(delivered) : delivered[i] \in Nat
    BY ElementOfSeq, ServiceAssumption DEF ServiceInv, ServiceTypeOK
  <1>2. captures \in Nat
    BY ServiceAssumption DEF ServiceInv, ServiceTypeOK
  <1>3. ASSUME NEW i \in 1..Len(delivered), inFlight' # None PROVE delivered[i] < inFlight'.id
    BY <1>1, <1>2, <1>3 DEF ServiceInv, DeliveredInOrder
  <1>4. \A i \in 1..Len(delivered) : delivered[i] <= captures'
    BY <1>1, <1>2 DEF ServiceInv, DeliveredInOrder
  <1> QED BY <1>3, <1>4 DEF ServiceInv, DeliveredInOrder

LEMMA NewCaptureIs ==
  ASSUME ServiceInv, captures < MaxCaptures
  PROVE  /\ NewCapture \in Capture /\ NewCapture.id = captures + 1 /\ NewCapture.gen = svcGen
         /\ NewCapture.epoch = pauseEpoch /\ IdOf(NewCapture) = {captures + 1}
         /\ captures + 1 \in 0..MaxCaptures /\ captures \in Nat
         /\ ~Stale(NewCapture) /\ NewCapture # None
  <1>1. /\ captures \in 0..MaxCaptures /\ svcGen \in 0..MaxGen /\ pauseEpoch \in 0..MaxEpoch
    BY DEF ServiceInv, ServiceTypeOK
  <1>2. NewCapture \in Capture
    BY <1>1, ServiceAssumption DEF NewCapture, Capture
  <1>3. /\ NewCapture.id = captures + 1 /\ NewCapture.gen = svcGen /\ NewCapture.epoch = pauseEpoch
    BY DEF NewCapture
  <1>4. captures + 1 \in 0..MaxCaptures /\ captures \in Nat
    BY <1>1, ServiceAssumption
  <1>5. IdOf(NewCapture) = {captures + 1} /\ NewCapture # None
    BY <1>2, <1>3, CaptureIs
  <1> QED BY <1>2, <1>3, <1>4, <1>5 DEF Stale

LEMMA ServiceStarts == ServiceInit => ServiceInv
  <1> SUFFICES ASSUME ServiceInit PROVE ServiceInv
    OBVIOUS
  <1> USE DEF ServiceInit, ChildInit
  <1>1. ServiceTypeOK /\ PipeTypes
    <2>1. /\ events \in Seq(Events) /\ delivered \in Seq(1..MaxCaptures) /\ requests \in Seq(Jobs)
          /\ responses \in Seq(Answers) /\ Len(events) = 0
      BY EmptySeq
    <2>2. 0 \in 0..MaxGen /\ 0 \in 0..MaxEpoch /\ 0 \in 0..MaxCaptures /\ 0 \in 0..0
      BY ServiceAssumption
    <2> QED BY <2>1, <2>2 DEF ServiceTypeOK, PipeTypes, Events
  <1>2. OneJobOutstanding /\ PendingIsCurrent /\ Overtaken
    BY EmptySeq DEF OneJobOutstanding, PendingIsCurrent, Overtaken
  <1>3. DeliveredInOrder /\ LogOk(events, Open, Unreported)
    BY EmptySeq DEF DeliveredInOrder, LogOk
  <1> QED BY <1>1, <1>2, <1>3 DEF ServiceInv

-----------------------------------------------------------------------------
(* capture *)
LEMMA RefuseKeeps == ASSUME ServiceInv, Refuse PROVE ServiceInv'
  <1> USE DEF Refuse, childVars
  <1>1. captures + 1 \in 0..MaxCaptures /\ captures \in Nat
    BY NewCaptureIs
  <1>2. ServiceTypeOK' /\ PipeTypes'
    BY <1>1 DEF ServiceInv, ServiceTypeOK, PipeTypes
  <1>3. OneJobOutstanding' /\ PendingIsCurrent'
    BY DEF ServiceInv, OneJobOutstanding, PendingIsCurrent, Stale
  <1>4. Overtaken'
    <2>1. ASSUME NEW c \in Capture, c.id <= captures PROVE c.id <= captures + 1
      BY <1>1, <2>1, CaptureIs
    <2> QED BY <2>1 DEF ServiceInv, ServiceTypeOK, Overtaken, Stale
  <1>5. DeliveredInOrder'
    BY <1>1, DeliveredKept
  <1>6. Later' \subseteq Later
    BY <1>1 DEF Later
  <1>7. LogOk(events, Open, Unreported)'
    BY <1>6, LogKept DEF Open, Unreported
  <1> QED BY <1>2, <1>3, <1>4, <1>5, <1>7 DEF ServiceInv

LEMMA CaptureSendKeeps == ASSUME ServiceInv, CaptureSend PROVE ServiceInv'
  <1> USE DEF CaptureSend, ChildSend
  <1>1. /\ NewCapture \in Capture /\ NewCapture.id = captures + 1 /\ NewCapture.gen = svcGen
        /\ NewCapture.epoch = pauseEpoch /\ IdOf(NewCapture) = {captures + 1}
        /\ captures + 1 \in 0..MaxCaptures /\ captures \in Nat
        /\ ~Stale(NewCapture) /\ NewCapture # None /\ Job(NewCapture) \in Jobs
    BY NewCaptureIs, CaptureIs
  <1>2. requests = <<>> /\ responses = <<>> /\ pending = None
    BY DEF ServiceInv, OneJobOutstanding, PendingIsCurrent
  <1>3. /\ requests' \in Seq(Jobs) /\ Len(requests') = 1 /\ Head(requests') = Job(NewCapture)
        /\ responses' = <<>> /\ Len(responses') = 0 /\ requests' # <<>>
    BY <1>1, <1>2, AppendedToNone, EmptySeq
  <1>4. ServiceTypeOK' /\ PipeTypes'
    <2>1. responses' \in Seq(Answers) /\ barrier' \in 0..captures'
      BY <1>1, <1>3, EmptySeq DEF ServiceInv, ServiceTypeOK
    <2> QED BY <1>1, <1>3, <2>1 DEF ServiceInv, ServiceTypeOK, PipeTypes
  <1>5. OneJobOutstanding' /\ PendingIsCurrent'
    BY <1>1, <1>2, <1>3 DEF OneJobOutstanding, PendingIsCurrent
  <1>6. Overtaken'
    <2>1. barrier <= captures /\ barrier \in Nat /\ svcGen \in Nat /\ pauseEpoch \in Nat
      BY <1>1, ServiceAssumption DEF ServiceInv, ServiceTypeOK
    <2> QED BY <1>1, <1>2, <2>1 DEF Overtaken
  <1>7. DeliveredInOrder'
    BY <1>1, DeliveredKept
  <1>8. LogOk(events, Open, Unreported)'
    <2>1. Later' \cup {captures + 1} \subseteq Later
      BY <1>1 DEF Later
    <2> QED BY <1>1, <2>1, LogKept DEF Open, Unreported
  <1> QED BY <1>4, <1>5, <1>6, <1>7, <1>8 DEF ServiceInv

LEMMA CapturePendKeeps == ASSUME ServiceInv, CapturePend PROVE ServiceInv'
  <1> USE DEF CapturePend, childVars
  <1>1. /\ NewCapture \in Capture /\ NewCapture.id = captures + 1 /\ NewCapture.gen = svcGen
        /\ NewCapture.epoch = pauseEpoch /\ IdOf(NewCapture) = {captures + 1}
        /\ captures + 1 \in 0..MaxCaptures /\ captures \in Nat
        /\ ~Stale(NewCapture) /\ NewCapture # None
    BY NewCaptureIs
  <1>2. inFlight \in Capture /\ inFlight.id \in Nat /\ inFlight.id <= captures
    BY CaptureIs DEF ServiceInv, ServiceTypeOK, Overtaken
  <1>3. ServiceTypeOK' /\ PipeTypes'
    BY <1>1 DEF ServiceInv, ServiceTypeOK, PipeTypes
  <1>4. OneJobOutstanding'
    BY DEF ServiceInv, OneJobOutstanding
  <1>5. PendingIsCurrent'
    BY <1>1, <1>2 DEF PendingIsCurrent, Stale
  <1>6. Overtaken'
    <2>1. barrier <= captures /\ barrier \in Nat
      BY <1>1 DEF ServiceInv, ServiceTypeOK
    <2>2. pending'.id <= captures' /\ pending'.id > barrier'
      BY <1>1, <2>1
    <2> QED BY <1>1, <1>2, <2>2 DEF ServiceInv, Overtaken, Stale
  <1>7. DeliveredInOrder'
    BY <1>1, DeliveredKept
  <1>8. LogOk(events, Open, Unreported)'
    <2>1. Later' \cup {captures + 1} \subseteq Later
      BY <1>1 DEF Later
    <2> QED BY <1>1, <2>1, LogKept DEF Open, Unreported
  <1> QED BY <1>3, <1>4, <1>5, <1>6, <1>7, <1>8 DEF ServiceInv

(* Steps that report a failure of the service. *)
LEMMA ServiceFails ==
  ASSUME ServiceInv, FailService, NEW c \in Capture \cup {None},
         events' = Append(events, Event("service_failed", c)),
         captures' \in {captures, captures + 1}, captures' \in 0..MaxCaptures,
         requests' \in Seq(Jobs), responses' \in Seq(Answers), childUp' \in BOOLEAN,
         UNCHANGED <<svcGen, pauseEpoch, inFlight, reported, delivered, barrier>>,
         taken' \in {taken, Len(events')}
  PROVE  ServiceInv'
  <1> USE DEF FailService
  <1>1. captures \in Nat /\ captures' \in Nat /\ captures' >= captures /\ barrier \in Nat
    BY ServiceAssumption DEF ServiceInv, ServiceTypeOK
  <1>2. Event("service_failed", c) \in Events /\ Event("service_failed", c).kind = "service_failed"
    BY EventIs
  <1>3. LogOk(events', Open, Unreported) /\ Len(events') = Len(events) + 1 /\ Len(events) \in Nat
    BY <1>2, LogAppended DEF ServiceInv, Outcomes
  <1>4. ServiceTypeOK' /\ PipeTypes'
    <2>1. events' \in Seq(Events) /\ taken' \in 0..Len(events') /\ barrier' \in 0..captures'
      BY <1>1, <1>3 DEF LogOk, ServiceInv, ServiceTypeOK
    <2> QED BY <2>1 DEF ServiceInv, ServiceTypeOK, PipeTypes, Events
  <1>5. OneJobOutstanding' /\ PendingIsCurrent'
    BY DEF OneJobOutstanding, PendingIsCurrent
  <1>6. Overtaken'
    <2>1. ASSUME inFlight # None PROVE inFlight.id <= captures'
      <3>1. inFlight.id \in Nat /\ inFlight.id <= captures
        BY <2>1, CaptureIs DEF ServiceInv, ServiceTypeOK, Overtaken
      <3> QED BY <1>1, <3>1
    <2> QED BY <2>1 DEF ServiceInv, Overtaken, Stale
  <1>7. DeliveredInOrder'
    BY <1>1, DeliveredKept
  <1>8. LogOk(events, Open, Unreported)'
    <2>1. Later' \subseteq Later
      BY <1>1 DEF Later
    <2>2. Open' \subseteq Open /\ Unreported' \subseteq Unreported
      BY <2>1 DEF Open, Unreported, IdOf
    <2> QED BY <1>3, <2>2, LogShrinks
  <1> QED BY <1>4, <1>5, <1>6, <1>7, <1>8 DEF ServiceInv

LEMMA CaptureBrokenKeeps == ASSUME ServiceInv, CaptureBroken PROVE ServiceInv'
  <1>1. captures + 1 \in 0..MaxCaptures
    BY NewCaptureIs DEF CaptureBroken
  <1> QED BY <1>1, ServiceFails DEF CaptureBroken, childVars, ServiceInv, ServiceTypeOK, PipeTypes

LEMMA CaptureRejectKeeps == ASSUME ServiceInv, CaptureReject PROVE ServiceInv'
  <1> USE DEF CaptureReject, childVars
  <1> DEFINE e == Event("capture_rejected", NewCapture)
  <1>1. /\ NewCapture \in Capture /\ captures + 1 \in 0..MaxCaptures /\ captures \in Nat
        /\ NewCapture.id = captures + 1
    BY NewCaptureIs
  <1>2. e \in Events /\ e.kind = "capture_rejected" /\ e.id = captures + 1
    BY <1>1, EventIs
  <1>3. captures + 1 \in Open
    BY <1>1 DEF Open, Later
  <1> HIDE DEF e
  <1>4. /\ LogOk(events', Open \ {captures + 1}, Unreported)
        /\ Len(events') = Len(events) + 1 /\ Len(events) \in Nat
    <2>1. LogOk(events, Open, Unreported)
      BY DEF ServiceInv
    <2>2. e.kind \in Outcomes /\ e.kind # "job_overrun"
      BY <1>2 DEF Outcomes
    <2>3. events' = Append(events, e)
      BY DEF e
    <2> QED BY <1>2, <1>3, <2>1, <2>2, <2>3, OutcomeLogged
  <1>5. ServiceTypeOK' /\ PipeTypes'
    <2>1. events' \in Seq(Events) /\ taken' \in 0..Len(events') /\ barrier' \in 0..captures'
      BY <1>1, <1>4 DEF LogOk, ServiceInv, ServiceTypeOK
    <2> QED BY <1>1, <2>1 DEF ServiceInv, ServiceTypeOK, PipeTypes, Events
  <1>6. OneJobOutstanding' /\ PendingIsCurrent'
    BY DEF ServiceInv, OneJobOutstanding, PendingIsCurrent, Stale
  <1>7. /\ inFlight \in Capture /\ inFlight.id \in Nat /\ inFlight.id <= captures
        /\ pending \in Capture /\ pending.id \in Nat /\ pending.id <= captures
    BY CaptureIs DEF ServiceInv, ServiceTypeOK, Overtaken
  <1>8. Overtaken'
    <2>1. inFlight.id <= captures' /\ pending.id <= captures'
      BY <1>1, <1>7
    <2> QED BY <2>1 DEF ServiceInv, Overtaken, Stale
  <1>9. DeliveredInOrder'
    BY <1>1, DeliveredKept
  <1>10. LogOk(events, Open, Unreported)'
    <2>1. Later' \subseteq Later \ {captures + 1}
      BY <1>1 DEF Later
    <2>2. \A k \in 1..Len(delivered) : delivered[k] # captures + 1
      <3>1. \A k \in 1..Len(delivered) : delivered[k] \in Nat /\ delivered[k] <= captures
        BY ElementOfSeq, ServiceAssumption DEF ServiceInv, ServiceTypeOK, DeliveredInOrder
      <3> QED BY <1>1, <3>1
    <2>3. Open' \subseteq Open \ {captures + 1} /\ Unreported' \subseteq Unreported
      <3>1. inFlight.id # captures + 1 /\ pending.id # captures + 1
        BY <1>1, <1>7
      <3> QED BY <2>1, <2>2, <3>1 DEF Open, Unreported, IdOf
    <2> QED BY <1>4, <2>3, LogShrinks
  <1> QED BY <1>5, <1>6, <1>8, <1>9, <1>10 DEF ServiceInv

-----------------------------------------------------------------------------
(* pause, resume, draining, generations and closing. *)
LEMMA BarrierKeeps == ASSUME ServiceInv, Pause \/ InvalidateGeneration PROVE ServiceInv'
  <1>0. /\ UNCHANGED <<captures, inFlight, reported, events, taken, delivered, childVars>>
        /\ pending' = None /\ barrier' = captures
    BY DEF Pause, InvalidateGeneration
  <1>1. /\ svcGen \in Nat /\ pauseEpoch \in Nat /\ captures \in Nat
    BY ServiceAssumption DEF ServiceInv, ServiceTypeOK
  <1>2. \/ svcGen' = svcGen /\ pauseEpoch' = pauseEpoch + 1 /\ pauseEpoch' \in 0..MaxEpoch
        \/ svcGen' = svcGen + 1 /\ pauseEpoch' = pauseEpoch /\ svcGen' \in 0..MaxGen
    BY <1>1, ServiceAssumption DEF Pause, InvalidateGeneration
  <1>3. state' \in {state, "suspended"} /\ (state \in {"failed", "closed"} => state' = state)
    BY DEF Pause, InvalidateGeneration
  <1>4. ServiceTypeOK' /\ PipeTypes'
    <2>1. /\ svcGen' \in 0..MaxGen /\ pauseEpoch' \in 0..MaxEpoch /\ barrier' \in 0..captures'
      BY <1>0, <1>1, <1>2 DEF ServiceInv, ServiceTypeOK
    <2>2. state' \in {"ready", "suspended", "draining", "failed", "closed"}
      BY <1>3 DEF ServiceInv, ServiceTypeOK
    <2> QED BY <1>0, <2>1, <2>2 DEF ServiceInv, ServiceTypeOK, PipeTypes, childVars
  <1>5. OneJobOutstanding' /\ PendingIsCurrent'
    BY <1>0, <1>3 DEF ServiceInv, OneJobOutstanding, PendingIsCurrent, childVars
  <1>6. Overtaken'
    <2>1. ASSUME inFlight # None
          PROVE  /\ inFlight.gen <= svcGen' /\ inFlight.epoch <= pauseEpoch'
                 /\ inFlight.gen # svcGen' \/ inFlight.epoch # pauseEpoch'
      <3>1. /\ inFlight.gen \in Nat /\ inFlight.epoch \in Nat
            /\ inFlight.gen <= svcGen /\ inFlight.epoch <= pauseEpoch
        BY <2>1, CaptureIs DEF ServiceInv, ServiceTypeOK, Overtaken
      <3> QED BY <1>1, <1>2, <3>1
    <2> QED BY <1>0, <2>1 DEF ServiceInv, Overtaken, Stale
  <1>7. DeliveredInOrder'
    BY <1>0, <1>1, DeliveredKept
  <1>8. LogOk(events, Open, Unreported)'
    <2>1. Open' \subseteq Open /\ Unreported' \subseteq Unreported
      BY <1>0 DEF Open, Unreported, Later, IdOf
    <2> QED BY <1>0, <2>1, LogKept
  <1> QED BY <1>4, <1>5, <1>6, <1>7, <1>8 DEF ServiceInv

LEMMA StateKeeps ==
  ASSUME ServiceInv, Resume \/ BeginDraining \/ DrainEvents \/ (PollQuiet /\ taken' \in {taken, Len(events')})
  PROVE  ServiceInv'
  <1>1. /\ UNCHANGED <<svcGen, pauseEpoch, captures, inFlight, reported, pending, events, delivered,
                       barrier, childVars>>
        /\ state' = state \/ (state' \in {"ready", "draining"} /\ state \in {"ready", "suspended"})
        /\ taken' \in {taken, Len(events)}
    BY DEF Resume, BeginDraining, DrainEvents, PollQuiet
  <1>2. ServiceTypeOK' /\ PipeTypes'
    <2>1. taken' \in 0..Len(events)
      BY <1>1, NoneOrSome DEF ServiceInv, ServiceTypeOK
    <2>2. state' \in {"ready", "suspended", "draining", "failed", "closed"}
      BY <1>1 DEF ServiceInv, ServiceTypeOK
    <2> QED BY <1>1, <2>1, <2>2 DEF ServiceInv, ServiceTypeOK, PipeTypes, childVars
  <1>3. OneJobOutstanding' /\ PendingIsCurrent' /\ Overtaken' /\ DeliveredInOrder'
    BY <1>1 DEF ServiceInv, OneJobOutstanding, PendingIsCurrent, Overtaken, DeliveredInOrder, Stale,
          childVars
  <1>4. LogOk(events, Open, Unreported)'
    BY <1>1, LogKept DEF Open, Unreported, Later
  <1> QED BY <1>2, <1>3, <1>4 DEF ServiceInv

LEMMA ClosedKeeps == ASSUME ServiceInv, CloseIdle \/ ForceClose PROVE ServiceInv'
  <1>1. /\ UNCHANGED <<svcGen, pauseEpoch, captures, events, taken, delivered, barrier>>
        /\ inFlight' = None /\ pending' = None /\ state' = "closed" /\ childUp' = FALSE
        /\ reported' \in {reported, FALSE}
        /\ requests' \in {requests, <<>>} /\ responses' \in {responses, <<>>}
    BY DEF CloseIdle, ForceClose, Idle
  <1>2. ServiceTypeOK' /\ PipeTypes'
    <2>1. requests' \in Seq(Jobs) /\ responses' \in Seq(Answers)
      BY <1>1, EmptySeq DEF ServiceInv, PipeTypes
    <2>2. reported' \in BOOLEAN
      BY <1>1 DEF ServiceInv, ServiceTypeOK
    <2> QED BY <1>1, <2>1, <2>2 DEF ServiceInv, ServiceTypeOK, PipeTypes
  <1>3. OneJobOutstanding' /\ PendingIsCurrent' /\ Overtaken'
    BY <1>1 DEF OneJobOutstanding, PendingIsCurrent, Overtaken
  <1>4. DeliveredInOrder'
    BY <1>1 DEF ServiceInv, DeliveredInOrder
  <1>5. LogOk(events, Open, Unreported)'
    <2>1. Open' \subseteq Open /\ Unreported' \subseteq Unreported
      BY <1>1 DEF Open, Unreported, Later, IdOf
    <2> QED BY <1>1, <2>1, LogKept
  <1> QED BY <1>2, <1>3, <1>4, <1>5 DEF ServiceInv

-----------------------------------------------------------------------------
(* The child and the clock. *)
LEMMA ScanChildKeeps == ASSUME ServiceInv, ScanChild PROVE ServiceInv'
  <1>0. UNCHANGED serviceVars /\ requests \in Seq(Jobs) /\ responses \in Seq(Answers)
    BY DEF ScanChild, ServiceInv, PipeTypes
  <1>1. PendingIsCurrent' /\ Overtaken' /\ DeliveredInOrder'
    BY <1>0 DEF ServiceInv, PendingIsCurrent, Overtaken, DeliveredInOrder, Stale, serviceVars
  <1>2. LogOk(events, Open, Unreported)'
    BY <1>0, LogKept DEF Open, Unreported, Later, serviceVars
  <1>3. ASSUME requests' \in Seq(Jobs), responses' \in Seq(Answers), childUp' \in BOOLEAN,
               OneJobOutstanding'
        PROVE  ServiceInv'
    BY <1>0, <1>1, <1>2, <1>3 DEF ServiceInv, ServiceTypeOK, PipeTypes, serviceVars
  <1>4. ASSUME NEW kind \in Kinds, ChildAnswer(kind) PROVE ServiceInv'
    <2> DEFINE answer == [job |-> Head(requests), kind |-> kind]
    <2>1. /\ requests # <<>> /\ requests' = Tail(requests) /\ responses' = Append(responses, answer)
          /\ childUp' = childUp
      BY <1>4 DEF ChildAnswer
    <2>2. Head(requests) \in Jobs /\ answer \in Answers /\ Tail(requests) \in Seq(Jobs)
      BY <1>0, <2>1, HeadTailProperties DEF Answers
    <2>3. /\ Len(requests) \in Nat \ {0} /\ Len(responses) \in Nat
          /\ (responses = <<>> <=> Len(responses) = 0)
      BY <1>0, <2>1, NoneOrSome
    <2>4. requests' \in Seq(Jobs) /\ responses' \in Seq(Answers)
      BY <1>0, <2>1, <2>2, Appended
    <2>5. OneJobOutstanding'
      <3> SUFFICES ASSUME state \notin {"failed", "closed"} PROVE OneJobOutstanding'
        BY <1>0 DEF OneJobOutstanding, serviceVars
      <3>1. /\ Len(requests) + Len(responses) <= 1 /\ inFlight # None
            /\ Head(requests) = Job(inFlight)
        BY <2>1 DEF ServiceInv, OneJobOutstanding
      <3>2. Len(requests) = 1 /\ responses = <<>>
        BY <2>3, <3>1
      <3>3. requests' = <<>> /\ Len(responses') = 1 /\ Head(responses') = answer
        BY <1>0, <2>1, <2>2, <3>2, OnlyOne, AppendedToNone
      <3>4. Len(requests') = 0 /\ Head(responses').job = Job(inFlight)
        BY <3>1, <3>3, EmptySeq
      <3> QED BY <1>0, <3>1, <3>3, <3>4 DEF OneJobOutstanding, serviceVars, Job
    <2> QED BY <1>3, <2>1, <2>4, <2>5 DEF ServiceInv, ServiceTypeOK
  <1>5. CASE ChildExit
    <2>1. requests' = <<>> /\ responses' = responses /\ childUp' = FALSE
      BY <1>5 DEF ChildExit
    <2>2. /\ Len(requests) \in Nat /\ Len(responses) \in Nat /\ Len(requests') = 0
          /\ requests' \in Seq(Jobs)
      BY <1>0, <2>1, NoneOrSome, EmptySeq
    <2>3. OneJobOutstanding'
      BY <1>0, <2>1, <2>2 DEF ServiceInv, OneJobOutstanding, serviceVars
    <2> QED BY <1>0, <1>3, <2>1, <2>2, <2>3
  <1> QED BY <1>4, <1>5 DEF ScanChild

LEMMA LateIs ==
  ASSUME NEW c \in Capture
  PROVE  /\ [c EXCEPT !.late = TRUE] \in Capture
         /\ [c EXCEPT !.late = TRUE].id = c.id /\ [c EXCEPT !.late = TRUE].gen = c.gen
         /\ [c EXCEPT !.late = TRUE].epoch = c.epoch
  BY DEF Capture

LEMMA AgeKeeps == ASSUME ServiceInv, Age PROVE ServiceInv'
  <1>0. UNCHANGED <<state, svcGen, pauseEpoch, captures, reported, events, taken, delivered, barrier,
                    childVars>>
    BY DEF Age
  <1>1. /\ inFlight \in Capture \cup {None} /\ pending \in Capture \cup {None} /\ captures \in Nat
    BY ServiceAssumption DEF ServiceInv, ServiceTypeOK
  <1>2. /\ inFlight' \in Capture \cup {None} /\ (inFlight' = None <=> inFlight = None)
        /\ inFlight # None => /\ inFlight'.id = inFlight.id /\ inFlight'.gen = inFlight.gen
                              /\ inFlight'.epoch = inFlight.epoch
    BY <1>1, LateIs, NoneIs DEF Age, BudgetEnds
  <1>3. /\ pending' \in Capture \cup {None} /\ (pending' = None <=> pending = None)
        /\ pending # None => /\ pending'.id = pending.id /\ pending'.gen = pending.gen
                             /\ pending'.epoch = pending.epoch
    BY <1>1, LateIs, NoneIs DEF Age, BudgetEnds
  <1>4. ServiceTypeOK' /\ PipeTypes'
    BY <1>0, <1>2, <1>3 DEF ServiceInv, ServiceTypeOK, PipeTypes, childVars
  <1>5. OneJobOutstanding'
    <2>1. inFlight # None => Job(inFlight') = Job(inFlight)
      BY <1>2 DEF Job
    <2> QED BY <1>0, <1>2, <2>1 DEF ServiceInv, OneJobOutstanding, childVars
  <1>6. PendingIsCurrent' /\ Overtaken'
    BY <1>0, <1>2, <1>3 DEF ServiceInv, PendingIsCurrent, Overtaken, Stale
  <1>7. DeliveredInOrder'
    BY <1>0, <1>1, <1>2, DeliveredKept
  <1>8. LogOk(events, Open, Unreported)'
    <2>1. Open' = Open /\ Unreported' = Unreported
      BY <1>0, <1>2, <1>3 DEF Open, Unreported, Later, IdOf
    <2> QED BY <1>0, <2>1, LogKept
  <1> QED BY <1>4, <1>5, <1>6, <1>7, <1>8 DEF ServiceInv

-----------------------------------------------------------------------------
(* poll *)
LEMMA PollIdleKeeps == ASSUME ServiceInv, PollIdle, taken' \in {taken, Len(events')} PROVE ServiceInv'
  <1>0. /\ UNCHANGED <<state, svcGen, pauseEpoch, captures, inFlight, pending, delivered, barrier,
                       childVars>>
        /\ reported' = TRUE /\ ~reported /\ inFlight # None
        /\ events' = Append(events, Event("job_overrun", inFlight))
    BY DEF PollIdle, Overrun
  <1>1. inFlight \in Capture /\ captures \in Nat /\ inFlight.id \in Nat /\ inFlight.id <= captures
    BY <1>0, CaptureIs, ServiceAssumption DEF ServiceInv, ServiceTypeOK, Overtaken
  <1>2. /\ Event("job_overrun", inFlight) \in Events
        /\ Event("job_overrun", inFlight).kind = "job_overrun"
        /\ Event("job_overrun", inFlight).id = inFlight.id
    BY <1>1, EventIs
  <1>3. inFlight.id \in Unreported
    BY <1>0 DEF Unreported, IdOf
  <1>4. /\ LogOk(events', Open, Unreported \ {inFlight.id})
        /\ Len(events') = Len(events) + 1 /\ Len(events) \in Nat
    BY <1>0, <1>2, <1>3, OverrunLogged DEF ServiceInv
  <1>5. ServiceTypeOK' /\ PipeTypes'
    <2>1. events' \in Seq(Events) /\ taken' \in 0..Len(events')
      BY <1>4 DEF LogOk, ServiceInv, ServiceTypeOK
    <2> QED BY <1>0, <2>1 DEF ServiceInv, ServiceTypeOK, PipeTypes, Events, childVars
  <1>6. OneJobOutstanding' /\ PendingIsCurrent' /\ Overtaken' /\ DeliveredInOrder'
    BY <1>0 DEF ServiceInv, OneJobOutstanding, PendingIsCurrent, Overtaken, DeliveredInOrder, Stale,
          childVars
  <1>7. LogOk(events, Open, Unreported)'
    <2>1. ASSUME pending # None PROVE pending.id # inFlight.id
      BY <1>0, <1>1, <2>1, CaptureIs DEF ServiceInv, ServiceTypeOK, PendingIsCurrent
    <2>2. inFlight.id \notin Later
      BY <1>1 DEF Later
    <2>3. Open' = Open /\ Unreported' \subseteq Unreported \ {inFlight.id}
      BY <1>0, <2>1, <2>2 DEF Open, Unreported, Later, IdOf
    <2> QED BY <1>4, <2>3, LogShrinks
  <1> QED BY <1>5, <1>6, <1>7 DEF ServiceInv

LEMMA PollFailsKeeps == ASSUME ServiceInv, PollExited \/ PollBroken, taken' \in {taken, Len(events')} PROVE ServiceInv'
  <1>1. /\ FailService /\ events' = Append(events, Event("service_failed", inFlight))
        /\ UNCHANGED <<svcGen, pauseEpoch, captures, inFlight, reported, delivered, barrier>>
        /\ requests' = requests /\ childUp' = childUp
    BY DEF PollExited, PollBroken, ChildTake, childVars
  <1>2. responses' \in Seq(Answers)
    <2>1. CASE PollExited
      BY <2>1 DEF PollExited, childVars, ServiceInv, PipeTypes
    <2>2. CASE PollBroken
      <3>1. responses # <<>> /\ responses' = Tail(responses) /\ responses \in Seq(Answers)
        BY <2>2 DEF PollBroken, ChildTake, ServiceInv, PipeTypes
      <3> QED BY <3>1, HeadTailProperties
    <2> QED BY <2>1, <2>2
  <1>3. /\ inFlight \in Capture \cup {None} /\ captures \in 0..MaxCaptures /\ childUp \in BOOLEAN
        /\ requests \in Seq(Jobs)
    BY DEF ServiceInv, ServiceTypeOK, PipeTypes
  <1> QED BY <1>1, <1>2, <1>3, ServiceFails

(* An answer that belongs to the job in flight is the only thing in the    *)
(* pipes.                                                                  *)
LEMMA AnsweredIs ==
  ASSUME ServiceInv, NEW kind, Answered(kind)
  PROVE  /\ inFlight \in Capture /\ inFlight.id \in Nat /\ inFlight.id <= captures /\ captures \in Nat
         /\ requests = <<>> /\ Tail(responses) = <<>>
         /\ state \notin {"failed", "closed"}
  <1>1. /\ inFlight # None /\ responses # <<>> /\ state \notin {"failed", "closed"}
        /\ requests \in Seq(Jobs) /\ responses \in Seq(Answers)
    BY DEF Answered, Matches, ServiceInv, PipeTypes
  <1>2. /\ Len(requests) \in Nat /\ Len(responses) \in Nat \ {0}
        /\ (requests = <<>> <=> Len(requests) = 0) /\ Len(requests) + Len(responses) <= 1
    BY <1>1, NoneOrSome DEF ServiceInv, OneJobOutstanding
  <1>3. Len(responses) = 1 /\ requests = <<>>
    <2>1. ASSUME NEW m \in Nat, NEW n \in Nat \ {0}, m + n <= 1 PROVE m = 0 /\ n = 1
      BY <2>1
    <2>2. Len(requests) = 0 /\ Len(responses) = 1
      BY <1>2, <2>1
    <2> QED BY <1>2, <2>2
  <1>4. Tail(responses) = <<>>
    BY <1>1, <1>3, OnlyOne
  <1>5. inFlight \in Capture /\ inFlight.id \in Nat /\ inFlight.id <= captures /\ captures \in Nat
    BY <1>1, CaptureIs, ServiceAssumption DEF ServiceInv, ServiceTypeOK, Overtaken
  <1> QED BY <1>1, <1>3, <1>4, <1>5

(* The job in flight has ended with log; open and unreported no longer     *)
(* hold its capture, and the waiting capture takes its place.              *)
LEMMA PromotedKeeps ==
  ASSUME ServiceInv, NEW kind, Answered(kind), taken' \in {taken, Len(events')},
         NEW log, NEW open, NEW unreported, LogOk(log, open, unreported), Promoted(log),
         Len(log) >= Len(events),
         Later \cup IdOf(pending) \cup {delivered'[k] : k \in 1..Len(delivered')} \subseteq open,
         Later \cup IdOf(pending) \subseteq unreported,
         delivered' \in Seq(1..MaxCaptures),
         \A i \in 1..Len(delivered') : delivered'[i] <= inFlight.id,
         \A i, j \in 1..Len(delivered') : i < j => delivered'[i] < delivered'[j]
  PROVE  ServiceInv'
  <1>0. /\ inFlight \in Capture /\ inFlight.id \in Nat /\ inFlight.id <= captures /\ captures \in Nat
        /\ requests = <<>> /\ Tail(responses) = <<>> /\ state \notin {"failed", "closed"}
        /\ UNCHANGED <<svcGen, pauseEpoch, captures, barrier>>
    BY AnsweredIs DEF Answered
  <1>1. /\ log \in Seq(Events) /\ Len(log) \in Nat /\ Len(events) \in Nat /\ taken \in 0..Len(events)
        /\ pending \in Capture \cup {None} /\ childUp \in BOOLEAN
        /\ state \in {"ready", "suspended", "draining", "failed", "closed"}
    BY NoneOrSome DEF LogOk, ServiceInv, ServiceTypeOK
  <1>2. \A i \in 1..Len(delivered') : delivered'[i] \in Nat /\ delivered'[i] <= captures
    <2>1. \A i \in 1..Len(delivered') : delivered'[i] \in Nat
      BY ElementOfSeq, ServiceAssumption
    <2> QED BY SMTT(30), <1>0, <2>1
  <1>3. Later' = Later
    BY <1>0 DEF Later
  <1>4. ASSUME events' \in Seq(Events), Len(events') >= Len(log), Len(events') \in Nat,
               inFlight' \in Capture \cup {None},
               reported' \in BOOLEAN, state' \in {state, "failed"}, pending' \in {pending, None},
               requests' \in Seq(Jobs), responses' = <<>>, childUp' = childUp
        PROVE  ServiceTypeOK' /\ PipeTypes'
    <2>1. taken' \in 0..Len(events')
      BY <1>1, <1>4
    <2>2. responses' \in Seq(Answers)
      BY <1>4, EmptySeq
    <2>3. /\ state' \in {"ready", "suspended", "draining", "failed", "closed"}
          /\ pending' \in Capture \cup {None}
      BY <1>1, <1>4
    <2> QED BY <1>0, <1>4, <2>1, <2>2, <2>3 DEF ServiceInv, ServiceTypeOK, PipeTypes, Events
  <1>5. ASSUME ~Promotes, inFlight' = None, reported' = FALSE, events' = log,
               responses' = Tail(responses), UNCHANGED <<state, pending, requests, childUp>>
        PROVE  ServiceInv'
    <2>1. pending = None
      BY <1>5 DEF Promotes, ServiceInv, Overtaken
    <2>2. requests \in Seq(Jobs) /\ Len(requests) = 0 /\ Len(responses') = 0 /\ responses' = <<>>
      BY <1>0, <1>5, EmptySeq
    <2>3. ServiceTypeOK' /\ PipeTypes'
      <3>1. /\ events' \in Seq(Events) /\ Len(events') >= Len(log) /\ Len(events') \in Nat
            /\ requests' \in Seq(Jobs)
        BY <1>1, <1>5, <2>2
      <3>2. /\ inFlight' \in Capture \cup {None} /\ reported' \in BOOLEAN /\ state' \in {state, "failed"}
            /\ pending' \in {pending, None} /\ childUp' = childUp
        BY <1>5
      <3> QED BY <1>4, <2>2, <3>1, <3>2
    <2>4. OneJobOutstanding' /\ PendingIsCurrent' /\ Overtaken'
      <3>0. requests' = <<>> /\ responses' = <<>> /\ inFlight' = None /\ Len(<<>>) = 0
        BY <1>5, <2>2, EmptySeq
      <3>1. OneJobOutstanding'
        BY <3>0 DEF OneJobOutstanding
      <3>2. PendingIsCurrent' /\ Overtaken'
        BY <1>0, <1>5, <2>1 DEF PendingIsCurrent, Overtaken
      <3> QED BY <3>1, <3>2
    <2>5. DeliveredInOrder'
      BY <1>0, <1>2, <1>5 DEF DeliveredInOrder
    <2>6. LogOk(events, Open, Unreported)'
      <3>1. Open' \subseteq open /\ Unreported' \subseteq unreported
        BY <1>3, <1>5, <2>1 DEF Open, Unreported, IdOf
      <3> QED BY <1>5, <3>1, LogShrinks
    <2> QED BY <2>3, <2>4, <2>5, <2>6 DEF ServiceInv
  <1>6. ASSUME Promotes, childUp, inFlight' = pending, reported' = pending.late,
               events' = log \o (IF pending.late THEN <<Event("job_overrun", pending)>> ELSE <<>>),
               pending' = None, requests' = Append(requests, Job(pending)),
               responses' = Tail(responses), UNCHANGED <<state, childUp>>
        PROVE  ServiceInv'
    <2>1. /\ pending \in Capture /\ pending # None /\ pending.late \in BOOLEAN /\ Job(pending) \in Jobs
          /\ pending.id \in Nat /\ pending.gen \in Nat /\ pending.epoch \in Nat
          /\ IdOf(pending) = {pending.id}
      BY <1>1, <1>6, CaptureIs DEF Promotes
    <2>2. /\ pending.id > inFlight.id /\ ~Stale(pending) /\ pending.id <= captures
          /\ pending.id > barrier /\ pending.gen = svcGen /\ pending.epoch = pauseEpoch
      BY <2>1 DEF ServiceInv, PendingIsCurrent, Overtaken, Stale
    <2>3. /\ requests' \in Seq(Jobs) /\ Len(requests') = 1 /\ Head(requests') = Job(pending)
          /\ Len(responses') = 0 /\ responses' = <<>>
      BY <1>0, <1>6, <2>1, AppendedToNone, EmptySeq
    <2>4. /\ LogOk(events', open, IF pending.late THEN unreported \ {pending.id} ELSE unreported)
          /\ Len(events') >= Len(log) /\ Len(events') \in Nat
      <3>1. CASE pending.late
        <4> DEFINE e == Event("job_overrun", pending)
        <4>1. e \in Events /\ e.kind = "job_overrun" /\ e.id = pending.id /\ e.id \in unreported
          BY <2>1, EventIs
        <4>2. events' = Append(log, e)
          BY <1>1, <1>6, <3>1, <4>1, AppendIsConcat
        <4> HIDE DEF e
        <4>3. LogOk(events', open, unreported \ {pending.id}) /\ Len(events') = Len(log) + 1
          BY <4>1, <4>2, OverrunLogged
        <4> QED BY <1>1, <3>1, <4>3
      <3>2. CASE ~pending.late
        <4>1. events' = log
          BY <1>1, <1>6, <3>2, ConcatEmptySeq
        <4> QED BY <1>1, <3>2, <4>1
      <3> QED BY <3>1, <3>2
    <2>5. ServiceTypeOK' /\ PipeTypes'
      <3>1. events' \in Seq(Events)
        BY <2>4 DEF LogOk
      <3>2. pending' \in {pending, None} /\ state' \in {state, "failed"} /\ childUp' = childUp
        BY <1>6
      <3> QED BY <1>4, <1>6, <2>1, <2>3, <2>4, <3>1, <3>2
    <2>6. OneJobOutstanding' /\ PendingIsCurrent'
      BY <1>6, <2>1, <2>3 DEF OneJobOutstanding, PendingIsCurrent
    <2>7. Overtaken'
      BY <1>0, <1>6, <2>1, <2>2 DEF Overtaken
    <2>8. DeliveredInOrder'
      <3>1. \A i \in 1..Len(delivered') : delivered'[i] < pending.id
        <4> SUFFICES ASSUME NEW i \in 1..Len(delivered') PROVE delivered'[i] < pending.id
          OBVIOUS
        <4>1. delivered'[i] \in Nat /\ delivered'[i] <= inFlight.id
          BY <1>2
        <4> QED BY <1>0, <2>1, <2>2, <4>1
      <3> QED BY <1>0, <1>2, <1>6, <3>1 DEF DeliveredInOrder
    <2>9. LogOk(events, Open, Unreported)'
      <3>1. pending.id \notin Later
        BY <1>0, <2>1, <2>2 DEF Later
      <3>2. Open' \subseteq open
        BY <1>3, <1>6 DEF Open, IdOf
      <3>3. Unreported' \subseteq IF pending.late THEN unreported \ {pending.id} ELSE unreported
        BY <1>3, <1>6, <2>1, <3>1 DEF Unreported, IdOf
      <3> QED BY <2>4, <3>2, <3>3, LogShrinks
    <2> QED BY <2>5, <2>6, <2>7, <2>8, <2>9 DEF ServiceInv
  <1>7. ASSUME Promotes, ~childUp, inFlight' = None, reported' = FALSE, FailService,
               events' = Append(log, Event("service_failed", None)),
               responses' = Tail(responses), UNCHANGED <<requests, childUp>>
        PROVE  ServiceInv'
    <2>1. state' = "failed" /\ pending' = None
      BY <1>7 DEF FailService
    <2>2. /\ LogOk(events', open, unreported) /\ Len(events') = Len(log) + 1
      <3>1. /\ Event("service_failed", None) \in Events
            /\ Event("service_failed", None).kind = "service_failed"
        BY EventIs
      <3> QED BY <1>7, <3>1, LogAppended DEF Outcomes
    <2>3. ServiceTypeOK' /\ PipeTypes'
      <3>1. /\ events' \in Seq(Events) /\ Len(events') >= Len(log) /\ Len(events') \in Nat
            /\ requests' \in Seq(Jobs)
        BY <1>0, <1>1, <1>7, <2>2, EmptySeq DEF LogOk
      <3> QED BY <1>0, <1>4, <1>7, <2>1, <3>1
    <2>4. OneJobOutstanding' /\ PendingIsCurrent' /\ Overtaken'
      BY <1>7, <2>1 DEF OneJobOutstanding, PendingIsCurrent, Overtaken
    <2>5. DeliveredInOrder'
      BY <1>0, <1>2, <1>7 DEF DeliveredInOrder
    <2>6. LogOk(events, Open, Unreported)'
      <3>1. Open' \subseteq open /\ Unreported' \subseteq unreported
        BY <1>3, <1>7, <2>1 DEF Open, Unreported, IdOf
      <3> QED BY <2>2, <3>1, LogShrinks
    <2> QED BY <2>3, <2>4, <2>5, <2>6 DEF ServiceInv
  <1> QED BY <1>5, <1>6, <1>7 DEF Promoted

(* The overrun that poll notices with the answer. *)
LEMMA OverrunNoticed ==
  ASSUME ServiceInv, inFlight \in Capture
  PROVE  /\ LogOk(events \o OverrunEvents, Open, Later \cup IdOf(pending))
         /\ Len(events \o OverrunEvents) >= Len(events) /\ Len(events \o OverrunEvents) \in Nat
  <1>0. /\ LogOk(events, Open, Unreported) /\ events \in Seq(Events) /\ Len(events) \in Nat
        /\ captures \in Nat /\ inFlight # None
    BY NoneOrSome, CaptureIs, ServiceAssumption DEF ServiceInv, LogOk, ServiceTypeOK
  <1>1. inFlight.id \notin Later \cup IdOf(pending)
    <2>1. inFlight.id \in Nat /\ inFlight.id <= captures
      BY <1>0, CaptureIs DEF ServiceInv, Overtaken
    <2>2. inFlight.id \notin Later
      BY <1>0, <2>1 DEF Later
    <2>3. ASSUME pending # None PROVE pending.id # inFlight.id
      BY <2>1, <2>3, CaptureIs DEF ServiceInv, ServiceTypeOK, PendingIsCurrent
    <2> QED BY <2>2, <2>3 DEF IdOf
  <1>2. Later \cup IdOf(pending) \subseteq Unreported \ {inFlight.id}
    BY <1>1 DEF Unreported
  <1>3. CASE Overrun
    <2> DEFINE e == Event("job_overrun", inFlight)
    <2>1. e \in Events /\ e.kind = "job_overrun" /\ e.id = inFlight.id
      BY EventIs
    <2>2. inFlight.id \in Unreported
      BY <1>0, <1>3 DEF Unreported, Overrun, IdOf
    <2>3. events \o OverrunEvents = Append(events, e)
      BY <1>0, <1>3, <2>1, AppendIsConcat DEF OverrunEvents
    <2> HIDE DEF e
    <2>4. /\ LogOk(Append(events, e), Open, Unreported \ {inFlight.id})
          /\ Len(Append(events, e)) = Len(events) + 1
      BY <1>0, <2>1, <2>2, OverrunLogged
    <2>5. LogOk(Append(events, e), Open, Later \cup IdOf(pending))
      BY <1>2, <2>4, LogShrinks
    <2> QED BY <1>0, <2>3, <2>4, <2>5
  <1>4. CASE ~Overrun
    <2>1. events \o OverrunEvents = events
      BY <1>0, <1>4, ConcatEmptySeq DEF OverrunEvents
    <2>2. LogOk(events, Open, Later \cup IdOf(pending))
      BY <1>0, <1>2, LogShrinks
    <2> QED BY <1>0, <1>4, <2>1, <2>2
  <1> QED BY <1>3, <1>4

(* What is open and delivered once the job in flight has ended. *)
LEMMA DeliveredIs ==
  ASSUME ServiceInv, inFlight \in Capture
  PROVE  /\ \A k \in 1..Len(delivered) : /\ delivered[k] \in Nat /\ delivered[k] < inFlight.id
                                         /\ delivered[k] \in Open
         /\ Later \cup IdOf(pending) \subseteq Open \ {inFlight.id}
         /\ delivered \in Seq(1..MaxCaptures) /\ inFlight.id \in 1..MaxCaptures
  <1>1. inFlight # None /\ inFlight.id \in 1..MaxCaptures /\ inFlight.id \in Nat
    BY CaptureIs
  <1>2. inFlight.id <= captures /\ captures \in Nat
    BY <1>1, ServiceAssumption DEF ServiceInv, ServiceTypeOK, Overtaken
  <1>3. ASSUME pending # None PROVE pending.id # inFlight.id
    BY <1>1, <1>3, CaptureIs DEF ServiceInv, ServiceTypeOK, PendingIsCurrent
  <1>4. Later \cup IdOf(pending) \subseteq Open \ {inFlight.id}
    BY <1>1, <1>2, <1>3 DEF Open, Later, IdOf
  <1>5. delivered \in Seq(1..MaxCaptures)
    BY DEF ServiceInv, ServiceTypeOK
  <1>6. ASSUME NEW k \in 1..Len(delivered)
        PROVE  delivered[k] \in Nat /\ delivered[k] < inFlight.id /\ delivered[k] \in Open
    <2>1. delivered[k] \in Nat
      BY <1>5, ElementOfSeq, ServiceAssumption
    <2> QED BY <1>1, <2>1 DEF ServiceInv, DeliveredInOrder, Open
  <1> QED BY <1>1, <1>4, <1>5, <1>6

LEMMA PollStaleKeeps == ASSUME ServiceInv, PollStale, taken' \in {taken, Len(events')} PROVE ServiceInv'
  <1>1. PICK kind \in {"frame", "failed"} : Answered(kind)
    BY DEF PollStale
  <1>2. Promoted(events) /\ delivered' = delivered
    BY DEF PollStale
  <1>3. inFlight \in Capture /\ LogOk(events, Open, Unreported) /\ Len(events) \in Nat
    BY <1>1, AnsweredIs, NoneOrSome DEF ServiceInv, LogOk
  <1>4. /\ \A k \in 1..Len(delivered) : /\ delivered[k] \in Nat /\ delivered[k] < inFlight.id
                                        /\ delivered[k] \in Open
        /\ Later \cup IdOf(pending) \subseteq Open \ {inFlight.id}
        /\ delivered \in Seq(1..MaxCaptures) /\ inFlight.id \in 1..MaxCaptures
    BY <1>3, DeliveredIs
  <1>5. Later \cup IdOf(pending) \subseteq Unreported
    BY DEF Unreported
  <1>6. Later \cup IdOf(pending) \cup {delivered'[k] : k \in 1..Len(delivered')} \subseteq Open
    BY <1>2, <1>4
  <1>7. /\ \A i \in 1..Len(delivered') : delivered'[i] <= inFlight.id
        /\ \A i, j \in 1..Len(delivered') : i < j => delivered'[i] < delivered'[j]
    BY <1>2, <1>4 DEF ServiceInv, DeliveredInOrder
  <1> QED BY <1>1, <1>2, <1>3, <1>4, <1>5, <1>6, <1>7, PromotedKeeps

LEMMA PollFailedKeeps == ASSUME ServiceInv, PollFailed, taken' \in {taken, Len(events')} PROVE ServiceInv'
  <1> DEFINE log == events \o OverrunEvents
             e == Event("frame_failed", inFlight)
  <1>1. Answered("failed") /\ Promoted(Append(log, e)) /\ delivered' = delivered
    BY DEF PollFailed
  <1>2. inFlight \in Capture
    BY <1>1, AnsweredIs
  <1>3. /\ LogOk(log, Open, Later \cup IdOf(pending)) /\ Len(log) >= Len(events) /\ Len(log) \in Nat
        /\ Len(events) \in Nat
    BY <1>2, OverrunNoticed, NoneOrSome DEF ServiceInv, LogOk
  <1>4. /\ \A k \in 1..Len(delivered) : /\ delivered[k] \in Nat /\ delivered[k] < inFlight.id
                                        /\ delivered[k] \in Open
        /\ Later \cup IdOf(pending) \subseteq Open \ {inFlight.id}
        /\ delivered \in Seq(1..MaxCaptures) /\ inFlight.id \in 1..MaxCaptures
    BY <1>2, DeliveredIs
  <1>5. e \in Events /\ e.kind \in Outcomes /\ e.id = inFlight.id /\ inFlight.id \in Open
    BY <1>2, EventIs, CaptureIs DEF Outcomes, Open
  <1> HIDE DEF log, e
  <1>6. /\ LogOk(Append(log, e), Open \ {inFlight.id}, Later \cup IdOf(pending))
        /\ Len(Append(log, e)) = Len(log) + 1
    BY <1>3, <1>5, OutcomeLogged
  <1>7. Len(Append(log, e)) >= Len(events)
    BY <1>3, <1>6
  <1>8. Later \cup IdOf(pending) \cup {delivered'[k] : k \in 1..Len(delivered')}
          \subseteq Open \ {inFlight.id}
    <2>1. \A k \in 1..Len(delivered) : delivered[k] \in Open \ {inFlight.id}
      BY <1>4
    <2> QED BY <1>1, <1>4, <2>1
  <1>9. /\ \A i \in 1..Len(delivered') : delivered'[i] <= inFlight.id
        /\ \A i, j \in 1..Len(delivered') : i < j => delivered'[i] < delivered'[j]
    BY <1>1, <1>4 DEF ServiceInv, DeliveredInOrder
  <1> QED BY <1>1, <1>4, <1>6, <1>7, <1>8, <1>9, PromotedKeeps

LEMMA PollFrameKeeps == ASSUME ServiceInv, PollFrame, taken' \in {taken, Len(events')} PROVE ServiceInv'
  <1> DEFINE log == events \o OverrunEvents
  <1>1. Answered("frame") /\ Promoted(log) /\ delivered' = Append(delivered, inFlight.id)
    BY DEF PollFrame
  <1>2. inFlight \in Capture
    BY <1>1, AnsweredIs
  <1>3. LogOk(log, Open, Later \cup IdOf(pending)) /\ Len(log) >= Len(events)
    BY <1>2, OverrunNoticed
  <1>4. /\ \A k \in 1..Len(delivered) : /\ delivered[k] \in Nat /\ delivered[k] < inFlight.id
                                        /\ delivered[k] \in Open
        /\ Later \cup IdOf(pending) \subseteq Open \ {inFlight.id}
        /\ delivered \in Seq(1..MaxCaptures) /\ inFlight.id \in 1..MaxCaptures
    BY <1>2, DeliveredIs
  <1> HIDE DEF log
  <1>5. /\ delivered' \in Seq(1..MaxCaptures) /\ Len(delivered') = Len(delivered) + 1
        /\ Len(delivered) \in Nat
        /\ \A i \in 1..Len(delivered) : delivered'[i] = delivered[i]
        /\ delivered'[Len(delivered) + 1] = inFlight.id
    BY <1>1, <1>4, Appended
  <1>6. inFlight.id \in Open /\ inFlight.id \in Nat
    BY <1>2, CaptureIs DEF Open
  <1>7. ASSUME NEW i \in 1..Len(delivered')
        PROVE  delivered'[i] \in Open /\ delivered'[i] <= inFlight.id
    BY <1>4, <1>5, <1>6
  <1>8. ASSUME NEW i \in 1..Len(delivered'), NEW j \in 1..Len(delivered'), i < j
        PROVE  delivered'[i] < delivered'[j]
    <2>1. i \in 1..Len(delivered)
      BY <1>5, <1>8
    <2>2. CASE j \in 1..Len(delivered)
      BY <1>5, <1>8, <2>1, <2>2 DEF ServiceInv, DeliveredInOrder
    <2>3. CASE j = Len(delivered) + 1
      BY <1>4, <1>5, <2>1, <2>3
    <2> QED BY <1>5, <2>2, <2>3
  <1>9. Later \cup IdOf(pending) \cup {delivered'[k] : k \in 1..Len(delivered')} \subseteq Open
    BY <1>4, <1>7
  <1>10. Later \cup IdOf(pending) \subseteq Later \cup IdOf(pending)
    OBVIOUS
  <1> QED BY <1>1, <1>3, <1>5, <1>7, <1>8, <1>9, <1>10, PromotedKeeps

-----------------------------------------------------------------------------
LEMMA ServiceKeeps == ServiceInv /\ [ServiceNext]_svcAll => ServiceInv'
  <1> SUFFICES ASSUME ServiceInv, [ServiceNext]_svcAll PROVE ServiceInv'
    OBVIOUS
  <1>1. CASE UNCHANGED svcAll
    <2>1. UNCHANGED serviceVars /\ UNCHANGED childVars
      BY <1>1 DEF svcAll
    <2>2. ServiceTypeOK' /\ PipeTypes' /\ OneJobOutstanding' /\ PendingIsCurrent' /\ Overtaken'
            /\ DeliveredInOrder'
      BY <2>1 DEF serviceVars, childVars, ServiceInv, ServiceTypeOK, PipeTypes, OneJobOutstanding,
            PendingIsCurrent, Overtaken, DeliveredInOrder, Stale
    <2>3. LogOk(events, Open, Unreported)'
      BY <2>1, LogKept DEF serviceVars, Open, Unreported, Later
    <2> QED BY <2>2, <2>3 DEF ServiceInv
  <1>2. CASE Poll
    BY <1>2, StateKeeps, PollIdleKeeps, PollFailsKeeps, PollStaleKeeps, PollFailedKeeps, PollFrameKeeps
       DEF Poll
  <1>3. CASE ServiceNext /\ ~Poll
    BY <1>3, RefuseKeeps, CaptureSendKeeps, CaptureBrokenKeeps, CapturePendKeeps, CaptureRejectKeeps,
       BarrierKeeps, StateKeeps, ClosedKeeps, AgeKeeps, ScanChildKeeps
       DEF ServiceNext
  <1> QED BY <1>1, <1>2, <1>3

(* One job on the way, nothing stale that waits, every capture at most one *)
(* outcome and one overrun, frames in capture order: for every number of   *)
(* captures, pauses and generations.                                       *)
THEOREM EveryCaptureHasOneOutcome == ServiceSpec => []ServiceSound
  <1>1. ServiceInv => ServiceSound
    BY CountedOnce DEF ServiceInv, ServiceSound
  <1> QED BY <1>1, ServiceStarts, ServiceKeeps, PTL DEF ServiceSpec

(* No frame crosses a pause or a new generation, though its job cannot be  *)
(* cancelled.                                                              *)
THEOREM FramesStayBehindTheBarrier == ServiceSpec => NoFrameAcrossBarrier
  <1> DEFINE Younger == delivered' # delivered => delivered'[Len(delivered')] > barrier
  <1>1. ServiceInv /\ [ServiceNext]_svcAll => [Younger]_svcAll
    <2> SUFFICES ASSUME ServiceInv, ServiceNext, delivered' # delivered
                 PROVE  delivered'[Len(delivered')] > barrier
      OBVIOUS
    <2>1. PollFrame
      BY DEF ServiceNext, Refuse, CaptureSend, CaptureBroken, CapturePend, CaptureReject, Pause, Resume,
            BeginDraining, InvalidateGeneration, CloseIdle, ForceClose, DrainEvents, Age, ScanChild,
            serviceVars, Poll, PollQuiet, PollIdle, PollExited, PollBroken, PollStale, PollFailed
    <2>2. /\ Answered("frame") /\ ~Stale(inFlight) /\ delivered' = Append(delivered, inFlight.id)
      BY <2>1 DEF PollFrame
    <2>3. inFlight \in Capture /\ inFlight # None
      BY <2>2, AnsweredIs, CaptureIs
    <2>4. inFlight.id > barrier
      BY <2>2, <2>3 DEF ServiceInv, Overtaken
    <2>5. delivered'[Len(delivered')] = inFlight.id
      <3>1. delivered \in Seq(1..MaxCaptures) /\ inFlight.id \in 1..MaxCaptures
        BY <2>3, DeliveredIs
      <3> QED BY <2>2, <3>1, Appended
    <2> QED BY <2>4, <2>5
  <1> QED BY <1>1, ServiceStarts, ServiceKeeps, PTL DEF ServiceSpec, NoFrameAcrossBarrier

-----------------------------------------------------------------------------
(* The sensor output.  Every accepted sample is waited for, published,     *)
(* failed or refused, and as long as the service has not failed the        *)
(* samples waited for are those of the service.                            *)
Published == {published[i] : i \in 1..Len(published)}
Delivered == {delivered[i] : i \in 1..Len(delivered)}
Rising(s) == \A i, j \in 1..Len(s) : i < j => s[i] < s[j]

OutputStands ==
    /\ OutputTypeOK
    /\ svcGen = 0 /\ pauseEpoch = 0
    /\ pc \in {"release", "released"} => waiting = {}
    /\ accepted = waiting \cup Published \cup FailedFrames \cup refused
    /\ Published \subseteq Delivered
    /\ Rising(published)

OutputInv == ServiceInv /\ FactoryMatchesService /\ OutputStands

LEMMA OutstandingIs ==
  ASSUME ServiceInv
  PROVE  Outstanding = IdOf(inFlight) \cup IdOf(pending)
  BY DEF Outstanding, IdOf

LEMMA NothingStale ==
  ASSUME OutputInv, inFlight # None
  PROVE  ~Stale(inFlight)
  <1>1. inFlight \in Capture
    BY DEF OutputInv, ServiceInv, ServiceTypeOK
  <1>2. inFlight.gen \in Nat /\ inFlight.epoch \in Nat
    BY <1>1, CaptureIs
  <1>3. inFlight.gen <= svcGen /\ inFlight.epoch <= pauseEpoch /\ svcGen = 0 /\ pauseEpoch = 0
    BY DEF OutputInv, OutputStands, ServiceInv, Overtaken
  <1> QED BY <1>2, <1>3 DEF Stale

LEMMA OutputStarts == OutputInit => OutputInv
  <1> SUFFICES ASSUME OutputInit PROVE OutputInv
    OBVIOUS
  <1> USE DEF OutputInit
  <1>1. ServiceInv
    BY ServiceStarts
  <1>2. /\ inFlight = None /\ pending = None /\ svcGen = 0 /\ pauseEpoch = 0
        /\ Len(published) = 0 /\ Len(events) = 0 /\ published \in Seq(1..MaxCaptures)
    BY EmptySeq DEF ServiceInit
  <1>3. FactoryMatchesService
    BY <1>1, <1>2, OutstandingIs DEF FactoryMatchesService, IdOf
  <1>4. Published = {} /\ FailedFrames = {} /\ Rising(published)
    BY <1>2 DEF Published, FailedFrames, Rising
  <1>5. OutputTypeOK
    BY <1>1, <1>2 DEF OutputTypeOK, ServiceInv
  <1> QED BY <1>1, <1>2, <1>3, <1>4, <1>5 DEF OutputInv, OutputStands

FailedIn(log) == {log[i].id : i \in {k \in 1..Len(log) : log[k].kind = "frame_failed"}}

(* What the log keeps when it grows. *)
LEMMA FailedGrow ==
  ASSUME NEW log \in Seq(Events), NEW e \in Events
  PROVE  FailedIn(Append(log, e)) = FailedIn(log) \cup (IF e.kind = "frame_failed" THEN {e.id} ELSE {})
  <1> DEFINE new == Append(log, e)
  <1>1. /\ Len(new) = Len(log) + 1 /\ Len(log) \in Nat
        /\ \A i \in 1..Len(log) : new[i] = log[i]
        /\ new[Len(log) + 1] = e
    BY Appended
  <1> HIDE DEF new
  <1>2. 1..Len(new) = 1..Len(log) \cup {Len(log) + 1}
    BY <1>1
  <1>3. FailedIn(new) = FailedIn(log) \cup (IF e.kind = "frame_failed" THEN {e.id} ELSE {})
    BY <1>1, <1>2 DEF FailedIn
  <1> QED BY <1>3 DEF new

LEMMA FailedAppended ==
  ASSUME NEW log \in Seq(Events), NEW kind \in {"service_failed", "capture_rejected", "job_overrun", "frame_failed"},
         NEW c \in Capture \cup {None}, kind = "frame_failed" => c # None
  PROVE  /\ Append(log, Event(kind, c)) \in Seq(Events)
         /\ FailedIn(Append(log, Event(kind, c))) = FailedIn(log) \cup (IF kind = "frame_failed" THEN {c.id} ELSE {})
  <1> DEFINE e == Event(kind, c)
  <1>1. e \in Events /\ e.kind = kind /\ (c \in Capture => e.id = c.id)
    BY EventIs
  <1> HIDE DEF e
  <1>2. Append(log, e) \in Seq(Events)
    BY <1>1, Appended
  <1>3. FailedIn(Append(log, e)) = FailedIn(log) \cup (IF e.kind = "frame_failed" THEN {e.id} ELSE {})
    BY <1>1, FailedGrow
  <1> QED BY <1>1, <1>2, <1>3 DEF e

LEMMA FailedFramesIs == FailedFrames = FailedIn(events) /\ FailedFrames' = FailedIn(events')
  BY DEF FailedFrames, FailedIn

(* A step that says nothing to the factory and leaves the jobs alone, or   *)
(* after which the service has failed.                                     *)
LEMMA QuietKeeps ==
  ASSUME OutputInv, ServiceInv', UNCHANGED <<waiting, accepted, published, refused, svcGen, pauseEpoch, delivered>>,
         FailedFrames' = FailedFrames,
         pc' \in {"poll1", "capture", "poll2", "drain", "release", "released", "aborted"},
         pc' \in {"release", "released"} => waiting = {},
         state' # "failed" => Outstanding' = waiting
  PROVE  OutputInv'
  <1>1. OutputTypeOK'
    BY DEF OutputInv, OutputStands, OutputTypeOK, ServiceInv
  <1>2. FactoryMatchesService'
    BY DEF FactoryMatchesService
  <1>3. Published' = Published /\ Delivered' = Delivered /\ (Rising(published) => Rising(published'))
    BY DEF Published, Delivered
  <1>4. Rising(published) = Rising(published)' /\ Rising(published)
    BY DEF Rising, OutputInv, OutputStands
  <1> QED BY <1>1, <1>2, <1>3, <1>4 DEF OutputInv, OutputStands

(* A capture is accepted. *)
LEMMA AcceptKeeps ==
  ASSUME OutputInv, CaptureDue, CaptureSend \/ CapturePend,
         waiting' = waiting \cup {captures + 1}, accepted' = accepted \cup {captures + 1},
         UNCHANGED <<published, refused>>
  PROVE  OutputInv'
  <1>1. ServiceInv'
    BY CaptureSendKeeps, CapturePendKeeps DEF OutputInv
  <1>2. /\ state = "ready" /\ captures < MaxCaptures
        /\ UNCHANGED <<state, svcGen, pauseEpoch, events, delivered>>
        /\ pc' = "poll2"
    BY DEF CaptureSend, CapturePend, CaptureDue
  <1>3. /\ IdOf(NewCapture) = {captures + 1} /\ captures + 1 \in 1..MaxCaptures
    BY <1>2, NewCaptureIs DEF OutputInv
  <1>4. IdOf(inFlight') \cup IdOf(pending') = IdOf(inFlight) \cup IdOf(pending) \cup {captures + 1}
    <2>1. CASE CaptureSend
      BY <1>3, <2>1 DEF CaptureSend, IdOf, OutputInv, ServiceInv, PendingIsCurrent
    <2>2. CASE CapturePend
      BY <1>3, <2>2 DEF CapturePend, IdOf
    <2> QED BY <2>1, <2>2
  <1>5. Outstanding = IdOf(inFlight) \cup IdOf(pending) /\ Outstanding' = IdOf(inFlight') \cup IdOf(pending')
    BY DEF Outstanding, IdOf
  <1>6. waiting = Outstanding
    BY <1>2 DEF OutputInv, FactoryMatchesService
  <1>7. FactoryMatchesService'
    BY <1>4, <1>5, <1>6 DEF FactoryMatchesService
  <1>8. OutputTypeOK'
    BY <1>1, <1>2, <1>3 DEF OutputInv, OutputStands, OutputTypeOK, ServiceInv
  <1>9. /\ Published' = Published /\ Delivered' = Delivered /\ FailedFrames' = FailedFrames
        /\ Rising(published)'
    BY <1>2 DEF Published, Delivered, FailedFrames, Rising, OutputInv, OutputStands
  <1> QED BY <1>1, <1>2, <1>7, <1>8, <1>9 DEF OutputInv, OutputStands

(* The job in flight ends with log: unless the service fails with it, only *)
(* the waiting capture is left.                                            *)
LEMMA PromotedLeaves ==
  ASSUME ServiceInv, NEW kind, Answered(kind), NEW log \in Seq(Events), Promoted(log)
  PROVE  /\ FailedIn(events') = FailedIn(log)
         /\ state' # "failed" => /\ IdOf(inFlight') \cup IdOf(pending') = IdOf(pending)
                                 /\ state # "failed"
         /\ UNCHANGED <<svcGen, pauseEpoch>>
  <1>0. state \notin {"failed", "closed"} /\ UNCHANGED <<svcGen, pauseEpoch>>
        /\ pending \in Capture \cup {None}
    BY DEF Answered, ServiceInv, ServiceTypeOK
  <1>1. CASE ~Promotes
    <2>1. inFlight' = None /\ events' = log /\ pending' = pending
      BY <1>1 DEF Promoted
    <2> QED BY <1>0, <2>1 DEF IdOf
  <1>2. CASE Promotes /\ childUp
    <2>1. /\ inFlight' = pending /\ pending' = None
          /\ events' = log \o (IF pending.late THEN <<Event("job_overrun", pending)>> ELSE <<>>)
      BY <1>2 DEF Promoted
    <2>2. FailedIn(events') = FailedIn(log)
      <3> DEFINE e == Event("job_overrun", pending)
      <3>1. /\ e \in Events /\ FailedIn(Append(log, e)) = FailedIn(log)
        BY <1>0, EventIs, FailedAppended
      <3> HIDE DEF e
      <3>2. log \o <<e>> = Append(log, e) /\ log \o <<>> = log
        BY <3>1, AppendIsConcat, ConcatEmptySeq
      <3>3. log \o (IF pending.late THEN <<e>> ELSE <<>>) = IF pending.late THEN log \o <<e>> ELSE log \o <<>>
        OBVIOUS
      <3>4. events' = log \o (IF pending.late THEN <<e>> ELSE <<>>)
        BY <2>1 DEF e
      <3> QED BY <3>1, <3>2, <3>3, <3>4
    <2> QED BY <1>0, <2>1, <2>2 DEF IdOf
  <1>3. CASE Promotes /\ ~childUp
    <2>1. state' = "failed" /\ events' = Append(log, Event("service_failed", None))
      BY <1>3 DEF Promoted, FailService
    <2>2. FailedIn(events') = FailedIn(log)
      BY <2>1, FailedAppended
    <2> QED BY <1>0, <2>1, <2>2
  <1> QED BY <1>1, <1>2, <1>3

LEMMA OverrunFailsNobody ==
  ASSUME ServiceInv
  PROVE  /\ events \in Seq(Events) /\ events \o OverrunEvents \in Seq(Events)
         /\ FailedIn(events \o OverrunEvents) = FailedIn(events)
  <1>0. events \in Seq(Events) /\ inFlight \in Capture \cup {None}
    BY DEF ServiceInv, LogOk, ServiceTypeOK
  <1>1. CASE Overrun
    <2> DEFINE e == Event("job_overrun", inFlight)
    <2>1. e \in Events /\ Append(events, e) \in Seq(Events) /\ FailedIn(Append(events, e)) = FailedIn(events)
      BY <1>0, EventIs, FailedAppended
    <2> HIDE DEF e
    <2>2. events \o OverrunEvents = Append(events, e)
      BY <1>0, <1>1, <2>1, AppendIsConcat DEF OverrunEvents, e
    <2> QED BY <1>0, <2>1, <2>2
  <1>2. CASE ~Overrun
    BY <1>0, <1>2, ConcatEmptySeq DEF OverrunEvents
  <1> QED BY <1>1, <1>2

(* The job in flight has an outcome, and the factory no longer waits for   *)
(* its sample.                                                             *)
LEMMA EndedKeeps ==
  ASSUME OutputInv, ServiceInv', NEW kind, Answered(kind), NEW log \in Seq(Events), Promoted(log),
         waiting' = waiting \ {inFlight.id}, accepted' = accepted,
         Published' \cup FailedFrames' \cup refused' = Published \cup FailedFrames \cup refused \cup {inFlight.id},
         Published' \subseteq Delivered', Rising(published'),
         published' \in Seq(1..MaxCaptures), refused' \subseteq 1..MaxCaptures,
         pc' \in {"poll1", "capture", "poll2", "drain", "aborted"}
  PROVE  OutputInv'
  <1>1. /\ inFlight \in Capture /\ state # "failed" /\ IdOf(inFlight) = {inFlight.id}
        /\ inFlight.id \in Nat
    BY AnsweredIs, CaptureIs DEF OutputInv
  <1>2. waiting = {inFlight.id} \cup IdOf(pending)
    BY <1>1, OutstandingIs DEF OutputInv, FactoryMatchesService
  <1>3. inFlight.id \notin IdOf(pending)
    <2>1. ASSUME pending # None PROVE pending.id # inFlight.id
      <3>1. pending \in Capture /\ pending.id > inFlight.id
        BY <2>1 DEF OutputInv, ServiceInv, ServiceTypeOK, PendingIsCurrent
      <3>2. pending.id \in Nat
        BY <3>1, CaptureIs
      <3> QED BY <1>1, <3>1, <3>2
    <2> QED BY <2>1 DEF IdOf
  <1>4. /\ state' # "failed" => IdOf(inFlight') \cup IdOf(pending') = IdOf(pending)
        /\ UNCHANGED <<svcGen, pauseEpoch>>
    BY PromotedLeaves DEF OutputInv
  <1>5. Outstanding' = IdOf(inFlight') \cup IdOf(pending')
    BY DEF Outstanding, IdOf
  <1>6. FactoryMatchesService'
    BY <1>2, <1>3, <1>4, <1>5 DEF FactoryMatchesService
  <1>7. OutputTypeOK'
    BY <1>1 DEF OutputInv, OutputStands, OutputTypeOK, ServiceInv
  <1>8. accepted' = waiting' \cup Published' \cup FailedFrames' \cup refused'
    BY <1>2 DEF OutputInv, OutputStands
  <1>9. Rising(published)'
    BY DEF Rising
  <1> QED BY <1>4, <1>6, <1>7, <1>8, <1>9 DEF OutputInv, OutputStands

LEMMA AnsweredBasics ==
  ASSUME OutputInv, NEW kind, Answered(kind)
  PROVE  /\ inFlight \in Capture /\ inFlight.id \in waiting /\ inFlight.id \in 1..MaxCaptures /\ inFlight # None
         /\ published \in Seq(1..MaxCaptures) /\ delivered \in Seq(1..MaxCaptures)
         /\ refused \subseteq 1..MaxCaptures /\ waiting \subseteq 1..MaxCaptures
         /\ Published \subseteq Delivered /\ Rising(published)
         /\ \A n \in Delivered : n \in Nat /\ n < inFlight.id
  <1>1. inFlight \in Capture /\ state # "failed"
    BY AnsweredIs DEF OutputInv
  <1>2. inFlight # None /\ inFlight.id \in 1..MaxCaptures /\ IdOf(inFlight) = {inFlight.id}
    BY <1>1, CaptureIs
  <1>3. inFlight.id \in waiting
    BY <1>1, <1>2, OutstandingIs DEF OutputInv, FactoryMatchesService
  <1>4. \A n \in Delivered : n \in Nat /\ n < inFlight.id
    BY <1>1, DeliveredIs DEF OutputInv, Delivered
  <1> QED BY <1>1, <1>2, <1>3, <1>4 DEF OutputInv, OutputStands, OutputTypeOK, ServiceInv, ServiceTypeOK

LEMMA FrameFailedKeeps ==
  ASSUME OutputInv, PollFailed, taken' = Len(events'), waiting' = waiting \ {inFlight.id},
         UNCHANGED <<accepted, published, refused>>,
         pc' \in {"poll1", "capture", "poll2", "drain", "aborted"}
  PROVE  OutputInv'
  <1> DEFINE log == Append(events \o OverrunEvents, Event("frame_failed", inFlight))
  <1>1. Answered("failed") /\ Promoted(log) /\ delivered' = delivered
    BY DEF PollFailed
  <1>2. ServiceInv'
    BY PollFailedKeeps DEF OutputInv
  <1>3. /\ inFlight \in Capture /\ inFlight.id \in waiting /\ inFlight # None
        /\ published \in Seq(1..MaxCaptures) /\ refused \subseteq 1..MaxCaptures
        /\ Published \subseteq Delivered /\ Rising(published)
    BY <1>1, AnsweredBasics
  <1>4. /\ events \o OverrunEvents \in Seq(Events) /\ FailedIn(events \o OverrunEvents) = FailedIn(events)
    BY OverrunFailsNobody DEF OutputInv
  <1>5. log \in Seq(Events) /\ FailedIn(log) = FailedIn(events) \cup {inFlight.id}
    BY <1>3, <1>4, FailedAppended
  <1> HIDE DEF log
  <1>6. FailedIn(events') = FailedIn(log)
    BY <1>1, <1>5, PromotedLeaves DEF OutputInv
  <1>7. FailedFrames' = FailedFrames \cup {inFlight.id}
    BY <1>5, <1>6, FailedFramesIs
  <1>8. Published' = Published /\ Delivered' = Delivered /\ published' = published /\ refused' = refused
    BY <1>1 DEF Published, Delivered
  <1>9. Published' \cup FailedFrames' \cup refused' = Published \cup FailedFrames \cup refused \cup {inFlight.id}
    BY <1>7, <1>8
  <1> QED BY <1>1, <1>2, <1>3, <1>5, <1>8, <1>9, EndedKeeps

LEMMA RangeAppended ==
  ASSUME NEW s \in Seq(1..MaxCaptures), NEW x \in 1..MaxCaptures, NEW t, t = Append(s, x)
  PROVE  /\ t \in Seq(1..MaxCaptures)
         /\ {t[i] : i \in 1..Len(t)} = {s[i] : i \in 1..Len(s)} \cup {x}
         /\ (Rising(s) /\ (\A i \in 1..Len(s) : s[i] < x)) => Rising(t)
  <1>1. /\ t \in Seq(1..MaxCaptures) /\ Len(t) = Len(s) + 1 /\ Len(s) \in Nat
        /\ \A i \in 1..Len(s) : t[i] = s[i]
        /\ t[Len(s) + 1] = x
    BY Appended
  <1>2. 1..Len(t) = 1..Len(s) \cup {Len(s) + 1}
    BY <1>1
  <1>3. {t[i] : i \in 1..Len(t)} = {s[i] : i \in 1..Len(s)} \cup {x}
    BY <1>1, <1>2
  <1>4. ASSUME Rising(s), \A i \in 1..Len(s) : s[i] < x, NEW i \in 1..Len(t), NEW j \in 1..Len(t), i < j
        PROVE  t[i] < t[j]
    <2>1. i \in 1..Len(s)
      BY <1>1, <1>4
    <2>2. CASE j \in 1..Len(s)
      BY <1>1, <1>4, <2>1, <2>2 DEF Rising
    <2>3. CASE j = Len(s) + 1
      BY <1>1, <1>4, <2>1, <2>3
    <2> QED BY <1>2, <2>2, <2>3
  <1> QED BY <1>1, <1>3, <1>4 DEF Rising

LEMMA FrameKeeps ==
  ASSUME OutputInv, PublishFrame \/ PublishRaises, pc' \in {"poll1", "capture", "poll2", "drain", "aborted"}
  PROVE  OutputInv'
  <1> DEFINE log == events \o OverrunEvents
  <1>1. /\ Answered("frame") /\ Promoted(log) /\ delivered' = Append(delivered, inFlight.id)
        /\ waiting' = waiting \ {inFlight.id} /\ accepted' = accepted /\ taken' = Len(events')
        /\ PollFrame
    BY DEF PollFrame, PublishFrame, PublishRaises, CompletedFrame
  <1>2. ServiceInv'
    BY <1>1, PollFrameKeeps DEF OutputInv
  <1>3. /\ inFlight \in Capture /\ inFlight.id \in waiting /\ inFlight.id \in 1..MaxCaptures
        /\ published \in Seq(1..MaxCaptures) /\ delivered \in Seq(1..MaxCaptures)
        /\ refused \subseteq 1..MaxCaptures /\ waiting \subseteq 1..MaxCaptures
        /\ Published \subseteq Delivered /\ Rising(published)
        /\ \A n \in Delivered : n \in Nat /\ n < inFlight.id
    BY <1>1, AnsweredBasics
  <1>4. /\ log \in Seq(Events) /\ FailedIn(log) = FailedIn(events)
    BY OverrunFailsNobody DEF OutputInv
  <1> HIDE DEF log
  <1>5. FailedIn(events') = FailedIn(log)
    BY <1>1, <1>4, PromotedLeaves DEF OutputInv
  <1>6. FailedFrames' = FailedFrames
    BY <1>4, <1>5, FailedFramesIs
  <1>7. Delivered' = Delivered \cup {inFlight.id}
    BY <1>1, <1>3, RangeAppended DEF Delivered
  <1>8. CASE PublishFrame
    <2>1. published' = Append(published, inFlight.id) /\ refused' = refused
      BY <1>8 DEF PublishFrame
    <2>2. \A i \in 1..Len(published) : published[i] < inFlight.id
      BY <1>3 DEF Published
    <2>3. /\ published' \in Seq(1..MaxCaptures) /\ Rising(published')
          /\ Published' = Published \cup {inFlight.id}
      <3> DEFINE x == inFlight.id
                 t == published'
      <3>1. /\ published \in Seq(1..MaxCaptures) /\ x \in 1..MaxCaptures /\ t = Append(published, x)
            /\ Rising(published) /\ \A i \in 1..Len(published) : published[i] < x
        BY <1>3, <2>1, <2>2
      <3> HIDE DEF x, t
      <3>2. /\ t \in Seq(1..MaxCaptures)
            /\ {t[i] : i \in 1..Len(t)} = {published[i] : i \in 1..Len(published)} \cup {x}
        BY <3>1, RangeAppended
      <3>5. Rising(t)
        <4> DEFINE s == published
        <4>1. /\ s \in Seq(1..MaxCaptures) /\ x \in 1..MaxCaptures /\ t = Append(s, x)
              /\ Rising(s) /\ \A i \in 1..Len(s) : s[i] < x
          BY <3>1
        <4> HIDE DEF s
        <4> QED BY <4>1, RangeAppended
      <3>3. Published' = {t[i] : i \in 1..Len(t)} /\ Published = {published[i] : i \in 1..Len(published)}
        BY DEF Published, t
      <3>4. t = published' /\ x = inFlight.id
        BY DEF t, x
      <3> QED BY <3>2, <3>3, <3>4, <3>5
    <2>4. Published' \cup FailedFrames' \cup refused' = Published \cup FailedFrames \cup refused \cup {inFlight.id}
      BY <1>6, <2>1, <2>3
    <2>5. Published' \subseteq Delivered' /\ refused' \subseteq 1..MaxCaptures
      BY <1>3, <1>7, <2>1, <2>3
    <2> QED BY <1>1, <1>2, <1>4, <2>3, <2>4, <2>5, EndedKeeps
  <1>9. CASE PublishRaises
    <2>1. published' = published /\ refused' = refused \cup {inFlight.id}
      BY <1>3, <1>9 DEF PublishRaises
    <2>2. Published' = Published
      BY <2>1 DEF Published
    <2>3. Published' \cup FailedFrames' \cup refused' = Published \cup FailedFrames \cup refused \cup {inFlight.id}
      BY <1>6, <2>1, <2>2
    <2>4. /\ Published' \subseteq Delivered' /\ refused' \subseteq 1..MaxCaptures
          /\ published' \in Seq(1..MaxCaptures) /\ Rising(published')
      BY <1>3, <1>7, <2>1, <2>2
    <2> QED BY <1>1, <1>2, <1>4, <2>3, <2>4, EndedKeeps
  <1> QED BY <1>8, <1>9

(* poll finds nothing that ends a job. *)
LEMMA PollNothingKeeps ==
  ASSUME OutputInv, PollQuiet \/ PollIdle \/ PollExited \/ PollBroken, taken' = Len(events'),
         UNCHANGED <<waiting, accepted, published, refused>>,
         pc' \in {"poll1", "capture", "poll2", "drain", "aborted"}
  PROVE  OutputInv'
  <1>0. ServiceInv /\ events \in Seq(Events) /\ inFlight \in Capture \cup {None}
    BY DEF OutputInv, ServiceInv, LogOk, ServiceTypeOK
  <1>1. ServiceInv'
    BY <1>0, StateKeeps, PollIdleKeeps, PollFailsKeeps
  <1>2. UNCHANGED <<svcGen, pauseEpoch, delivered>>
    BY DEF PollQuiet, PollIdle, PollExited, PollBroken
  <1>3. FailedIn(events') = FailedIn(events)
    <2>1. CASE PollQuiet
      BY <2>1 DEF PollQuiet
    <2>2. CASE PollIdle
      <3>1. events' = Append(events, Event("job_overrun", inFlight))
        BY <2>2 DEF PollIdle
      <3> QED BY <1>0, <3>1, FailedAppended
    <2>3. CASE PollExited \/ PollBroken
      <3>1. events' = Append(events, Event("service_failed", inFlight))
        BY <2>3 DEF PollExited, PollBroken
      <3> QED BY <1>0, <3>1, FailedAppended
    <2> QED BY <2>1, <2>2, <2>3
  <1>4. state' # "failed" => state' = state /\ inFlight' = inFlight /\ pending' = pending
    BY DEF PollQuiet, PollIdle, PollExited, PollBroken, FailService
  <1>5. state' # "failed" => Outstanding' = waiting
    BY <1>4 DEF Outstanding, OutputInv, FactoryMatchesService
  <1> QED BY <1>1, <1>2, <1>3, <1>5, FailedFramesIs, QuietKeeps

LEMMA PollKeeps ==
  ASSUME OutputInv, CompletedNothing \/ PublishFrame \/ PublishRaises,
         pc' \in {"poll1", "capture", "poll2", "drain", "aborted"}
  PROVE  OutputInv'
  <1>1. CASE CompletedNothing
    BY <1>1, FrameFailedKeeps, PollNothingKeeps DEF CompletedNothing
  <1> QED BY <1>1, FrameKeeps

LEMMA OutputKeeps == OutputInv /\ [OutputNext]_outputAll => OutputInv'
  <1> SUFFICES ASSUME OutputInv, [OutputNext]_outputAll PROVE OutputInv'
    OBVIOUS
  <1> DEFINE Pcs == {"poll1", "capture", "poll2", "drain", "release", "released", "aborted"}
  <1>0. /\ ServiceInv /\ pc \in Pcs /\ (pc \in {"release", "released"} => waiting = {})
        /\ (state # "failed" => Outstanding = waiting) /\ events \in Seq(Events)
    BY DEF OutputInv, OutputStands, OutputTypeOK, FactoryMatchesService, ServiceInv, LogOk
  <1>1. ASSUME UNCHANGED <<waiting, accepted, published, refused, svcAll>>,
               pc' \in Pcs, pc' \in {"release", "released"} => waiting = {}
        PROVE  OutputInv'
    <2>1. ServiceInv'
      BY <1>0, <1>1, ServiceKeeps
    <2>2. UNCHANGED <<svcGen, pauseEpoch, delivered, events, state, inFlight, pending>>
      BY <1>1 DEF svcAll, serviceVars
    <2>3. Outstanding' = Outstanding /\ FailedFrames' = FailedFrames
      BY <2>2 DEF Outstanding, FailedFrames
    <2> QED BY <1>0, <1>1, <2>1, <2>2, <2>3, QuietKeeps
  <1>2. CASE UNCHANGED outputAll
    BY <1>0, <1>1, <1>2 DEF outputAll, outputVars
  <1>3. CASE NotDue \/ RunEnds \/ Drained \/ DrainTimeout
    BY <1>1, <1>3 DEF NotDue, RunEnds, Drained, DrainTimeout
  <1>4. CASE StepPoll
    BY <1>4, PollKeeps DEF StepPoll, NextPc
  <1>5. CASE DrainPoll
    BY <1>5, PollKeeps DEF DrainPoll
  <1>6. CASE CaptureDue
    <2>1. CASE CaptureReject /\ UNCHANGED <<waiting, accepted, published, refused>>
      <3>1. ServiceInv' /\ pc' = "poll2"
        BY <1>0, <1>6, <2>1, CaptureRejectKeeps DEF CaptureDue
      <3>2. /\ events' = Append(events, Event("capture_rejected", NewCapture)) /\ NewCapture \in Capture
            /\ UNCHANGED <<state, inFlight, pending, svcGen, pauseEpoch, delivered>>
        BY <1>0, <2>1, NewCaptureIs DEF CaptureReject
      <3>3. FailedFrames' = FailedFrames
        BY <1>0, <3>2, FailedAppended, FailedFramesIs
      <3>4. Outstanding' = Outstanding
        BY <3>2 DEF Outstanding
      <3> QED BY <1>0, <2>1, <3>1, <3>2, <3>3, <3>4, QuietKeeps
    <2>2. CASE ~(CaptureReject /\ UNCHANGED <<waiting, accepted, published, refused>>)
      BY <1>6, <2>2, AcceptKeeps DEF CaptureDue
    <2> QED BY <2>1, <2>2
  <1>7. CASE CaptureFails
    <2>1. ServiceInv' /\ pc' = "drain" /\ UNCHANGED <<waiting, accepted, published, refused>>
      BY <1>0, <1>7, RefuseKeeps, CaptureBrokenKeeps DEF CaptureFails
    <2>2. UNCHANGED <<svcGen, pauseEpoch, delivered>>
      BY <1>7 DEF CaptureFails, Refuse, CaptureBroken
    <2>3. FailedFrames' = FailedFrames /\ (state' # "failed" => Outstanding' = waiting)
      <3>1. CASE Refuse
        BY <1>0, <3>1 DEF Refuse, FailedFrames, Outstanding
      <3>2. CASE CaptureBroken
        <4>1. events' = Append(events, Event("service_failed", None)) /\ state' = "failed"
          BY <3>2 DEF CaptureBroken, FailService
        <4> QED BY <1>0, <4>1, FailedAppended, FailedFramesIs
      <3> QED BY <1>7, <3>1, <3>2 DEF CaptureFails
    <2> QED BY <2>1, <2>2, <2>3, QuietKeeps
  <1>8. CASE Release
    <2>1. /\ ServiceInv' /\ pc' = "released" /\ pc = "release" /\ UNCHANGED <<waiting, accepted, published, refused>>
      BY <1>0, <1>8, ClosedKeeps DEF Release
    <2>2. /\ UNCHANGED <<svcGen, pauseEpoch, delivered, events, inFlight, pending>>
          /\ inFlight = None /\ pending = None
      BY <1>8 DEF Release, CloseIdle, Idle
    <2>3. FailedFrames' = FailedFrames /\ Outstanding' = {} /\ waiting = {}
      BY <1>0, <2>1, <2>2 DEF FailedFrames, Outstanding
    <2> QED BY <2>1, <2>2, <2>3, QuietKeeps
  <1>9. CASE ReleaseFails
    <2>1. /\ pc' = "aborted" /\ UNCHANGED <<waiting, accepted, published, refused, svcGen, pauseEpoch, delivered, events,
                                            inFlight, pending>>
          /\ (state' # "failed" => state # "failed")
      BY <1>9 DEF ReleaseFails
    <2>2. ServiceInv'
      <3>1. CASE state = "ready"
        BY <1>0, <1>9, <3>1, StateKeeps DEF ReleaseFails, BeginDraining
      <3>2. CASE state # "ready"
        <4>1. UNCHANGED svcAll
          BY <1>9, <3>2 DEF ReleaseFails, svcAll, serviceVars
        <4> QED BY <1>0, <4>1, ServiceKeeps
      <3> QED BY <3>1, <3>2
    <2>3. FailedFrames' = FailedFrames /\ Outstanding' = Outstanding
      BY <2>1 DEF FailedFrames, Outstanding
    <2> QED BY <1>0, <2>1, <2>2, <2>3, QuietKeeps
  <1>10. CASE Environment
    <2>1. /\ ServiceInv' /\ UNCHANGED <<pc, waiting, accepted, published, refused>>
      BY <1>0, <1>10, AgeKeeps, ScanChildKeeps DEF Environment, outputVars
    <2>2. UNCHANGED <<svcGen, pauseEpoch, delivered, events, state>>
      BY <1>10 DEF Environment, Age, ScanChild, serviceVars
    <2>3. FailedFrames' = FailedFrames
      BY <2>2 DEF FailedFrames
    <2>4. IdOf(inFlight') = IdOf(inFlight) /\ IdOf(pending') = IdOf(pending)
      <3>1. CASE Age
        <4>1. /\ inFlight \in Capture \cup {None} /\ pending \in Capture \cup {None}
          BY <1>0 DEF ServiceInv, ServiceTypeOK
        <4> QED BY <3>1, <4>1, LateIs, NoneIs DEF Age, BudgetEnds, IdOf
      <3>2. CASE ScanChild
        BY <3>2 DEF ScanChild, serviceVars
      <3> QED BY <1>10, <3>1, <3>2 DEF Environment
    <2>5. Outstanding' = Outstanding
      <3>1. Outstanding' = IdOf(inFlight') \cup IdOf(pending')
        BY DEF Outstanding, IdOf
      <3> QED BY <1>0, <2>4, <3>1, OutstandingIs
    <2> QED BY <1>0, <2>1, <2>2, <2>3, <2>5, QuietKeeps
  <1> QED BY <1>2, <1>3, <1>4, <1>5, <1>6, <1>7, <1>8, <1>9, <1>10 DEF OutputNext, Main

SideOutput == part = "output" => OutputInv

(* For any number of captures, whatever the child answers, whoever exits   *)
(* and whatever the transport refuses: the factory waits for exactly the   *)
(* samples the service still has, and a shutdown that gets through has     *)
(* published, in order, all that did not fail and was not refused.         *)
THEOREM NothingIsForgotten == SideSpec => []NoSampleForgotten
  <1>1. SideInit => SideOutput
    BY OutputStarts DEF SideInit, SideOutput
  <1>2. SideOutput /\ [SideNext]_sideVars => SideOutput'
    <2> SUFFICES ASSUME SideOutput, [SideNext]_sideVars, part' = "output" PROVE OutputInv'
      BY DEF SideOutput
    <2>1. part = "output" /\ [OutputNext]_outputAll
      BY DEF SideNext, sideVars
    <2> QED BY <2>1, OutputKeeps DEF SideOutput
  <1>3. SideOutput => NoSampleForgotten
    <2> SUFFICES ASSUME part = "output", OutputInv PROVE OutputTypeOK /\ FactoryMatchesService /\ CloseLosesNothing
      BY DEF SideOutput, NoSampleForgotten
    <2>1. OutputTypeOK /\ FactoryMatchesService /\ Rising(published)
      BY DEF OutputInv, OutputStands
    <2>2. pc = "released" => accepted = Published \cup FailedFrames \cup refused
      BY DEF OutputInv, OutputStands
    <2> QED BY <2>1, <2>2 DEF CloseLosesNothing, Rising, Published
  <1> QED BY <1>1, <1>2, <1>3, PTL DEF SideSpec

-----------------------------------------------------------------------------
ScanOf(j) == [kind |-> "scan", job |-> j]
Half(j) == [kind |-> "result", job |-> j]
Failure(j) == [kind |-> "failure", job |-> j]

(* Nothing is on the pipes of shard s. *)
NothingOn(s) == toShard[s] = <<>> /\ fromShard[s] = <<>>

(* Shard s has to answer the current job, has answered it, or is dead. *)
Owes(s) ==
    \/ shardUp[s] /\ toShard[s] = <<ScanOf(job)>> /\ fromShard[s] = <<>>
    \/ toShard[s] = <<>> /\ fromShard[s] = <<Half(job)>>
    \/ ~shardUp[s] /\ toShard[s] = <<>> /\ fromShard[s] = <<Failure(job)>>
    \/ ~shardUp[s] /\ toShard[s] = <<>> /\ fromShard[s] = <<>>

PipeInv ==
    /\ cpc = "recv" => NothingOn(1) /\ NothingOn(2)
    /\ cpc = "send" => /\ parts = <<>>
                       /\ IF next = 1 THEN NothingOn(1) ELSE Owes(1)
                       /\ NothingOn(2)
    /\ cpc = "collect" => parts = IF next = 1 THEN <<>> ELSE <<job>>
    /\ cpc \in {"collect", "drain"} => /\ IF next = 1 THEN Owes(1) ELSE NothingOn(1)
                                       /\ Owes(2)

(* In the middle of a frame there is a job, and a shard that is down has   *)
(* failed.                                                                 *)
LifeInv ==
    /\ cpc \in {"send", "collect", "drain"} => job # 0
    /\ cpc \in {"recv", "send", "collect", "drain"} => \A s \in Shards : shardUp[s] \/ broken
    /\ cpc \in {"ack", "leaving", "gone"} => stopSent \/ broken

(* The parts of the type invariant. *)
FlagsOK == stopSent \in BOOLEAN /\ shardUp \in [Shards -> BOOLEAN] /\ broken \in BOOLEAN
PlaceOK ==
    /\ jobs \in 0..MaxJobs
    /\ request \in Seq(1..MaxJobs) /\ Len(request) <= 1
    /\ cpc \in {"recv", "send", "collect", "drain", "ack", "leaving", "gone"}
    /\ job \in 0..MaxJobs
    /\ next \in Shards
    /\ parts \in Seq(1..MaxJobs) /\ Len(parts) <= 2
AnswersOK == answers \in Seq(Answer)
PipesOK == toShard \in [Shards -> Seq(Message)] /\ fromShard \in [Shards -> Seq(Message)]

IInv == TypeOK /\ PipeInv /\ LifeInv /\ NoMixedFrame

-----------------------------------------------------------------------------
(* Sequences of one element. *)
LEMMA Single ==
  ASSUME NEW x
  PROVE  Append(<<>>, x) = <<x>> /\ Head(<<x>>) = x /\ Tail(<<x>>) = <<>> /\ <<x>> # <<>>
  OBVIOUS

(* Appending the second half. *)
LEMMA Pair ==
  ASSUME NEW x, NEW y
  PROVE  Append(<<x>>, y) = <<x, y>>
<1>1. <<x>> \in Seq({x, y}) /\ <<x, y>> \in Seq({x, y})
  OBVIOUS
<1>2. Append(<<x>>, y) \in Seq({x, y}) /\ Len(Append(<<x>>, y)) = 2
  BY <1>1
<1>3. Append(<<x>>, y)[1] = x /\ Append(<<x>>, y)[2] = y
  BY <1>1
<1>4. \A i \in 1..2 : Append(<<x>>, y)[i] = <<x, y>>[i]
  BY <1>3
<1> QED BY <1>1, <1>2, <1>4, SeqEqual

(* The head of a typed sequence. *)
LEMMA HeadTyped ==
  ASSUME NEW S, NEW q \in Seq(S), q # <<>>
  PROVE  Head(q) \in S
  OBVIOUS

(* Writing to a pipe, or not. *)
LEMMA PipeWrite ==
  ASSUME NEW f \in [Shards -> Seq(Message)], NEW s \in Shards, NEW m \in Message, NEW g,
         g = f \/ g = [f EXCEPT ![s] = Append(@, m)]
  PROVE  g \in [Shards -> Seq(Message)]
<1> f[s] \in Seq(Message)
  OBVIOUS
<1> Append(f[s], m) \in Seq(Message)
  OBVIOUS
<1> QED OBVIOUS

(* Reading from a pipe, or not. *)
LEMMA PipeRead ==
  ASSUME NEW f \in [Shards -> Seq(Message)], NEW s \in Shards, NEW g,
         g = f \/ (f[s] # <<>> /\ g = [f EXCEPT ![s] = Tail(@)])
  PROVE  g \in [Shards -> Seq(Message)]
<1> f[s] \in Seq(Message)
  OBVIOUS
<1> f[s] # <<>> => Tail(f[s]) \in Seq(Message)
  OBVIOUS
<1> QED OBVIOUS

(* Closing a pipe. *)
LEMMA PipeEnd ==
  ASSUME NEW f \in [Shards -> Seq(Message)], NEW s \in Shards
  PROVE  [f EXCEPT ![s] = <<>>] \in [Shards -> Seq(Message)]
<1> <<>> \in Seq(Message)
  OBVIOUS
<1> QED OBVIOUS

(* An answer to the parent keeps the answers typed and free of mixed       *)
(* frames, if it is not mixed itself.                                      *)
LEMMA ReplyKeeps ==
  ASSUME TypeOK, NoMixedFrame,
         NEW k \in {"frame", "failed"}, NEW h \in Seq(1..MaxJobs), Reply(k, h),
         k = "frame" => h = <<job, job>>
  PROVE  AnswersOK' /\ NoMixedFrame'
<1> DEFINE a == [job |-> job, kind |-> k, parts |-> h]
<1>1. a \in Answer
  BY DEF TypeOK, Answer
<1>2. a.kind = "frame" => a.parts = <<a.job, a.job>>
  OBVIOUS
<1>3. answers' = Append(answers, a)
  BY DEF Reply
<1> HIDE DEF a
<1>4. answers \in Seq(Answer)
  BY DEF TypeOK
<1>5. AnswersOK'
  BY <1>1, <1>3, <1>4 DEF AnswersOK
<1>6. ASSUME NEW i \in 1..Len(answers')
      PROVE  answers'[i].kind = "frame" => answers'[i].parts = <<answers'[i].job, answers'[i].job>>
  <2>1. CASE i = Len(answers) + 1
    BY <1>2, <1>3, <1>4, <2>1
  <2>2. CASE i \in 1..Len(answers)
    <3> answers'[i] = answers[i]
      BY <1>3, <1>4, <2>2
    <3> QED BY <2>2 DEF NoMixedFrame
  <2> QED BY <1>3, <1>4, <2>1, <2>2
<1> QED BY <1>5, <1>6 DEF NoMixedFrame

(* Reading the half that was owed leaves the shard's pipes empty. *)
LEMMA HalfTaken ==
  ASSUME TypeOK, NEW s \in Shards, Owes(s), Arrived(s), IsHalf(Head(fromShard[s])), TakeFrom(s),
         UNCHANGED toShard
  PROVE  /\ NothingOn(s)'
         /\ \A r \in Shards \ {s} : fromShard'[r] = fromShard[r]
<1>1. fromShard[s] # <<>>
  BY DEF Arrived
<1>2. fromShard[s] # <<Failure(job)>>
  BY Single DEF IsHalf, Failure
<1>3. toShard[s] = <<>> /\ fromShard[s] = <<Half(job)>>
  BY <1>1, <1>2 DEF Owes
<1>4. fromShard'[s] = <<>> /\ \A r \in Shards \ {s} : fromShard'[r] = fromShard[r]
  BY <1>3, Single DEF TypeOK, TakeFrom
<1> QED BY <1>3, <1>4 DEF NothingOn

(* A shard that scans pays what it owes; the other shard is not touched. *)
LEMMA ScanPays ==
  ASSUME TypeOK, NEW s \in Shards, ShardScan(s)
  PROVE  /\ ~NothingOn(s)
         /\ Owes(s) => Owes(s)'
         /\ \A r \in Shards \ {s} : (NothingOn(r) => NothingOn(r)') /\ (Owes(r) => Owes(r)')
<1>1. job' = job /\ toShard[s] # <<>> /\ shardUp[s]
  BY DEF ShardScan
<1>2. Owes(s) => Owes(s)'
  <2> SUFFICES ASSUME Owes(s) PROVE Owes(s)'
    OBVIOUS
  <2>1. toShard[s] = <<ScanOf(job)>> /\ fromShard[s] = <<>>
    BY <1>1 DEF Owes
  <2>2. Head(toShard[s]).job = job
    BY <2>1, Single DEF ScanOf
  <2>3. toShard'[s] = <<>>
    BY <2>1, Single DEF ShardScan, TypeOK
  <2>4. \/ fromShard'[s] = <<Half(job)>>
        \/ fromShard'[s] = <<Failure(job)>> /\ shardUp'[s] = FALSE
    BY <2>1, <2>2, Single DEF ShardScan, Say, Half, Failure, TypeOK
  <2> QED BY <1>1, <2>3, <2>4 DEF Owes, Half, Failure
<1>3. ASSUME NEW r \in Shards \ {s}
      PROVE  toShard'[r] = toShard[r] /\ fromShard'[r] = fromShard[r] /\ shardUp'[r] = shardUp[r]
  BY DEF ShardScan, Say, TypeOK
<1>4. \A r \in Shards \ {s} : (NothingOn(r) => NothingOn(r)') /\ (Owes(r) => Owes(r)')
  BY <1>1, <1>3 DEF NothingOn, Owes, ScanOf, Half, Failure
<1> QED BY <1>1, <1>2, <1>4 DEF NothingOn

(* The initial state satisfies the invariant. *)
LEMMA InitInv == Init => IInv
<1> SUFFICES ASSUME Init PROVE IInv
  OBVIOUS
<1>1. TypeOK
  <2>1. FlagsOK BY Zenon DEF Init, FlagsOK
  <2>2. PlaceOK BY CoordinatorAssumption DEF Init, PlaceOK, Shards
  <2>3. AnswersOK BY DEF Init, AnswersOK
  <2>4. PipesOK BY DEF Init, PipesOK
  <2> QED BY <2>1, <2>2, <2>3, <2>4 DEF TypeOK, FlagsOK, PlaceOK, AnswersOK, PipesOK
<1>2. PipeInv /\ LifeInv /\ NoMixedFrame
  BY DEF Init, PipeInv, LifeInv, NoMixedFrame, NothingOn, Shards
<1> QED BY <1>1, <1>2 DEF IInv

(* ParentSend preserves the invariant. *)
LEMMA ParentSendInv == ASSUME IInv, ParentSend PROVE IInv'
<1> USE DEF IInv, ParentSend, parentVars, shardVars
<1>1. TypeOK'
  <2>1. FlagsOK'
    BY Zenon DEF TypeOK, FlagsOK
  <2>2. PlaceOK'
    BY CoordinatorAssumption DEF TypeOK, PlaceOK, PipeInv, LifeInv, Shards
  <2>3. AnswersOK'
    BY DEF TypeOK, AnswersOK
  <2>4. PipesOK'
    BY DEF TypeOK, PipesOK
  <2> QED BY <2>1, <2>2, <2>3, <2>4 DEF TypeOK, FlagsOK, PlaceOK, AnswersOK, PipesOK
<1>2. NoMixedFrame'
  BY DEF TypeOK, NoMixedFrame
<1>3. PipeInv'
  BY DEF TypeOK, PipeInv, NothingOn, Owes, ScanOf, Half, Failure, Shards
<1>4. LifeInv'
  BY DEF TypeOK, PipeInv, LifeInv, NothingOn, Owes, ScanOf, Half, Failure, Shards
<1> QED BY <1>1, <1>2, <1>3, <1>4

(* ParentTake preserves the invariant. *)
LEMMA ParentTakeInv == ASSUME IInv, ParentTake PROVE IInv'
<1> USE DEF IInv, ParentTake, parentVars, shardVars
<1>1. TypeOK'
  <2>1. FlagsOK'
    BY Zenon DEF TypeOK, FlagsOK
  <2>2. PlaceOK'
    BY CoordinatorAssumption DEF TypeOK, PlaceOK, PipeInv, LifeInv, Shards
  <2>3. AnswersOK'
    BY DEF TypeOK, AnswersOK
  <2>4. PipesOK'
    BY DEF TypeOK, PipesOK
  <2> QED BY <2>1, <2>2, <2>3, <2>4 DEF TypeOK, FlagsOK, PlaceOK, AnswersOK, PipesOK
<1>2. NoMixedFrame'
  BY DEF TypeOK, NoMixedFrame
<1>3. PipeInv'
  BY DEF TypeOK, PipeInv, NothingOn, Owes, ScanOf, Half, Failure, Shards
<1>4. LifeInv'
  BY DEF TypeOK, PipeInv, LifeInv, NothingOn, Owes, ScanOf, Half, Failure, Shards
<1> QED BY <1>1, <1>2, <1>3, <1>4

(* ParentStop preserves the invariant. *)
LEMMA ParentStopInv == ASSUME IInv, ParentStop PROVE IInv'
<1> USE DEF IInv, ParentStop, parentVars, shardVars
<1>1. TypeOK'
  <2>1. FlagsOK'
    BY Zenon DEF TypeOK, FlagsOK
  <2>2. PlaceOK'
    BY CoordinatorAssumption DEF TypeOK, PlaceOK, PipeInv, LifeInv, Shards
  <2>3. AnswersOK'
    BY DEF TypeOK, AnswersOK
  <2>4. PipesOK'
    BY DEF TypeOK, PipesOK
  <2> QED BY <2>1, <2>2, <2>3, <2>4 DEF TypeOK, FlagsOK, PlaceOK, AnswersOK, PipesOK
<1>2. NoMixedFrame'
  BY DEF TypeOK, NoMixedFrame
<1>3. PipeInv'
  BY DEF TypeOK, PipeInv, NothingOn, Owes, ScanOf, Half, Failure, Shards
<1>4. LifeInv'
  BY DEF TypeOK, PipeInv, LifeInv, NothingOn, Owes, ScanOf, Half, Failure, Shards
<1> QED BY <1>1, <1>2, <1>3, <1>4

(* Recv preserves the invariant. *)
LEMMA RecvInv == ASSUME IInv, Recv PROVE IInv'
<1> USE DEF IInv, Recv, parentVars, shardVars
<1>1. TypeOK'
  <2>1. FlagsOK'
    BY Zenon DEF TypeOK, FlagsOK
  <2>2. PlaceOK'
    BY CoordinatorAssumption DEF TypeOK, PlaceOK, PipeInv, LifeInv, Shards
  <2>3. AnswersOK'
    BY DEF TypeOK, AnswersOK
  <2>4. PipesOK'
    BY DEF TypeOK, PipesOK
  <2> QED BY <2>1, <2>2, <2>3, <2>4 DEF TypeOK, FlagsOK, PlaceOK, AnswersOK, PipesOK
<1>2. NoMixedFrame'
  BY DEF TypeOK, NoMixedFrame
<1>3. PipeInv'
  BY DEF TypeOK, PipeInv, NothingOn, Owes, ScanOf, Half, Failure, Shards
<1>4. LifeInv'
  <2> request \in Seq(1..MaxJobs) /\ request # <<>>
    BY DEF TypeOK
  <2> Head(request) \in 1..MaxJobs
    BY HeadTyped
  <2> QED BY DEF TypeOK, LifeInv
<1> QED BY <1>1, <1>2, <1>3, <1>4

(* SendShard preserves the invariant. *)
LEMMA SendShardInv == ASSUME IInv, SendShard PROVE IInv'
<1> USE DEF IInv, SendShard, FailFrame, Reply, parentVars, shardVars
<1>0. AnswersOK' /\ NoMixedFrame'
  <2>1. CASE shardUp[next]
    BY <2>1 DEF TypeOK, AnswersOK, NoMixedFrame
  <2>2. CASE ~shardUp[next]
    BY <2>2, ReplyKeeps, <<>> \in Seq(1..MaxJobs)
  <2> QED BY <2>1, <2>2
<1>1. TypeOK'
  <2>1. FlagsOK'
    BY Zenon DEF TypeOK, FlagsOK
  <2>2. PlaceOK'
    BY CoordinatorAssumption DEF TypeOK, PlaceOK, PipeInv, LifeInv, Shards
  <2>3. AnswersOK'
    BY <1>0
  <2>4. PipesOK'
    <3> /\ next \in Shards
        /\ toShard \in [Shards -> Seq(Message)] /\ fromShard \in [Shards -> Seq(Message)]
      BY DEF TypeOK
    <3> [kind |-> "scan", job |-> job] \in Message
      BY DEF TypeOK, Message
    <3>1. \/ UNCHANGED toShard
          \/ toShard' = [toShard EXCEPT ![next] = Append(@, [kind |-> "scan", job |-> job])]
      OBVIOUS
    <3>2. toShard' \in [Shards -> Seq(Message)]
      BY <3>1, PipeWrite
    <3> QED BY <3>2 DEF PipesOK
  <2> QED BY <2>1, <2>2, <2>3, <2>4 DEF TypeOK, FlagsOK, PlaceOK, AnswersOK, PipesOK
<1>2. NoMixedFrame'
  BY <1>0
<1>3. PipeInv'
  BY DEF TypeOK, PipeInv, NothingOn, Owes, ScanOf, Half, Failure, Shards
<1>4. LifeInv'
  BY DEF TypeOK, PipeInv, LifeInv, NothingOn, Owes, ScanOf, Half, Failure, Shards
<1> QED BY <1>1, <1>2, <1>3, <1>4

(* CollectHalf preserves the invariant. *)
LEMMA CollectHalfInv == ASSUME IInv, CollectHalf PROVE IInv'
<1> USE DEF IInv, CollectHalf, FailFrame, Reply, Arrived, TakeFrom, IsHalf, parentVars, shardVars
<1>a. (next = 1 \/ next = 2) /\ job \in 1..MaxJobs /\ Head(fromShard[next]).job = job
  BY DEF TypeOK, LifeInv, Shards
<1>b. (next = 1 => parts' = <<job>>) /\ (next = 2 => parts' = <<job, job>>)
  <2>1. (next = 1 => parts = <<>>) /\ (next = 2 => parts = <<job>>)
    BY DEF PipeInv
  <2>2. parts' = Append(parts, job)
    BY <1>a
  <2>3. Append(<<>>, job) = <<job>> /\ Append(<<job>>, job) = <<job, job>>
    BY Single, Pair
  <2> QED BY <2>1, <2>2, <2>3
<1>c. parts' \in Seq(1..MaxJobs) /\ Len(parts') <= 2
  <2>1. <<job>> \in Seq(1..MaxJobs) /\ <<job, job>> \in Seq(1..MaxJobs)
    BY <1>a
  <2>2. Len(<<job>>) = 1 /\ Len(<<job, job>>) = 2
    OBVIOUS
  <2>3. parts' = <<job>> \/ parts' = <<job, job>>
    BY <1>a, <1>b
  <2>4. parts' \in Seq(1..MaxJobs)
    BY <2>1, <2>3, Zenon
  <2>5. Len(parts') = 1 \/ Len(parts') = 2
    BY <2>2, <2>3, Zenon
  <2> QED BY <2>4, <2>5
<1>0. AnswersOK' /\ NoMixedFrame'
  <2>1. CASE UNCHANGED answers
    BY <2>1 DEF TypeOK, AnswersOK, NoMixedFrame
  <2>2. CASE next = 2 /\ Reply("frame", parts')
    <3>1. parts' = <<job, job>>
      BY <2>2, <1>b
    <3>2. <<job, job>> \in Seq(1..MaxJobs)
      BY <1>a
    <3>3. Reply("frame", <<job, job>>)
      BY <2>2, <3>1
    <3> QED BY <3>2, <3>3, ReplyKeeps
  <2>3. CASE Reply("failed", <<>>)
    BY <2>3, ReplyKeeps, <<>> \in Seq(1..MaxJobs)
  <2> QED BY <2>1, <2>2, <2>3
<1>1. TypeOK'
  <2>1. FlagsOK'
    BY Zenon DEF TypeOK, FlagsOK
  <2>2. PlaceOK'
    BY <1>c DEF TypeOK, PlaceOK, Shards
  <2>3. AnswersOK'
    BY <1>0
  <2>4. PipesOK'
    <3> /\ next \in Shards
        /\ toShard \in [Shards -> Seq(Message)] /\ fromShard \in [Shards -> Seq(Message)]
      BY DEF TypeOK
    <3>1. \/ UNCHANGED fromShard
          \/ fromShard[next] # <<>> /\ fromShard' = [fromShard EXCEPT ![next] = Tail(@)]
      OBVIOUS
    <3>2. fromShard' \in [Shards -> Seq(Message)]
      BY <3>1, PipeRead
    <3> QED BY <3>2 DEF PipesOK
  <2> QED BY <2>1, <2>2, <2>3, <2>4 DEF TypeOK, FlagsOK, PlaceOK, AnswersOK, PipesOK
<1>2. NoMixedFrame'
  BY <1>0
<1>3. PipeInv'
  <2>0. Owes(next) /\ next \in Shards
    BY <1>a DEF PipeInv, Shards
  <2>2. CASE next = 1
    <3>1. NothingOn(1)' /\ fromShard'[2] = fromShard[2]
      <4>1. /\ 1 \in Shards /\ 2 \in Shards \ {1} /\ Owes(1) /\ Arrived(1)
            /\ IsHalf(Head(fromShard[1])) /\ TakeFrom(1) /\ UNCHANGED toShard
        BY <2>0, <2>2 DEF Shards
      <4> QED BY <4>1, HalfTaken
    <3>2. Owes(2)'
      BY <2>2, <3>1 DEF PipeInv, Owes, Half, ScanOf, Failure
    <3> QED BY <2>2, <3>1, <3>2, <1>b DEF PipeInv
  <2>3. CASE next = 2
    <3>1. NothingOn(2)' /\ fromShard'[1] = fromShard[1]
      <4>1. /\ 2 \in Shards /\ 1 \in Shards \ {2} /\ Owes(2) /\ Arrived(2)
            /\ IsHalf(Head(fromShard[2])) /\ TakeFrom(2) /\ UNCHANGED toShard
        BY <2>0, <2>3 DEF Shards
      <4> QED BY <4>1, HalfTaken
    <3>2. NothingOn(1)'
      BY <2>3, <3>1 DEF PipeInv, NothingOn
    <3> QED BY <2>3, <3>1, <3>2 DEF PipeInv
  <2> QED BY <2>2, <2>3, <1>a
<1>4. LifeInv'
  BY SMTT(30) DEF TypeOK, LifeInv, Shards
<1> QED BY <1>1, <1>2, <1>3, <1>4

(* CollectBroken preserves the invariant. *)
LEMMA CollectBrokenInv == ASSUME IInv, CollectBroken PROVE IInv'
<1> USE DEF IInv, CollectBroken, FailFrame, Reply, Arrived, TakeFrom, IsHalf, parentVars, shardVars
<1>0. AnswersOK' /\ NoMixedFrame'
  BY ReplyKeeps, <<>> \in Seq(1..MaxJobs)
<1>1. TypeOK'
  <2>1. FlagsOK'
    BY Zenon DEF TypeOK, FlagsOK
  <2>2. PlaceOK'
    BY CoordinatorAssumption DEF TypeOK, PlaceOK, PipeInv, LifeInv, Shards
  <2>3. AnswersOK'
    BY <1>0
  <2>4. PipesOK'
    <3> /\ next \in Shards
        /\ toShard \in [Shards -> Seq(Message)] /\ fromShard \in [Shards -> Seq(Message)]
      BY DEF TypeOK
    <3>1. \/ UNCHANGED fromShard
          \/ fromShard[next] # <<>> /\ fromShard' = [fromShard EXCEPT ![next] = Tail(@)]
      OBVIOUS
    <3>2. fromShard' \in [Shards -> Seq(Message)]
      BY <3>1, PipeRead
    <3> QED BY <3>2 DEF PipesOK
  <2> QED BY <2>1, <2>2, <2>3, <2>4 DEF TypeOK, FlagsOK, PlaceOK, AnswersOK, PipesOK
<1>2. NoMixedFrame'
  BY <1>0
<1>3. PipeInv'
  BY DEF TypeOK, PipeInv, NothingOn, Owes, ScanOf, Half, Failure, Shards
<1>4. LifeInv'
  <2>1. ~shardUp[next]
    <3>1. Owes(next) /\ next \in Shards
      BY DEF TypeOK, PipeInv, Shards
    <3> QED BY <3>1 DEF Owes, Half, ScanOf, Failure
  <2>2. broken
    BY <2>1 DEF TypeOK, LifeInv
  <2> QED BY <2>2 DEF LifeInv
<1> QED BY <1>1, <1>2, <1>3, <1>4

(* Timeout preserves the invariant. *)
LEMMA TimeoutInv == ASSUME IInv, Timeout PROVE IInv'
<1> USE DEF IInv, Timeout, Reply, Arrived, parentVars, shardVars
<1>0. AnswersOK' /\ NoMixedFrame'
  BY ReplyKeeps, <<>> \in Seq(1..MaxJobs)
<1>1. TypeOK'
  <2>1. FlagsOK'
    BY Zenon DEF TypeOK, FlagsOK
  <2>2. PlaceOK'
    BY CoordinatorAssumption DEF TypeOK, PlaceOK, PipeInv, LifeInv, Shards
  <2>3. AnswersOK'
    BY <1>0
  <2>4. PipesOK'
    BY DEF TypeOK, PipesOK
  <2> QED BY <2>1, <2>2, <2>3, <2>4 DEF TypeOK, FlagsOK, PlaceOK, AnswersOK, PipesOK
<1>2. NoMixedFrame'
  BY <1>0
<1>3. PipeInv'
  BY DEF TypeOK, PipeInv, NothingOn, Owes, ScanOf, Half, Failure, Shards
<1>4. LifeInv'
  BY DEF TypeOK, PipeInv, LifeInv, NothingOn, Owes, ScanOf, Half, Failure, Shards
<1> QED BY <1>1, <1>2, <1>3, <1>4

(* DrainHalf preserves the invariant. *)
LEMMA DrainHalfInv == ASSUME IInv, DrainHalf PROVE IInv'
<1> USE DEF IInv, DrainHalf, Arrived, TakeFrom, IsHalf, parentVars, shardVars
<1>1. TypeOK'
  <2>1. FlagsOK'
    BY Zenon DEF TypeOK, FlagsOK
  <2>2. PlaceOK'
    BY CoordinatorAssumption DEF TypeOK, PlaceOK, PipeInv, LifeInv, Shards
  <2>3. AnswersOK'
    BY DEF TypeOK, AnswersOK
  <2>4. PipesOK'
    <3> /\ next \in Shards
        /\ toShard \in [Shards -> Seq(Message)] /\ fromShard \in [Shards -> Seq(Message)]
      BY DEF TypeOK
    <3>1. \/ UNCHANGED fromShard
          \/ fromShard[next] # <<>> /\ fromShard' = [fromShard EXCEPT ![next] = Tail(@)]
      OBVIOUS
    <3>2. fromShard' \in [Shards -> Seq(Message)]
      BY <3>1, PipeRead
    <3> QED BY <3>2 DEF PipesOK
  <2> QED BY <2>1, <2>2, <2>3, <2>4 DEF TypeOK, FlagsOK, PlaceOK, AnswersOK, PipesOK
<1>2. NoMixedFrame'
  BY DEF TypeOK, NoMixedFrame
<1>3. PipeInv'
  <2>0. Owes(next) /\ next \in Shards /\ (next = 1 \/ next = 2)
    BY DEF TypeOK, PipeInv, Shards
  <2>2. CASE next = 1
    <3>1. NothingOn(1)' /\ fromShard'[2] = fromShard[2]
      <4>1. /\ 1 \in Shards /\ 2 \in Shards \ {1} /\ Owes(1) /\ Arrived(1)
            /\ IsHalf(Head(fromShard[1])) /\ TakeFrom(1) /\ UNCHANGED toShard
        BY <2>0, <2>2 DEF Shards
      <4> QED BY <4>1, HalfTaken
    <3>2. Owes(2)'
      BY <2>2, <3>1 DEF PipeInv, Owes, Half, ScanOf, Failure
    <3> QED BY <2>2, <3>1, <3>2 DEF PipeInv
  <2>3. CASE next = 2
    <3>1. NothingOn(2)' /\ fromShard'[1] = fromShard[1]
      <4>1. /\ 2 \in Shards /\ 1 \in Shards \ {2} /\ Owes(2) /\ Arrived(2)
            /\ IsHalf(Head(fromShard[2])) /\ TakeFrom(2) /\ UNCHANGED toShard
        BY <2>0, <2>3 DEF Shards
      <4> QED BY <4>1, HalfTaken
    <3>2. NothingOn(1)'
      BY <2>3, <3>1 DEF PipeInv, NothingOn
    <3> QED BY <2>3, <3>1, <3>2 DEF PipeInv
  <2> QED BY <2>0, <2>2, <2>3
<1>4. LifeInv'
  BY DEF TypeOK, PipeInv, LifeInv, NothingOn, Owes, ScanOf, Half, Failure, Shards
<1> QED BY <1>1, <1>2, <1>3, <1>4

(* DrainBroken preserves the invariant. *)
LEMMA DrainBrokenInv == ASSUME IInv, DrainBroken PROVE IInv'
<1> USE DEF IInv, DrainBroken, Arrived, TakeFrom, IsHalf, parentVars, shardVars
<1>1. TypeOK'
  <2>1. FlagsOK'
    BY Zenon DEF TypeOK, FlagsOK
  <2>2. PlaceOK'
    BY CoordinatorAssumption DEF TypeOK, PlaceOK, PipeInv, LifeInv, Shards
  <2>3. AnswersOK'
    BY DEF TypeOK, AnswersOK
  <2>4. PipesOK'
    <3> /\ next \in Shards
        /\ toShard \in [Shards -> Seq(Message)] /\ fromShard \in [Shards -> Seq(Message)]
      BY DEF TypeOK
    <3>1. \/ UNCHANGED fromShard
          \/ fromShard[next] # <<>> /\ fromShard' = [fromShard EXCEPT ![next] = Tail(@)]
      OBVIOUS
    <3>2. fromShard' \in [Shards -> Seq(Message)]
      BY <3>1, PipeRead
    <3> QED BY <3>2 DEF PipesOK
  <2> QED BY <2>1, <2>2, <2>3, <2>4 DEF TypeOK, FlagsOK, PlaceOK, AnswersOK, PipesOK
<1>2. NoMixedFrame'
  BY DEF TypeOK, NoMixedFrame
<1>3. PipeInv'
  BY DEF TypeOK, PipeInv, NothingOn, Owes, ScanOf, Half, Failure, Shards
<1>4. LifeInv'
  BY DEF TypeOK, PipeInv, LifeInv, NothingOn, Owes, ScanOf, Half, Failure, Shards
<1> QED BY <1>1, <1>2, <1>3, <1>4

(* Stop preserves the invariant. *)
LEMMA StopInv == ASSUME IInv, Stop PROVE IInv'
<1> USE DEF IInv, Stop, parentVars, shardVars
<1>1. TypeOK'
  <2>1. FlagsOK'
    BY Zenon DEF TypeOK, FlagsOK
  <2>2. PlaceOK'
    BY CoordinatorAssumption DEF TypeOK, PlaceOK, PipeInv, LifeInv, Shards
  <2>3. AnswersOK'
    BY DEF TypeOK, AnswersOK
  <2>4. PipesOK'
    <3> DEFINE m == [kind |-> "stop", job |-> 0]
    <3>1. m \in Message
      BY CoordinatorAssumption DEF Message
    <3> HIDE DEF m
    <3>2. \A s \in Shards : Append(toShard[s], m) \in Seq(Message)
      BY <3>1 DEF TypeOK
    <3>3. toShard' = [s \in Shards |-> IF \A r \in 1..s : shardUp[r] THEN Append(toShard[s], m)
                                       ELSE toShard[s]]
      BY DEF m
    <3> QED BY <3>2, <3>3 DEF TypeOK, PipesOK
  <2> QED BY <2>1, <2>2, <2>3, <2>4 DEF TypeOK, FlagsOK, PlaceOK, AnswersOK, PipesOK
<1>2. NoMixedFrame'
  BY DEF TypeOK, NoMixedFrame
<1>3. PipeInv'
  BY DEF TypeOK, PipeInv, NothingOn, Owes, ScanOf, Half, Failure, Shards
<1>4. LifeInv'
  BY DEF TypeOK, PipeInv, LifeInv, NothingOn, Owes, ScanOf, Half, Failure, Shards
<1> QED BY <1>1, <1>2, <1>3, <1>4

(* Acknowledge preserves the invariant. *)
LEMMA AcknowledgeInv == ASSUME IInv, Acknowledge PROVE IInv'
<1> USE DEF IInv, Acknowledge, Arrived, TakeFrom, parentVars, shardVars
<1>0. AnswersOK' /\ NoMixedFrame'
  <2> DEFINE a == [job |-> 0, kind |-> "stopped", parts |-> <<>>]
  <2>1. a \in Answer /\ a.kind # "frame"
    BY CoordinatorAssumption DEF Answer
  <2>2. answers' = answers \/ answers' = Append(answers, a)
    OBVIOUS
  <2> HIDE DEF a
  <2>3. answers \in Seq(Answer)
    BY DEF TypeOK
  <2>4. AnswersOK'
    BY <2>1, <2>2, <2>3 DEF AnswersOK
  <2>5. ASSUME NEW i \in 1..Len(answers'), answers'[i].kind = "frame"
        PROVE  i \in 1..Len(answers) /\ answers'[i] = answers[i]
    BY <2>1, <2>2, <2>3, <2>5
  <2> QED BY <2>4, <2>5 DEF NoMixedFrame
<1>1. TypeOK'
  <2>1. FlagsOK'
    BY Zenon DEF TypeOK, FlagsOK
  <2>2. PlaceOK'
    BY CoordinatorAssumption DEF TypeOK, PlaceOK, PipeInv, LifeInv, Shards
  <2>3. AnswersOK'
    BY <1>0
  <2>4. PipesOK'
    <3> /\ next \in Shards
        /\ toShard \in [Shards -> Seq(Message)] /\ fromShard \in [Shards -> Seq(Message)]
      BY DEF TypeOK
    <3>1. \/ UNCHANGED fromShard
          \/ fromShard[next] # <<>> /\ fromShard' = [fromShard EXCEPT ![next] = Tail(@)]
      OBVIOUS
    <3>2. fromShard' \in [Shards -> Seq(Message)]
      BY <3>1, PipeRead
    <3> QED BY <3>2 DEF PipesOK
  <2> QED BY <2>1, <2>2, <2>3, <2>4 DEF TypeOK, FlagsOK, PlaceOK, AnswersOK, PipesOK
<1>2. NoMixedFrame'
  BY <1>0
<1>3. PipeInv'
  BY DEF TypeOK, PipeInv, NothingOn, Owes, ScanOf, Half, Failure, Shards
<1>4. LifeInv'
  BY DEF TypeOK, PipeInv, LifeInv, NothingOn, Owes, ScanOf, Half, Failure, Shards
<1> QED BY <1>1, <1>2, <1>3, <1>4

(* Leave preserves the invariant. *)
LEMMA LeaveInv == ASSUME IInv, Leave PROVE IInv'
<1> USE DEF IInv, Leave, parentVars, shardVars
<1>1. TypeOK'
  <2>1. FlagsOK'
    BY Zenon DEF TypeOK, FlagsOK
  <2>2. PlaceOK'
    BY CoordinatorAssumption DEF TypeOK, PlaceOK, PipeInv, LifeInv, Shards
  <2>3. AnswersOK'
    BY DEF TypeOK, AnswersOK
  <2>4. PipesOK'
    BY DEF TypeOK, PipesOK
  <2> QED BY <2>1, <2>2, <2>3, <2>4 DEF TypeOK, FlagsOK, PlaceOK, AnswersOK, PipesOK
<1>2. NoMixedFrame'
  BY DEF TypeOK, NoMixedFrame
<1>3. PipeInv'
  BY DEF TypeOK, PipeInv, NothingOn, Owes, ScanOf, Half, Failure, Shards
<1>4. LifeInv'
  BY DEF TypeOK, PipeInv, LifeInv, NothingOn, Owes, ScanOf, Half, Failure, Shards
<1> QED BY <1>1, <1>2, <1>3, <1>4

(* ShardScan preserves the invariant. *)
LEMMA ShardScanInv == ASSUME IInv, NEW s \in Shards, ShardScan(s) PROVE IInv'
<1> USE DEF IInv, ShardScan, Say, parentVars, shardVars
<1>1. TypeOK'
  <2>1. FlagsOK'
    BY Zenon DEF TypeOK, FlagsOK
  <2>2. PlaceOK'
    BY CoordinatorAssumption DEF TypeOK, PlaceOK, PipeInv, LifeInv, Shards
  <2>3. AnswersOK'
    BY DEF TypeOK, AnswersOK
  <2>4. PipesOK'
    <3>1. toShard \in [Shards -> Seq(Message)] /\ fromShard \in [Shards -> Seq(Message)]
      BY DEF TypeOK
    <3>2. Head(toShard[s]) \in Message
      BY <3>1
    <3>3. /\ [kind |-> "result", job |-> Head(toShard[s]).job] \in Message
          /\ [kind |-> "failure", job |-> Head(toShard[s]).job] \in Message
      BY <3>2 DEF Message
    <3>4. toShard' \in [Shards -> Seq(Message)]
      BY <3>1, PipeRead
    <3>5. fromShard' \in [Shards -> Seq(Message)]
      BY <3>1, <3>3, PipeWrite
    <3> QED BY <3>4, <3>5 DEF PipesOK
  <2> QED BY <2>1, <2>2, <2>3, <2>4 DEF TypeOK, FlagsOK, PlaceOK, AnswersOK, PipesOK
<1>2. NoMixedFrame'
  BY DEF TypeOK, NoMixedFrame
<1>3. PipeInv'
  <2>1. UNCHANGED <<cpc, job, next, parts>>
    OBVIOUS
  <2>2. 1 \in Shards /\ 2 \in Shards /\ (s = 1 \/ s = 2)
    BY DEF Shards
  <2>3. CASE s = 1
    <3>1. ShardScan(1)
      BY <2>3
    <3>2. /\ ~NothingOn(1) /\ (Owes(1) => Owes(1)')
          /\ (NothingOn(2) => NothingOn(2)') /\ (Owes(2) => Owes(2)')
      BY <2>2, <3>1, ScanPays
    <3> QED BY <2>1, <3>2 DEF PipeInv
  <2>4. CASE s = 2
    <3>1. ShardScan(2)
      BY <2>4
    <3>2. /\ ~NothingOn(2) /\ (Owes(2) => Owes(2)')
          /\ (NothingOn(1) => NothingOn(1)') /\ (Owes(1) => Owes(1)')
      BY <2>2, <3>1, ScanPays
    <3> QED BY <2>1, <3>2 DEF PipeInv
  <2> QED BY <2>2, <2>3, <2>4
<1>4. LifeInv'
  BY DEF TypeOK, PipeInv, LifeInv, NothingOn, Owes, ScanOf, Half, Failure, Shards
<1> QED BY <1>1, <1>2, <1>3, <1>4

(* ShardStop preserves the invariant. *)
LEMMA ShardStopInv == ASSUME IInv, NEW s \in Shards, ShardStop(s) PROVE IInv'
<1> USE DEF IInv, ShardStop, Say, parentVars, shardVars
<1>1. TypeOK'
  <2>1. FlagsOK'
    BY Zenon DEF TypeOK, FlagsOK
  <2>2. PlaceOK'
    BY CoordinatorAssumption DEF TypeOK, PlaceOK, PipeInv, LifeInv, Shards
  <2>3. AnswersOK'
    BY DEF TypeOK, AnswersOK
  <2>4. PipesOK'
    <3>1. toShard \in [Shards -> Seq(Message)] /\ fromShard \in [Shards -> Seq(Message)]
      BY DEF TypeOK
    <3>2. [kind |-> "stopped", job |-> 0] \in Message
      BY CoordinatorAssumption DEF Message
    <3>3. toShard' \in [Shards -> Seq(Message)]
      BY <3>1, PipeEnd
    <3>4. fromShard' \in [Shards -> Seq(Message)]
      BY <3>1, <3>2, PipeWrite
    <3> QED BY <3>3, <3>4 DEF PipesOK
  <2> QED BY <2>1, <2>2, <2>3, <2>4 DEF TypeOK, FlagsOK, PlaceOK, AnswersOK, PipesOK
<1>2. NoMixedFrame'
  BY DEF TypeOK, NoMixedFrame
<1>3. PipeInv'
  BY SMTT(30) DEF TypeOK, PipeInv, NothingOn, Owes, ScanOf, Half, Failure, Shards
<1>4. LifeInv'
  BY SMTT(30) DEF TypeOK, PipeInv, LifeInv, NothingOn, Owes, ScanOf, Half, Failure, Shards
<1> QED BY <1>1, <1>2, <1>3, <1>4

(* ShardDies preserves the invariant. *)
LEMMA ShardDiesInv == ASSUME IInv, NEW s \in Shards, ShardDies(s) PROVE IInv'
<1> USE DEF IInv, ShardDies, parentVars, shardVars
<1>1. TypeOK'
  <2>1. FlagsOK'
    BY Zenon DEF TypeOK, FlagsOK
  <2>2. PlaceOK'
    BY CoordinatorAssumption DEF TypeOK, PlaceOK, PipeInv, LifeInv, Shards
  <2>3. AnswersOK'
    BY DEF TypeOK, AnswersOK
  <2>4. PipesOK'
    BY DEF TypeOK, PipesOK
  <2> QED BY <2>1, <2>2, <2>3, <2>4 DEF TypeOK, FlagsOK, PlaceOK, AnswersOK, PipesOK
<1>2. NoMixedFrame'
  BY DEF TypeOK, NoMixedFrame
<1>3. PipeInv'
  BY SMTT(30) DEF TypeOK, PipeInv, NothingOn, Owes, ScanOf, Half, Failure, Shards
<1>4. LifeInv'
  BY DEF TypeOK, PipeInv, LifeInv, NothingOn, Owes, ScanOf, Half, Failure, Shards
<1> QED BY <1>1, <1>2, <1>3, <1>4

(* Every step preserves the invariant. *)
LEMMA StepInv == IInv /\ [Next]_vars => IInv'
<1> SUFFICES ASSUME IInv, [Next]_vars PROVE IInv'
  OBVIOUS
<1>1. CASE ParentSend \/ ParentTake \/ ParentStop
  BY <1>1, ParentSendInv, ParentTakeInv, ParentStopInv
<1>2. CASE Coordinator
  BY <1>2, RecvInv, SendShardInv, CollectHalfInv, CollectBrokenInv, TimeoutInv, DrainHalfInv,
     DrainBrokenInv, StopInv, AcknowledgeInv, LeaveInv DEF Coordinator
<1>3. CASE \E s \in Shards : ShardScan(s) \/ ShardStop(s) \/ ShardDies(s)
  BY <1>3, ShardScanInv, ShardStopInv, ShardDiesInv
<1>4. CASE UNCHANGED vars
  BY <1>4 DEF vars, parentVars, shardVars, IInv, TypeOK, PipeInv, LifeInv, NoMixedFrame, NothingOn, Owes
<1> QED BY <1>1, <1>2, <1>3, <1>4 DEF Next

(* IInv is an invariant of the worker. *)
THEOREM InductiveInvariant == Spec => []IInv
<1>1. Init => IInv
  BY InitInv
<1>2. IInv /\ [Next]_vars => IInv'
  BY StepInv
<1> QED BY <1>1, <1>2, PTL DEF Spec

(* Type correctness of coordinator, shards and pipes, for every number of  *)
(* requests.                                                               *)
THEOREM TypeCorrect == Spec => []TypeOK
<1>1. IInv => TypeOK
  BY DEF IInv
<1> QED BY <1>1, InductiveInvariant, PTL

(* Between two frames the pipes of both shards are empty, however late the *)
(* shards were with the last one.                                          *)
THEOREM CleanPipes == Spec => []CleanBetweenFrames
<1>1. IInv => CleanBetweenFrames
  BY DEF IInv, PipeInv, NothingOn, CleanBetweenFrames, Shards
<1> QED BY <1>1, InductiveInvariant, PTL

(* No cloud mixes the halves of two scans. *)
THEOREM NoMixing == Spec => []NoMixedFrame
<1>1. IInv => NoMixedFrame
  BY DEF IInv
<1> QED BY <1>1, InductiveInvariant, PTL

(* A late shard never ends the service. *)
THEOREM LatenessSurvives == Spec => []LateIsNotFatal
<1>1. IInv => LateIsNotFatal
  BY DEF IInv, LifeInv, LateIsNotFatal
<1> QED BY <1>1, InductiveInvariant, PTL

-----------------------------------------------------------------------------
(* The parent's discipline, as its pipes show it: one job on the way, at   *)
(* most one answer unread, and nothing but the acknowledgement after Stop. *)
Alone(q) == q = <<>> \/ \E a \in Answer : q = <<a>>
ParentInv ==
    /\ Alone(answers)
    /\ request # <<>> \/ cpc \in {"send", "collect"} => answers = <<>>
    /\ request # <<>> => cpc \notin {"send", "collect"} /\ \E j \in 1..MaxJobs : request = <<j>>
    /\ stopSent => request = <<>> /\ cpc \notin {"send", "collect"}
    /\ cpc = "ack" => stopSent /\ answers = <<>>
    /\ answers # <<>> /\ stopSent => Head(answers).kind = "stopped" /\ cpc \in {"leaving", "gone"}
    /\ answers # <<>> /\ ~stopSent => Head(answers).kind \in {"frame", "failed"}

(* What the parent reads when one answer is there. *)
LEMMA OneUnread ==
  ASSUME NEW a, answers = <<a>>, a.kind \in {"frame", "failed"}
  PROVE  UnreadAnswers = <<[job |-> a.job, kind |-> a.kind]>>
<1>1. answers # <<>> /\ Head(answers) = a /\ Len(answers) = 1 /\ answers[1] = a
  BY Single
<1>2. UnreadAnswers = [i \in 1..1 |-> [job |-> answers[i].job, kind |-> answers[i].kind]]
  BY <1>1 DEF UnreadAnswers
<1> QED BY <1>1, <1>2

LEMMA NoneUnread ==
  ASSUME answers = <<>> \/ \E a : answers = <<a>> /\ a.kind = "stopped"
  PROVE  UnreadAnswers = <<>>
<1>1. CASE answers = <<>>
  BY <1>1 DEF UnreadAnswers
<1>2. CASE \E a : answers = <<a>> /\ a.kind = "stopped"
  BY <1>2, Single DEF UnreadAnswers
<1> QED BY <1>1, <1>2

LEMMA ParentStarts == Init => ParentInv
  BY DEF Init, ParentInv, Alone

(* An answer, given in the middle of a frame. *)
LEMMA ReplyIs ==
  ASSUME TypeOK, ParentInv, cpc \in {"send", "collect"}, NEW k \in {"frame", "failed"},
         NEW h \in Seq(1..MaxJobs), Reply(k, h), UNCHANGED <<request, stopSent>>,
         cpc' \in {"recv", "drain", "leaving"}
  PROVE  ParentInv' /\ Child!ChildAnswer(k)
<1> DEFINE a == [job |-> job, kind |-> k, parts |-> h]
<1>1. a \in Answer /\ a.kind = k /\ a.job = job
  BY DEF TypeOK, Answer
<1>2. answers = <<>> /\ request = <<>> /\ ~stopSent
  BY DEF ParentInv
<1>3. answers' = <<a>>
  BY <1>2, Single DEF Reply
<1> HIDE DEF a
<1>4. Head(answers') = a /\ answers' # <<>>
  BY <1>3, Single
<1>5. ParentInv'
  BY <1>1, <1>2, <1>3, <1>4 DEF ParentInv, Alone
<1>6. UnreadAnswers = <<>> /\ PendingRequests = <<job>> /\ PendingRequests' = <<>>
  BY <1>2, NoneUnread DEF PendingRequests
<1>7. UnreadAnswers' = <<[job |-> job, kind |-> k]>>
  <2>1. answers'[1] = a /\ Len(answers') = 1
    BY <1>3
  <2>2. UnreadAnswers' = [i \in 1..1 |-> [job |-> answers'[i].job, kind |-> answers'[i].kind]]
    BY <1>1, <1>4, <2>1 DEF UnreadAnswers
  <2> QED BY <1>1, <2>1, <2>2
<1>8. (cpc # "gone") /\ (cpc # "gone")'
  OBVIOUS
<1> QED BY <1>5, <1>6, <1>7, <1>8, Single DEF Child!ChildAnswer

(* A step the parent does not see. *)
LEMMA UnseenIs ==
  ASSUME TypeOK, ParentInv, UNCHANGED <<answers, request, job, stopSent>>,
         \/ cpc' = cpc
         \/ {cpc, cpc'} \subseteq {"send", "collect"}
         \/ cpc \in {"recv", "drain"} /\ cpc' \in {"recv", "drain", "leaving"}
  PROVE  ParentInv' /\ UNCHANGED Child!childVars
<1>1. ParentInv'
  BY DEF ParentInv, Alone
<1>2. UNCHANGED <<PendingRequests, UnreadAnswers>> /\ (cpc # "gone") = (cpc' # "gone")
  BY DEF PendingRequests, UnreadAnswers
<1> QED BY <1>1, <1>2 DEF Child!childVars

LEMMA ParentSendIs == ASSUME TypeOK, ParentInv, ParentSend PROVE ParentInv' /\ Child!ParentSends
<1>1. /\ request = <<>> /\ answers = <<>> /\ cpc \notin {"send", "collect", "gone"} /\ ~stopSent
      /\ request' = <<jobs + 1>> /\ jobs + 1 \in 1..MaxJobs /\ UNCHANGED <<stopSent, answers, cpc>>
  BY CoordinatorAssumption DEF ParentSend, ParentIdle, TypeOK
<1>2. ParentInv'
  BY <1>1 DEF ParentInv, Alone
<1>3. PendingRequests = <<>> /\ PendingRequests' = <<jobs + 1>> /\ UnreadAnswers = <<>> /\ UnreadAnswers' = UnreadAnswers
  BY <1>1, NoneUnread DEF PendingRequests, UnreadAnswers
<1>4. Len(PendingRequests') = 1
  BY <1>3
<1> QED BY <1>1, <1>2, <1>3, <1>4 DEF Child!ParentSends

LEMMA ParentTakeIs ==
  ASSUME TypeOK, ParentInv, ParentTake
  PROVE  ParentInv' /\ (Child!ChildTake \/ UNCHANGED Child!childVars)
<1>1. PICK a \in Answer : answers = <<a>>
  BY DEF ParentInv, Alone, ParentTake
<1>2. answers' = <<>> /\ Head(answers) = a /\ UNCHANGED <<request, stopSent, cpc, job>>
  BY <1>1, Single DEF ParentTake, parentVars
<1>3. ParentInv'
  BY <1>1, <1>2 DEF ParentInv, Alone
<1>4. UnreadAnswers' = <<>>
  BY <1>2 DEF UnreadAnswers
<1>5. PendingRequests' = PendingRequests /\ (cpc # "gone") = (cpc' # "gone")
  BY <1>2 DEF PendingRequests
<1>6. CASE a.kind = "stopped"
  <2>1. UnreadAnswers = <<>>
    BY <1>1, <1>6, NoneUnread
  <2> QED BY <1>3, <1>4, <1>5, <2>1 DEF Child!childVars
<1>7. CASE a.kind # "stopped"
  <2>1. a.kind \in {"frame", "failed"}
    BY <1>7 DEF Answer
  <2>2. UnreadAnswers = <<[job |-> a.job, kind |-> a.kind]>>
    BY <1>1, <2>1, OneUnread
  <2> QED BY <1>3, <1>4, <1>5, <2>2, Single DEF Child!ChildTake
<1> QED BY <1>6, <1>7

LEMMA RecvIs == ASSUME TypeOK, ParentInv, Recv PROVE ParentInv' /\ UNCHANGED Child!childVars
<1>1. PICK j \in 1..MaxJobs : request = <<j>>
  BY DEF ParentInv, Recv
<1>2. job' = j /\ request' = <<>> /\ cpc' = "send" /\ cpc = "recv" /\ UNCHANGED <<answers, stopSent>>
  BY <1>1, Single DEF Recv, parentVars
<1>3. ParentInv'
  BY <1>1, <1>2 DEF ParentInv, Alone
<1>4. <<j>> \o <<>> = <<j>>
  OBVIOUS
<1>5. UNCHANGED <<PendingRequests, UnreadAnswers>> /\ (cpc # "gone") = (cpc' # "gone")
  BY <1>1, <1>2, <1>4 DEF PendingRequests, UnreadAnswers
<1> QED BY <1>3, <1>5 DEF Child!childVars

(* The steps of the coordinator inside a frame. *)
LEMMA FrameIs ==
  ASSUME IInv, ParentInv, SendShard \/ CollectHalf \/ CollectBroken \/ Timeout
  PROVE  /\ ParentInv'
         /\ (\E kind \in {"frame", "failed"} : Child!ChildAnswer(kind)) \/ UNCHANGED Child!childVars
<1>0. TypeOK /\ cpc \in {"send", "collect"} /\ UNCHANGED <<request, stopSent, job>>
  BY DEF IInv, SendShard, CollectHalf, CollectBroken, Timeout, parentVars
<1>1. CASE FailFrame
  <2>1. Reply("failed", <<>>) /\ cpc' = "leaving" /\ <<>> \in Seq(1..MaxJobs)
    BY <1>1 DEF FailFrame
  <2> QED BY <1>0, <2>1, ReplyIs
<1>2. CASE Reply("failed", <<>>) /\ cpc' = "drain"
  <2>1. <<>> \in Seq(1..MaxJobs)
    OBVIOUS
  <2> QED BY <1>0, <1>2, <2>1, ReplyIs
<1>3. CASE Reply("frame", parts') /\ cpc' = "recv" /\ CollectHalf
  <2>1. parts' \in Seq(1..MaxJobs)
    BY <1>3, CollectHalfInv DEF IInv, TypeOK
  <2> QED BY <1>0, <1>3, <2>1, ReplyIs
<1>4. CASE UNCHANGED answers /\ cpc' \in {"send", "collect"}
  BY <1>0, <1>4, UnseenIs
<1> QED BY <1>1, <1>2, <1>3, <1>4 DEF SendShard, CollectHalf, CollectBroken, Timeout

LEMMA OtherCoordinatorIs ==
  ASSUME TypeOK, ParentInv, DrainHalf \/ DrainBroken \/ Stop \/ Acknowledge \/ Leave
  PROVE  ParentInv' /\ (Child!ChildExit \/ UNCHANGED Child!childVars)
<1>1. CASE DrainHalf \/ DrainBroken
  <2>1. /\ UNCHANGED <<answers, request, job, stopSent>> /\ cpc = "drain"
        /\ cpc' \in {"drain", "recv", "leaving"}
    BY <1>1 DEF DrainHalf, DrainBroken, parentVars
  <2> QED BY <2>1, UnseenIs
<1>2. CASE Stop
  <2>1. /\ UNCHANGED <<answers, request, job, stopSent>> /\ cpc = "recv" /\ stopSent
        /\ cpc' \in {"ack", "leaving"}
    BY <1>2 DEF Stop, parentVars
  <2>2. answers = <<>>
    BY <2>1 DEF ParentInv
  <2>3. ParentInv'
    BY <2>1, <2>2 DEF ParentInv, Alone
  <2>4. UNCHANGED <<PendingRequests, UnreadAnswers>> /\ (cpc # "gone") = (cpc' # "gone")
    BY <2>1 DEF PendingRequests, UnreadAnswers
  <2> QED BY <2>3, <2>4 DEF Child!childVars
<1>3. CASE Acknowledge
  <2> DEFINE a == [job |-> 0, kind |-> "stopped", parts |-> <<>>]
  <2>1. /\ UNCHANGED <<request, job, stopSent>> /\ cpc = "ack" /\ stopSent /\ answers = <<>>
        /\ \/ answers' = Append(answers, a) /\ cpc' = "leaving"
           \/ answers' = answers /\ cpc' \in {"ack", "leaving"}
    BY <1>3 DEF Acknowledge, parentVars, ParentInv
  <2>2. a \in Answer /\ a.kind = "stopped"
    BY CoordinatorAssumption DEF Answer
  <2> HIDE DEF a
  <2>3. answers' = <<>> \/ (answers' = <<a>> /\ Head(answers') = a /\ cpc' = "leaving")
    BY <2>1, Single
  <2>4. ParentInv'
    BY <2>1, <2>2, <2>3 DEF ParentInv, Alone
  <2>5. UnreadAnswers = <<>> /\ UnreadAnswers' = <<>>
    BY <2>1, <2>2, <2>3 DEF UnreadAnswers
  <2>6. PendingRequests' = PendingRequests /\ (cpc # "gone") = (cpc' # "gone")
    BY <2>1 DEF PendingRequests
  <2> QED BY <2>4, <2>5, <2>6 DEF Child!childVars
<1>4. CASE Leave
  <2>1. cpc = "leaving" /\ cpc' = "gone" /\ request' = <<>> /\ UNCHANGED <<answers, stopSent, job>>
    BY <1>4 DEF Leave, parentVars
  <2>2. ParentInv'
    BY <2>1 DEF ParentInv, Alone
  <2>3. PendingRequests' = <<>> /\ UnreadAnswers' = UnreadAnswers
    BY <2>1 DEF PendingRequests, UnreadAnswers
  <2> QED BY <2>1, <2>2, <2>3 DEF Child!ChildExit
<1> QED BY <1>1, <1>2, <1>3, <1>4

LEMMA ParentStopIs == ASSUME TypeOK, ParentInv, ParentStop PROVE ParentInv' /\ UNCHANGED Child!childVars
<1>1. /\ UNCHANGED <<answers, request, job, cpc>> /\ stopSent' /\ answers = <<>> /\ request = <<>>
      /\ cpc \notin {"send", "collect"}
  BY DEF ParentStop, ParentIdle
<1>2. ParentInv'
  BY <1>1 DEF ParentInv, Alone
<1>3. UNCHANGED <<PendingRequests, UnreadAnswers>> /\ (cpc # "gone") = (cpc' # "gone")
  BY <1>1 DEF PendingRequests, UnreadAnswers
<1> QED BY <1>2, <1>3 DEF Child!childVars

(* Every step of the worker is a step of the child, or is not seen. *)
LEMMA StepIs ==
  ASSUME IInv, ParentInv, [Next]_vars
  PROVE  ParentInv' /\ [Child!ChildNext]_(Child!childVars)
<1>0. TypeOK
  BY DEF IInv
<1>1. CASE ParentSend \/ ParentTake \/ ParentStop
  BY <1>0, <1>1, ParentSendIs, ParentTakeIs, ParentStopIs DEF Child!ChildNext
<1>2. CASE Recv
  BY <1>0, <1>2, RecvIs
<1>3. CASE SendShard \/ CollectHalf \/ CollectBroken \/ Timeout
  BY <1>3, FrameIs DEF Child!ChildNext
<1>4. CASE DrainHalf \/ DrainBroken \/ Stop \/ Acknowledge \/ Leave
  BY <1>0, <1>4, OtherCoordinatorIs DEF Child!ChildNext
<1>5. CASE (\E s \in Shards : ShardScan(s) \/ ShardStop(s) \/ ShardDies(s)) \/ UNCHANGED vars
  <2>1. UNCHANGED <<answers, request, job, stopSent, cpc>>
    BY <1>5 DEF ShardScan, ShardStop, ShardDies, vars, parentVars
  <2> QED BY <1>0, <2>1, UnseenIs
<1> QED BY <1>1, <1>2, <1>3, <1>4, <1>5 DEF Next, Coordinator

(* The coordinator and its two shards are, seen from the parent, the one   *)
(* worker process that LidarScanService relies on: a request is answered   *)
(* at most once, in order and by name, whatever is late, fails or dies.    *)
THEOREM WorkerIsAChild == Spec => ImplementsLidarChild
<1>1. Init => Child!ChildInit
  <2> SUFFICES ASSUME Init PROVE Child!ChildInit
    OBVIOUS
  <2>1. PendingRequests = <<>> /\ UnreadAnswers = <<>> /\ (cpc # "gone") = TRUE
    BY DEF Init, PendingRequests, UnreadAnswers
  <2> QED BY <2>1 DEF Child!ChildInit
<1>2. IInv /\ ParentInv /\ [Next]_vars => ParentInv' /\ [Child!ChildNext]_(Child!childVars)
  BY StepIs
<1> QED BY <1>1, <1>2, ParentStarts, InductiveInvariant, PTL DEF Spec, ImplementsLidarChild, Child!ChildSpec

-----------------------------------------------------------------------------
(* Finite sets of naturals have a greatest and a least element: of the     *)
(* sets of the elements above each, one is minimal, and it is empty.       *)
LEMMA GreatestExists ==
  ASSUME NEW S, S \subseteq Nat, IsFiniteSet(S), S # {}
  PROVE  \E x \in S : \A y \in S : x >= y
<1> DEFINE Above(x) == {y \in S : y > x}
<1> DEFINE T == {Above(x) : x \in S}
<1>1. T \subseteq FiniteSubsetsOf(S)
  BY FS_Subset DEF FiniteSubsetsOf
<1>2. T # {}
  OBVIOUS
<1>3. IsWellFoundedOn(StrictSubsetOrdering(S), FiniteSubsetsOf(S))
  BY FS_StrictSubsetOrderingWellFounded
<1>4. PICK U \in T : \A V \in T : ~ (<<V, U>> \in StrictSubsetOrdering(S))
  <2> HIDE DEF T
  <2> QED BY <1>1, <1>2, <1>3, WFMin
<1>5. PICK x \in S : U = Above(x)
  OBVIOUS
<1>6. ASSUME NEW y \in S, y > x PROVE FALSE
  <2>0. \A z \in S : z \in Nat
    OBVIOUS
  <2>a. \A z \in S : z > y => z > x
    BY <2>0, <1>6
  <2>b. ~(y > y)
    BY <2>0
  <2>1. Above(y) \in T /\ Above(y) \subseteq U /\ y \in U /\ y \notin Above(y) /\ U \subseteq S
    BY <1>5, <1>6, <2>a, <2>b
  <2>2. <<Above(y), U>> \in StrictSubsetOrdering(S)
    BY <2>1 DEF StrictSubsetOrdering
  <2> QED BY <2>1, <2>2, <1>4
<1> QED
  <2> HIDE DEF T
  <2>1. \A y \in S : ~ (y > x)
    BY <1>6
  <2>2. x \in Nat /\ \A y \in S : y \in Nat
    OBVIOUS
  <2>3. \A y \in S : x >= y
    BY <2>1, <2>2
  <2> QED BY <2>3

LEMMA LeastExists ==
  ASSUME NEW S, S \subseteq Nat, IsFiniteSet(S), S # {}
  PROVE  \E x \in S : \A y \in S : x <= y
<1> DEFINE Below(x) == {y \in S : y < x}
<1> DEFINE T == {Below(x) : x \in S}
<1>1. T \subseteq FiniteSubsetsOf(S)
  BY FS_Subset DEF FiniteSubsetsOf
<1>2. T # {}
  OBVIOUS
<1>3. IsWellFoundedOn(StrictSubsetOrdering(S), FiniteSubsetsOf(S))
  BY FS_StrictSubsetOrderingWellFounded
<1>4. PICK U \in T : \A V \in T : ~ (<<V, U>> \in StrictSubsetOrdering(S))
  <2> HIDE DEF T
  <2> QED BY <1>1, <1>2, <1>3, WFMin
<1>5. PICK x \in S : U = Below(x)
  OBVIOUS
<1>6. ASSUME NEW y \in S, y < x PROVE FALSE
  <2>0. \A z \in S : z \in Nat
    OBVIOUS
  <2>a. \A z \in S : z < y => z < x
    BY <2>0, <1>6
  <2>b. ~(y < y)
    BY <2>0
  <2>1. Below(y) \in T /\ Below(y) \subseteq U /\ y \in U /\ y \notin Below(y) /\ U \subseteq S
    BY <1>5, <1>6, <2>a, <2>b
  <2>2. <<Below(y), U>> \in StrictSubsetOrdering(S)
    BY <2>1 DEF StrictSubsetOrdering
  <2> QED BY <2>1, <2>2, <1>4
<1> QED
  <2> HIDE DEF T
  <2>1. \A y \in S : ~ (y < x)
    BY <1>6
  <2>2. x \in Nat /\ \A y \in S : y \in Nat
    OBVIOUS
  <2>3. \A y \in S : x <= y
    BY <2>1, <2>2
  <2> QED BY <2>3

LEMMA MaxBounds ==
  ASSUME NEW S, S \subseteq Nat, IsFiniteSet(S), S # {}
  PROVE  Max(S) \in S /\ \A y \in S : Max(S) >= y
BY GreatestExists DEF Max

LEMMA MinIsElement ==
  ASSUME NEW S, S \subseteq Nat, IsFiniteSet(S), S # {}
  PROVE  Min(S) \in S
BY LeastExists DEF Min

-----------------------------------------------------------------------------
(* The mirror.  Whatever step a request is at, the bodies of the child are *)
(* those of its records, minus the removed ones, plus the candidates.      *)
Body == [body : Nat, spec : Specs]
FiniteIds == {s \in SUBSET Ids : IsFiniteSet(s)}
Records == UNION {[ids -> Body] : ids \in FiniteIds}

MirrorRecords ==
    [pc : {"idle", "create", "uncreate", "remove", "unremove", "update", "scan"},
     bodies : SUBSET Body, records : Records, bound : SUBSET Nat, target : Targets,
     kept : SUBSET Nat, todo : SUBSET Ids, made : Records, next : Nat, jobs : Nat]

Listed(f, ids) == {f[id] : id \in ids}
BodiesOf(f) == {f[id].body : id \in DOMAIN f}
Distinct(f) == \A i, j \in DOMAIN f : f[i].body = f[j].body => i = j

CreatedIn(records, target) ==
    {id \in DOMAIN target : id \in DOMAIN records => records[id].spec.shape # target[id].shape}
RemovedIn(records, target) ==
    {id \in DOMAIN records : id \in DOMAIN target => records[id].spec.shape # target[id].shape}

Fresh(m) ==
    /\ Distinct(m.records)
    /\ \A id \in DOMAIN m.records : m.records[id].body < m.next
    /\ \A b \in m.bodies : b.body < m.next

Settled(m) ==
    /\ m.bodies = Listed(m.records, DOMAIN m.records)
    /\ DOMAIN m.made = {}

Candidates(m) ==
    /\ Distinct(m.made)
    /\ DOMAIN m.made \subseteq DOMAIN m.target
    /\ \A id \in DOMAIN m.made : m.made[id].body < m.next /\ m.made[id].spec = m.target[id]
    /\ \A i \in DOMAIN m.made, j \in DOMAIN m.records : m.made[i].body # m.records[j].body

Creating(m) ==
    /\ m.todo \subseteq CreatedIn(m.records, m.target)
    /\ DOMAIN m.made = CreatedIn(m.records, m.target) \ m.todo
    /\ m.bodies = Listed(m.records, DOMAIN m.records) \cup Listed(m.made, DOMAIN m.made)

Uncreating(m) ==
    /\ Listed(m.records, DOMAIN m.records) \subseteq m.bodies
    /\ \A b \in m.bodies : b.body \in m.kept => b \in Listed(m.records, DOMAIN m.records)

Removing(m) ==
    /\ m.todo \subseteq RemovedIn(m.records, m.target)
    /\ DOMAIN m.made = CreatedIn(m.records, m.target)
    /\ m.bodies = Listed(m.records, DOMAIN m.records \ (RemovedIn(m.records, m.target) \ m.todo))
                     \cup Listed(m.made, DOMAIN m.made)

Unremoving(m) ==
    m.bodies \subseteq Listed(m.records, DOMAIN m.records) \cup Listed(m.made, DOMAIN m.made)

Updating(m) ==
    /\ DOMAIN m.made = CreatedIn(m.records, m.target)
    /\ m.todo \subseteq DOMAIN m.target \ DOMAIN m.made
    /\ m.bodies = Listed(m.records, DOMAIN m.records \ RemovedIn(m.records, m.target))
                     \cup Listed(m.made, DOMAIN m.made)
    /\ \A id \in (DOMAIN m.target \ DOMAIN m.made) \ m.todo : m.records[id].spec = m.target[id]

Phase(m) ==
    /\ m.pc \in {"idle", "scan"} => Settled(m)
    /\ m.pc \in {"idle", "scan", "create", "uncreate"} => m.bound = BodiesOf(m.records)
    /\ m.pc \in {"create", "uncreate"} => m.kept = BodiesOf(m.records)
    /\ m.pc \notin {"idle", "scan"} => Candidates(m)
    /\ m.pc = "create" => Creating(m)
    /\ m.pc = "uncreate" => Uncreating(m)
    /\ m.pc = "remove" => Removing(m)
    /\ m.pc = "unremove" => Unremoving(m)
    /\ m.pc = "update" => Updating(m)
    /\ m.pc = "scan" => m.target = [id \in DOMAIN m.records |-> m.records[id].spec]

Stands(m) == m \in MirrorRecords /\ Fresh(m) /\ Phase(m)

LEMMA RecordsUse ==
  ASSUME NEW r \in Records
  PROVE  /\ DOMAIN r \subseteq Ids /\ DOMAIN r \in FiniteIds /\ IsFiniteSet(DOMAIN r) /\ DOMAIN r \subseteq Nat
         /\ \A id \in DOMAIN r : r[id] \in Body /\ r[id].body \in Nat /\ r[id].spec \in Specs
         /\ r = [id \in DOMAIN r |-> r[id]]
BY WorkerAssumption DEF Records, FiniteIds, Body, WorkerAssumption

LEMMA RecordsMake ==
  ASSUME NEW ids \in FiniteIds, NEW f \in [ids -> Body]
  PROVE  f \in Records
BY DEF Records

LEMMA TargetsUse ==
  ASSUME NEW t \in Targets
  PROVE  /\ DOMAIN t \subseteq Ids /\ DOMAIN t \in FiniteIds /\ IsFiniteSet(DOMAIN t) /\ DOMAIN t \subseteq Nat
         /\ \A id \in DOMAIN t : t[id] \in Specs
         /\ t = [id \in DOMAIN t |-> t[id]]
BY WorkerAssumption DEF Targets, FiniteIds, WorkerAssumption

LEMMA TargetsMake ==
  ASSUME NEW ids \in FiniteIds, NEW f \in [ids -> Specs]
  PROVE  f \in Targets
BY DEF Targets, FiniteIds

LEMMA EmptyFunction ==
  /\ DOMAIN <<>> = {}
  /\ <<>> \in Records
  /\ <<>> \in Targets
<1>1. DOMAIN <<>> = 1 .. 0 /\ 1 .. 0 = {}
  OBVIOUS
<1>2. {} \in FiniteIds
  BY FS_EmptySet DEF FiniteIds
<1>3. <<>> \in [{} -> Body]
  BY <1>1
<1>4. <<>> \in [{} -> Specs]
  BY <1>1
<1> QED
  BY <1>1, <1>2, <1>3, <1>4, RecordsMake, TargetsMake

LEMMA QuietStands == Stands(Quiet)
<1>1. Quiet \in MirrorRecords
  BY EmptyFunction DEF Quiet, MirrorRecords, NoTarget
<1>2. /\ Quiet.records = <<>> /\ Quiet.bodies = {} /\ Quiet.bound = {} /\ Quiet.made = <<>> /\ Quiet.pc = "idle"
  BY DEF Quiet
<1>3. Fresh(Quiet)
  BY <1>2, EmptyFunction DEF Fresh, Distinct
<1>4. Phase(Quiet)
  BY <1>2, EmptyFunction DEF Phase, Settled, Listed, BodiesOf
<1> QED BY <1>1, <1>3, <1>4 DEF Stands

(* The bodies the child builds from the scene bear the ids themselves.     *)
LEMMA BuiltStands ==
  ASSUME NEW target \in Targets
  PROVE  Stands(BuiltMirror(target))
<1> DEFINE ids == DOMAIN target
           all == {0} \cup ids
           records == [id \in ids |-> [body |-> id, spec |-> target[id]]]
           bodies == {[body |-> id, spec |-> target[id]] : id \in ids}
           bound == {[body |-> id, spec |-> target[id]].body : id \in ids}
           top == Max(all)
           q == Quiet
           m == [q EXCEPT !.records = records, !.bodies = bodies, !.bound = bound, !.next = top + 1]
<1>0. BuiltMirror(target) = m
  BY DEF BuiltMirror
<1>2. ids \in FiniteIds /\ ids \subseteq Nat /\ IsFiniteSet(ids) /\ \A id \in ids : target[id] \in Specs
  BY TargetsUse
<1>3. IsFiniteSet(all) /\ all \subseteq Nat /\ all # {} /\ ids \subseteq all
  <2>1. IsFiniteSet(ids)
    BY <1>2
  <2>2. all \subseteq Nat /\ all # {} /\ ids \subseteq all
    BY <1>2
  <2>3. all = ids \cup {0}
    OBVIOUS
  <2> HIDE DEF ids, all
  <2>4. IsFiniteSet(ids \cup {0})
    BY <2>1, FS_AddElement
  <2> QED BY <2>2, <2>3, <2>4
<1>4. top \in Nat /\ \A id \in ids : id < top + 1
  <2> HIDE DEF all
  <2>1. top \in all /\ \A id \in all : top >= id
    BY <1>3, MaxBounds
  <2>2. top \in Nat
    BY <2>1, <1>3
  <2> HIDE DEF top
  <2> QED BY <2>1, <2>2, <1>2, <1>3
<1> HIDE DEF top
<1>5. \A id \in ids : records[id].body = id /\ records[id].spec = target[id] /\ records[id] = [body |-> id, spec |-> target[id]]
  OBVIOUS
<1>6. records \in Records /\ bodies \subseteq Body /\ bound = ids
  <2>1. records \in [ids -> Body] /\ bodies \subseteq Body /\ bound = ids
    BY <1>2 DEF Body
  <2> QED BY <2>1, <1>2, RecordsMake
<1>7. q \in MirrorRecords /\ q.pc = "idle" /\ q.made = <<>>
  BY QuietStands DEF Stands, Quiet
<1>8. /\ m.pc = "idle" /\ m.records = records /\ m.bodies = bodies /\ m.bound = bound
      /\ m.next = top + 1 /\ m.made = <<>> /\ m \in MirrorRecords
  <2> HIDE DEF records, bodies, bound, q
  <2>1. records \in Records /\ bodies \in SUBSET Body /\ bound \in SUBSET Nat /\ top + 1 \in Nat
    BY <1>2, <1>4, <1>6
  <2> QED BY <2>1, <1>7 DEF MirrorRecords
<1> HIDE DEF m
<1>9. DOMAIN records = ids
  OBVIOUS
<1>10. Fresh(m)
  BY <1>4, <1>5, <1>8 DEF Fresh, Distinct
<1>11. Phase(m)
  BY <1>5, <1>6, <1>8, EmptyFunction DEF Phase, Settled, Listed, BodiesOf
<1> QED BY <1>0, <1>8, <1>10, <1>11 DEF Stands

LEMMA StandsUse ==
  ASSUME NEW m, Stands(m)
  PROVE  /\ m \in MirrorRecords /\ Fresh(m) /\ Phase(m)
         /\ m.records \in Records /\ m.made \in Records /\ m.target \in Targets
         /\ m.bodies \subseteq Body /\ m.bound \subseteq Nat /\ m.kept \subseteq Nat /\ m.todo \subseteq Ids
         /\ m.next \in Nat /\ m.jobs \in Nat
         /\ DOMAIN m.records \subseteq Ids /\ DOMAIN m.made \subseteq Ids /\ DOMAIN m.target \subseteq Ids
         /\ \A id \in DOMAIN m.records : m.records[id] \in Body /\ m.records[id].body \in Nat
         /\ \A id \in DOMAIN m.made : m.made[id] \in Body /\ m.made[id].body \in Nat
<1>1. m \in MirrorRecords /\ Fresh(m) /\ Phase(m)
  BY DEF Stands
<1>2. /\ m.records \in Records /\ m.made \in Records /\ m.target \in Targets
      /\ m.bodies \subseteq Body /\ m.bound \subseteq Nat /\ m.kept \subseteq Nat /\ m.todo \subseteq Ids
      /\ m.next \in Nat /\ m.jobs \in Nat
  BY <1>1 DEF MirrorRecords
<1> QED BY <1>1, <1>2, RecordsUse, TargetsUse

(* The bodies of settled records are the bound ones.                       *)
LEMMA BodyIdsListed ==
  ASSUME NEW m, m.bodies = Listed(m.records, DOMAIN m.records)
  PROVE  BodyIds(m) = BodiesOf(m.records)
BY DEF BodyIds, BodiesOf, Listed

LEMMA CreatedIsCreatedIn ==
  ASSUME NEW target
  PROVE  /\ Created(target) = CreatedIn(mirror.records, target)
         /\ Removed(target) = RemovedIn(mirror.records, target)
BY DEF Created, Removed, Replaced, CreatedIn, RemovedIn

LEMMA RequestStands ==
  ASSUME Stands(mirror), NEW target \in Targets, Request(target)
  PROVE  Stands(mirror')
<1> DEFINE m == mirror'
           todo == Created(target)
           kept == BodyIds(mirror)
<1>1. m = [mirror EXCEPT !.pc = "create", !.target = target, !.jobs = @ + 1, !.todo = todo, !.kept = kept]
  BY DEF Request
<1>2. mirror.pc = "idle"
  BY DEF Request, Working
<1>3. todo \subseteq DOMAIN target /\ todo = CreatedIn(mirror.records, target)
  BY CreatedIsCreatedIn DEF CreatedIn
<1>4. todo \subseteq Ids
  BY <1>3, TargetsUse
<1>5. Settled(mirror) /\ mirror.bound = BodiesOf(mirror.records)
  BY <1>2, StandsUse DEF Phase
<1>6. kept = BodiesOf(mirror.records) /\ kept \subseteq Nat
  BY <1>5, BodyIdsListed, StandsUse DEF Settled
<1> HIDE DEF todo, kept
<1>7. /\ m \in MirrorRecords /\ m.pc = "create" /\ m.target = target /\ m.todo = todo /\ m.kept = kept
      /\ m.records = mirror.records /\ m.bodies = mirror.bodies /\ m.made = mirror.made /\ m.next = mirror.next
      /\ m.bound = mirror.bound
  <2>1. mirror \in MirrorRecords /\ mirror.jobs + 1 \in Nat
    BY StandsUse
  <2> QED BY <2>1, <1>1, <1>4, <1>6 DEF MirrorRecords
<1> HIDE DEF m
<1>8. Fresh(m)
  BY <1>7, StandsUse DEF Fresh
<1>9. Candidates(m) /\ Creating(m)
  BY <1>3, <1>5, <1>7 DEF Candidates, Creating, Distinct, Settled, Listed
<1>10. Phase(m)
  BY <1>5, <1>6, <1>7, <1>9 DEF Phase
<1> QED BY <1>7, <1>8, <1>10 DEF Stands, m

(* What is still to do is finite, so its least element is one of it.       *)
LEMMA NextTodo ==
  ASSUME Stands(mirror), mirror.pc \in {"create", "remove", "update"}, mirror.todo # {}
  PROVE  Min(mirror.todo) \in mirror.todo
<1> DEFINE todo == mirror.todo
<1>1. IsFiniteSet(DOMAIN mirror.records) /\ IsFiniteSet(DOMAIN mirror.target)
  BY StandsUse, RecordsUse, TargetsUse
<1>2. todo \subseteq DOMAIN mirror.records \/ todo \subseteq DOMAIN mirror.target
  BY StandsUse DEF Phase, Creating, Removing, Updating, CreatedIn, RemovedIn
<1>3. todo \subseteq Nat
  BY StandsUse, WorkerAssumption DEF WorkerAssumption
<1> HIDE DEF todo
<1>4. IsFiniteSet(todo)
  BY <1>1, <1>2, FS_Subset
<1> QED BY <1>3, <1>4, MinIsElement DEF todo

LEMMA Extended ==
  ASSUME NEW f \in Records, NEW id \in Ids, id \notin DOMAIN f, NEW v \in Body
  PROVE  /\ With(f, id, v) \in Records
         /\ DOMAIN With(f, id, v) = DOMAIN f \cup {id}
         /\ With(f, id, v)[id] = v
         /\ \A i \in DOMAIN f : With(f, id, v)[i] = f[i]
<1> DEFINE g == With(f, id, v)
           ids == DOMAIN f \cup {id}
<1>1. /\ g = [i \in ids |-> IF i = id THEN v ELSE f[i]]
  BY DEF With
<1>2. ids \in FiniteIds
  <2>1. DOMAIN f \subseteq Ids /\ IsFiniteSet(DOMAIN f)
    BY RecordsUse
  <2> DEFINE d == DOMAIN f
  <2>2. d \subseteq Ids /\ IsFiniteSet(d) /\ ids = d \cup {id}
    BY <2>1
  <2> HIDE DEF d, ids
  <2>3. IsFiniteSet(d \cup {id})
    BY <2>2, FS_AddElement
  <2> QED BY <2>2, <2>3 DEF FiniteIds
<1>3. \A i \in DOMAIN f : f[i] \in Body
  BY RecordsUse
<1>4. g \in [ids -> Body]
  BY <1>1, <1>3
<1> HIDE DEF g
<1>5. g \in Records
  <2> HIDE DEF ids
  <2> QED BY <1>2, <1>4, RecordsMake
<1>6. DOMAIN g = ids /\ g[id] = v /\ \A i \in DOMAIN f : g[i] = f[i]
  BY <1>1
<1> QED BY <1>5, <1>6 DEF g

LEMMA AddBody ==
  ASSUME Stands(mirror), mirror.pc = "create", NEW id \in mirror.todo
  PROVE  /\ id \in DOMAIN mirror.target /\ id \in Ids /\ id \notin DOMAIN mirror.made
         /\ mirror.target[id] \in Specs
         /\ [body |-> mirror.next, spec |-> mirror.target[id]] \in Body
         /\ mirror.next + 1 \in Nat
         /\ \A v \in Body : /\ With(mirror.made, id, v) \in Records
                           /\ DOMAIN With(mirror.made, id, v) = DOMAIN mirror.made \cup {id}
                           /\ With(mirror.made, id, v)[id] = v
                           /\ \A i \in DOMAIN mirror.made : With(mirror.made, id, v)[i] = mirror.made[i]
<1>1. Creating(mirror)
  BY StandsUse DEF Phase
<1>2. id \in DOMAIN mirror.target /\ id \notin DOMAIN mirror.made
  BY <1>1 DEF Creating, CreatedIn
<1>3. id \in Ids /\ mirror.target[id] \in Specs /\ mirror.next \in Nat
  BY <1>2, StandsUse, TargetsUse
<1>4. mirror.made \in Records
  BY StandsUse
<1>5. \A v \in Body : /\ With(mirror.made, id, v) \in Records
                      /\ DOMAIN With(mirror.made, id, v) = DOMAIN mirror.made \cup {id}
                      /\ With(mirror.made, id, v)[id] = v
                      /\ \A i \in DOMAIN mirror.made : With(mirror.made, id, v)[i] = mirror.made[i]
  BY <1>2, <1>3, <1>4, Extended
<1> QED BY <1>2, <1>3, <1>5 DEF Body

LEMMA CandidateAdded ==
  ASSUME Stands(mirror), mirror.pc = "create", mirror.todo # {}, NEW id, id = Min(mirror.todo),
         NEW new, new = [body |-> mirror.next, spec |-> mirror.target[id]],
         NEW g, g = With(mirror.made, id, new),
         NEW m, m = [mirror EXCEPT !.made = g, !.todo = @ \ {id},
                                   !.bodies = @ \cup {new}, !.next = @ + 1]
  PROVE  Stands(m)
<1>1. id \in mirror.todo
  BY NextTodo
<1>2. id \in DOMAIN mirror.target /\ id \in Ids /\ id \notin DOMAIN mirror.made
      /\ new \in Body /\ mirror.next + 1 \in Nat
  BY <1>1, AddBody
<1> DEFINE f == mirror.made
           number == mirror.next
<1>3. f \in Records /\ mirror \in MirrorRecords
  BY StandsUse
<1>4. g \in Records /\ DOMAIN g = DOMAIN f \cup {id} /\ g[id] = new /\ \A i \in DOMAIN f : g[i] = f[i]
  <2>1. \A v \in Body : /\ With(f, id, v) \in Records
                        /\ DOMAIN With(f, id, v) = DOMAIN f \cup {id}
                        /\ With(f, id, v)[id] = v
                        /\ \A i \in DOMAIN f : With(f, id, v)[i] = f[i]
    BY <1>1, AddBody
  <2>2. g = With(f, id, new)
    OBVIOUS
  <2> HIDE DEF f
  <2>3. new \in Body
    BY <1>2
  <2> QED BY <2>1, <2>2, <2>3
<1>5. /\ m \in MirrorRecords /\ m.pc = "create" /\ m.target = mirror.target /\ m.todo = mirror.todo \ {id}
      /\ m.kept = mirror.kept /\ m.records = mirror.records /\ m.bodies = mirror.bodies \cup {new}
      /\ m.made = g /\ m.next = number + 1 /\ m.bound = mirror.bound
  <2>1. mirror.todo \ {id} \in SUBSET Ids /\ mirror.bodies \cup {new} \in SUBSET Body
    BY <1>2, StandsUse
  <2> QED BY <2>1, <1>2, <1>3, <1>4 DEF MirrorRecords
<1>6. Fresh(mirror) /\ Candidates(mirror) /\ Creating(mirror)
  BY StandsUse DEF Phase
<1>7. new.body = number /\ new.spec = mirror.target[id] /\ number \in Nat
  BY StandsUse
<1> HIDE DEF number
<1>8. /\ \A j \in DOMAIN m.records : mirror.records[j].body \in Nat /\ m.records[j] = mirror.records[j]
                                       /\ mirror.records[j].body < number
      /\ \A i \in DOMAIN f : f[i].body \in Nat /\ f[i].body < number
      /\ \A b \in mirror.bodies : b.body \in Nat /\ b.body < number
  <2>1. \A b \in mirror.bodies : b.body \in Nat
    BY StandsUse DEF Body
  <2> QED BY <2>1, <1>5, <1>6, StandsUse DEF Fresh, Candidates, number
<1> HIDE DEF f
<1>9. \A n \in Nat : n < number => n < number + 1 /\ n # number
  BY <1>7
<1>10. number < number + 1
  BY <1>7
<1>11. Fresh(m)
  <2>1. Distinct(m.records)
    BY <1>5, <1>6 DEF Fresh
  <2>2. \A i \in DOMAIN m.records : m.records[i].body < m.next
    BY <1>5, <1>8, <1>9
  <2>3. \A b \in m.bodies : b.body < m.next
    BY <1>5, <1>7, <1>8, <1>9, <1>10
  <2> QED BY <2>1, <2>2, <2>3 DEF Fresh
<1>12. Candidates(m)
  <2>0. DOMAIN f \subseteq DOMAIN mirror.target /\ Distinct(f)
        /\ (\A i \in DOMAIN f : f[i].spec = mirror.target[i])
        /\ \A i \in DOMAIN f, j \in DOMAIN mirror.records : f[i].body # mirror.records[j].body
    BY <1>6 DEF Candidates, f
  <2>1. Distinct(m.made)
    BY <2>0, <1>4, <1>5, <1>7, <1>8, <1>9 DEF Distinct
  <2>2. DOMAIN m.made \subseteq DOMAIN m.target
    BY <2>0, <1>2, <1>4, <1>5
  <2>3. \A i \in DOMAIN m.made : m.made[i].body < m.next /\ m.made[i].spec = m.target[i]
    BY <2>0, <1>4, <1>5, <1>7, <1>8, <1>9, <1>10
  <2>4. \A i \in DOMAIN m.made, j \in DOMAIN m.records : m.made[i].body # m.records[j].body
    BY <2>0, <1>4, <1>5, <1>7, <1>8, <1>9
  <2> QED BY <2>1, <2>2, <2>3, <2>4 DEF Candidates
<1>13. Creating(m)
  <2>1. m.todo \subseteq CreatedIn(m.records, m.target)
    BY <1>5, <1>6 DEF Creating
  <2>2. DOMAIN m.made = CreatedIn(m.records, m.target) \ m.todo
    BY <1>1, <1>4, <1>5, <1>6 DEF Creating, f
  <2>3. m.bodies = Listed(m.records, DOMAIN m.records) \cup Listed(m.made, DOMAIN m.made)
    <3>1. Listed(g, DOMAIN g) = Listed(f, DOMAIN f) \cup {new}
      BY <1>4 DEF Listed
    <3>2. mirror.bodies = Listed(mirror.records, DOMAIN mirror.records) \cup Listed(f, DOMAIN f)
      BY <1>6 DEF Creating, f
    <3> QED BY <3>1, <3>2, <1>5
  <2> QED BY <2>1, <2>2, <2>3 DEF Creating
<1>14. Phase(m)
  <2>1. mirror.bound = BodiesOf(mirror.records) /\ mirror.kept = BodiesOf(mirror.records)
    BY StandsUse DEF Phase
  <2> QED BY <2>1, <1>5, <1>12, <1>13 DEF Phase
<1> QED BY <1>5, <1>11, <1>14 DEF Stands

(* A creation that failed: what it may have left is no body of a record.   *)
LEMMA LeakedStands ==
  ASSUME Stands(mirror), mirror.pc = "create", NEW spec \in Specs,
         NEW leaked, leaked \in {{}, {[body |-> mirror.next, spec |-> spec]}},
         NEW number, number \in Nat, number >= mirror.next, leaked # {} => number = mirror.next + 1,
         NEW m, m = [mirror EXCEPT !.pc = "uncreate", !.todo = {}, !.bodies = @ \cup leaked, !.next = number]
  PROVE  Stands(m)
<1>1. \A b \in leaked : b \in Body /\ b.body = mirror.next
  BY StandsUse DEF Body
<1>2. /\ m \in MirrorRecords /\ m.pc = "uncreate" /\ m.target = mirror.target
      /\ m.kept = mirror.kept /\ m.records = mirror.records /\ m.bodies = mirror.bodies \cup leaked
      /\ m.made = mirror.made /\ m.next = number /\ m.bound = mirror.bound
  <2>1. {} \in SUBSET Ids /\ mirror.bodies \cup leaked \in SUBSET Body /\ mirror \in MirrorRecords
    BY <1>1, StandsUse
  <2> QED BY <2>1 DEF MirrorRecords
<1> DEFINE old == mirror.next
<1>3. Fresh(mirror) /\ Candidates(mirror) /\ Creating(mirror) /\ old \in Nat
      /\ mirror.kept = BodiesOf(mirror.records) /\ mirror.bound = BodiesOf(mirror.records)
  BY StandsUse DEF Phase
<1>4. /\ \A j \in DOMAIN mirror.records : mirror.records[j].body \in Nat /\ mirror.records[j].body < old
      /\ \A i \in DOMAIN mirror.made : mirror.made[i].body \in Nat /\ mirror.made[i].body < old
      /\ \A b \in mirror.bodies : b.body \in Nat /\ b.body < old
  <2>1. \A b \in mirror.bodies : b.body \in Nat
    BY StandsUse DEF Body
  <2> QED BY <2>1, <1>3, StandsUse DEF Fresh, Candidates
<1> HIDE DEF old
<1>5. \A n \in Nat : n < old => n < number /\ n # old
  BY <1>3 DEF old
<1>6. \A b \in leaked : b.body < number /\ b.body = old
  BY <1>1, <1>3 DEF old
<1>7. Fresh(m)
  BY <1>2, <1>3, <1>4, <1>5, <1>6 DEF Fresh
<1>8. Candidates(m)
  BY <1>2, <1>3, <1>4, <1>5 DEF Candidates
<1>9. Uncreating(m)
  <2> DEFINE rs == mirror.records
             ms == mirror.made
  <2>1. mirror.bodies = Listed(rs, DOMAIN rs) \cup Listed(ms, DOMAIN ms)
    BY <1>3 DEF Creating
  <2>2. Listed(m.records, DOMAIN m.records) \subseteq m.bodies
    BY <2>1, <1>2
  <2>3. \A i \in DOMAIN ms, j \in DOMAIN rs : ms[i].body # rs[j].body
    BY <1>3 DEF Candidates
  <2>4. ASSUME NEW b \in m.bodies, b.body \in m.kept PROVE b \in Listed(m.records, DOMAIN m.records)
    <3>1. PICK j \in DOMAIN rs : b.body = rs[j].body
      BY <2>4, <1>2, <1>3 DEF BodiesOf
    <3>2. b \notin leaked
      BY <3>1, <1>4, <1>5, <1>6
    <3>3. b \notin Listed(ms, DOMAIN ms)
      BY <3>1, <2>3 DEF Listed
    <3> QED BY <3>2, <3>3, <2>1, <1>2
  <2> QED BY <2>2, <2>4 DEF Uncreating
<1>10. Phase(m)
  BY <1>2, <1>3, <1>8, <1>9 DEF Phase
<1> QED BY <1>2, <1>7, <1>10 DEF Stands

LEMMA CreateBodyStands ==
  ASSUME Stands(mirror), NEW ok \in BOOLEAN, NEW leak \in BOOLEAN, CreateBody(ok, leak)
  PROVE  Stands(mirror')
<1> DEFINE id == Min(mirror.todo)
           spec == mirror.target[id]
           new == [body |-> mirror.next, spec |-> spec]
           g == With(mirror.made, id, new)
<1>1. mirror.pc = "create" /\ mirror.todo # {}
  BY DEF CreateBody, Working
<1>2. id \in mirror.todo
  BY <1>1, NextTodo
<1>3. spec \in Specs /\ mirror.next \in Nat
  <2> HIDE DEF id
  <2> QED BY <1>1, <1>2, AddBody, StandsUse
<1>4. CASE ok
  <2>1. mirror' = [mirror EXCEPT !.made = g, !.todo = @ \ {id}, !.bodies = @ \cup {new}, !.next = @ + 1]
    BY <1>4 DEF CreateBody, Adds
  <2> HIDE DEF g, new, id
  <2>2. new = [body |-> mirror.next, spec |-> mirror.target[id]] /\ g = With(mirror.made, id, new)
        /\ id = Min(mirror.todo)
    BY DEF g, new, id
  <2> QED BY <1>1, <2>1, <2>2, CandidateAdded
<1>5. CASE ~ok /\ leak
  <2>1. mirror' = [mirror EXCEPT !.pc = "uncreate", !.todo = {}, !.bodies = @ \cup {new}, !.next = @ + 1]
    BY <1>5 DEF CreateBody, Adds, Goes
  <2> DEFINE number == mirror.next + 1
             leaked == {new}
  <2>2. leaked \in {{}, {[body |-> mirror.next, spec |-> spec]}} /\ number \in Nat /\ number >= mirror.next
        /\ number = mirror.next + 1
        /\ mirror' = [mirror EXCEPT !.pc = "uncreate", !.todo = {}, !.bodies = @ \cup leaked, !.next = number]
    BY <1>3, <2>1
  <2> HIDE DEF leaked, number, new, g, id, spec
  <2> QED BY <1>1, <1>3, <2>2, LeakedStands
<1>6. CASE ~ok /\ ~leak
  <2>1. mirror' = [mirror EXCEPT !.pc = "uncreate", !.todo = {}]
    BY <1>6 DEF CreateBody, Goes
  <2> DEFINE number == mirror.next
             leaked == {}
  <2>2. mirror' = [mirror EXCEPT !.pc = "uncreate", !.todo = {}, !.bodies = @ \cup leaked, !.next = number]
    <3>1. mirror \in MirrorRecords
      BY StandsUse
    <3>2. mirror.bodies \cup leaked = mirror.bodies
      OBVIOUS
    <3>3. mirror = [mirror EXCEPT !.bodies = mirror.bodies, !.next = mirror.next]
      BY <3>1 DEF MirrorRecords
    <3> QED BY <2>1, <3>1, <3>2 DEF MirrorRecords
  <2>3. leaked \in {{}, {[body |-> mirror.next, spec |-> spec]}} /\ number \in Nat /\ number >= mirror.next
        /\ leaked = {}
    BY <1>3
  <2> HIDE DEF leaked, number, new, g, id, spec
  <2> QED BY <1>1, <1>3, <2>2, <2>3, LeakedStands
<1> QED BY <1>4, <1>5, <1>6

LEMMA UnknownStands ==
  ASSUME Unknown
  PROVE  Stands(mirror')
BY QuietStands DEF Unknown

(* A request that was rolled back: the records are the bodies again.       *)
LEMMA RecoveredStands ==
  ASSUME NEW m \in MirrorRecords, Fresh(m), m.bodies = Listed(m.records, DOMAIN m.records),
         m.bound = BodiesOf(m.records), Recovered(m)
  PROVE  Stands(mirror')
<1>1. CASE start.profile = "stage3"
  <2>1. mirror' = [m EXCEPT !.pc = "idle", !.target = NoTarget, !.kept = {}, !.todo = {}, !.made = <<>>]
    BY <1>1 DEF Recovered
  <2>2. /\ mirror' \in MirrorRecords /\ mirror'.pc = "idle" /\ mirror'.made = <<>> /\ mirror'.bodies = m.bodies
        /\ mirror'.records = m.records /\ mirror'.bound = m.bound /\ mirror'.next = m.next
    BY <2>1, EmptyFunction DEF MirrorRecords, NoTarget
  <2>3. Fresh(mirror')
    BY <2>2 DEF Fresh
  <2>4. Settled(mirror')
    BY <2>2, EmptyFunction DEF Settled
  <2>5. Phase(mirror')
    BY <2>2, <2>4 DEF Phase
  <2> QED BY <2>2, <2>3, <2>5 DEF Stands
<1>2. CASE start.profile # "stage3"
  BY <1>2, UnknownStands DEF Recovered
<1> QED BY <1>1, <1>2

LEMMA UncreateStands ==
  ASSUME Stands(mirror), NEW stays \in SUBSET CandidateBodies, Uncreate(stays)
  PROVE  Stands(mirror')
<1> DEFINE left == {b \in mirror.bodies : b.body \notin CandidateBodies \/ b.body \in stays}
           m == [mirror EXCEPT !.bodies = left]
           rs == mirror.records
           ms == mirror.made
<1>0. mirror.pc = "uncreate"
  BY DEF Uncreate, Working
<1>1. CASE ~(stays = {} /\ Restored(left))
  BY <1>1, UnknownStands DEF Uncreate
<1>2. CASE stays = {} /\ Restored(left)
  <2>1. Recovered(m)
    BY <1>2 DEF Uncreate
  <2>2. Uncreating(mirror) /\ Candidates(mirror) /\ Fresh(mirror) /\ mirror.bound = BodiesOf(rs)
    BY <1>0, StandsUse DEF Phase
  <2>3. \A j \in DOMAIN rs : rs[j].body \notin CandidateBodies
    BY <2>2 DEF Candidates, CandidateBodies
  <2>4. Listed(rs, DOMAIN rs) \subseteq left
    BY <2>2, <2>3 DEF Uncreating, Listed
  <2>5. left \subseteq Listed(rs, DOMAIN rs)
    BY <1>2, <2>2 DEF Uncreating, Restored
  <2>6. left = Listed(rs, DOMAIN rs) /\ left \subseteq mirror.bodies
    BY <2>4, <2>5
  <2> HIDE DEF left
  <2>7. m \in MirrorRecords /\ m.bodies = left /\ m.records = rs /\ m.bound = mirror.bound /\ m.next = mirror.next
    <3>1. left \in SUBSET Body /\ mirror \in MirrorRecords
      BY <2>6, StandsUse
    <3> QED BY <3>1 DEF MirrorRecords
  <2> HIDE DEF m, rs
  <2>8. Fresh(m)
    BY <2>2, <2>6, <2>7 DEF Fresh, rs
  <2> QED BY <2>1, <2>2, <2>6, <2>7, <2>8, RecoveredStands
<1> QED BY <1>1, <1>2

LEMMA CreateDoneStands ==
  ASSUME Stands(mirror), CreateDone
  PROVE  Stands(mirror')
<1> DEFINE m == mirror'
           todo == Removed(mirror.target)
           rs == mirror.records
<1>1. mirror.pc = "create" /\ mirror.todo = {} /\ m = [mirror EXCEPT !.pc = "remove", !.todo = todo]
  BY DEF CreateDone, Working, Goes
<1>2. todo = RemovedIn(rs, mirror.target) /\ todo \subseteq DOMAIN rs
  BY CreatedIsCreatedIn DEF RemovedIn
<1>3. todo \subseteq Ids
  BY <1>2, StandsUse
<1> HIDE DEF todo
<1>4. /\ m \in MirrorRecords /\ m.pc = "remove" /\ m.target = mirror.target /\ m.todo = todo
      /\ m.records = rs /\ m.bodies = mirror.bodies /\ m.made = mirror.made /\ m.next = mirror.next
  <2>1. mirror \in MirrorRecords
    BY StandsUse
  <2> QED BY <2>1, <1>1, <1>3 DEF MirrorRecords
<1> HIDE DEF m
<1>5. Fresh(mirror) /\ Candidates(mirror) /\ Creating(mirror)
  BY <1>1, StandsUse DEF Phase
<1>6. Fresh(m) /\ Candidates(m)
  BY <1>4, <1>5 DEF Fresh, Candidates
<1>7. Removing(m)
  <2>1. DOMAIN rs = DOMAIN rs \ (RemovedIn(rs, mirror.target) \ todo)
    BY <1>2
  <2> QED BY <2>1, <1>1, <1>2, <1>4, <1>5 DEF Removing, Creating
<1>8. Phase(m)
  BY <1>4, <1>6, <1>7 DEF Phase
<1> QED BY <1>4, <1>6, <1>8 DEF Stands, m

(* Only the removed record loses its body: no two have the same.           *)
LEMMA ListedWithout ==
  ASSUME NEW rs, Distinct(rs), NEW ids \in SUBSET DOMAIN rs, NEW id \in ids
  PROVE  {b \in Listed(rs, ids) : b.body # rs[id].body} = Listed(rs, ids \ {id})
BY DEF Listed, Distinct

LEMMA RemoveBodyStands ==
  ASSUME Stands(mirror), NEW ok \in BOOLEAN, NEW gone \in BOOLEAN, RemoveBody(ok, gone)
  PROVE  Stands(mirror')
<1> DEFINE m == mirror'
           id == Min(mirror.todo)
           rs == mirror.records
           ms == mirror.made
           removed == RemovedIn(rs, mirror.target)
           rest == {b \in mirror.bodies : b.body # rs[id].body}
           left == IF gone THEN rest ELSE mirror.bodies
           goal == IF ok THEN "remove" ELSE "unremove"
           todo == IF ok THEN mirror.todo \ {id} ELSE {}
<1>1. mirror.pc = "remove" /\ mirror.todo # {} /\ (ok => gone)
  BY DEF RemoveBody, Working
<1>2. m = [mirror EXCEPT !.bodies = left, !.pc = goal, !.todo = todo]
  <2>1. mirror \in MirrorRecords
    BY StandsUse
  <2>2. CASE gone
    BY <2>1, <2>2 DEF RemoveBody, Goes, Without, MirrorRecords
  <2>3. CASE ~gone
    <3>1. m = [mirror EXCEPT !.pc = goal, !.todo = todo] /\ left = mirror.bodies
      BY <1>1, <2>1, <2>3 DEF RemoveBody, Goes, Without
    <3> HIDE DEF goal, todo, left, m
    <3> QED BY <3>1, <2>1 DEF MirrorRecords
  <2> QED BY <2>2, <2>3
<1>3. id \in mirror.todo
  BY <1>1, NextTodo
<1>4. Fresh(mirror) /\ Candidates(mirror) /\ Removing(mirror)
  BY <1>1, StandsUse DEF Phase
<1>5. id \in DOMAIN rs /\ id \in removed /\ mirror.todo \subseteq removed /\ removed \subseteq DOMAIN rs
  BY <1>3, <1>4 DEF Removing, RemovedIn
<1>6. left \subseteq mirror.bodies /\ todo \subseteq mirror.todo
  OBVIOUS
<1>7. ok => todo = mirror.todo \ {id} /\ left = rest
  BY <1>1
<1>8. goal = IF ok THEN "remove" ELSE "unremove"
  OBVIOUS
<1> HIDE DEF id, left, todo, goal
<1>9. /\ m \in MirrorRecords /\ m.pc = goal /\ m.target = mirror.target /\ m.todo = todo
      /\ m.records = rs /\ m.bodies = left /\ m.made = ms /\ m.next = mirror.next
  <2>1. left \in SUBSET Body /\ todo \in SUBSET Ids /\ mirror \in MirrorRecords
    BY <1>6, StandsUse
  <2>2. goal \in {"remove", "unremove"}
    BY <1>8
  <2> QED BY <2>1, <2>2, <1>2 DEF MirrorRecords
<1> HIDE DEF m, removed
<1>10. Fresh(m) /\ Candidates(m)
  BY <1>4, <1>6, <1>9 DEF Fresh, Candidates
<1>11. ASSUME ~ok PROVE Unremoving(m)
  <2>1. mirror.bodies = Listed(rs, DOMAIN rs \ (removed \ mirror.todo)) \cup Listed(ms, DOMAIN ms)
    BY <1>4 DEF Removing, removed
  <2> QED BY <2>1, <1>6, <1>9 DEF Unremoving, Listed
<1>12. ASSUME ok PROVE Removing(m)
  <2> DEFINE kept == DOMAIN rs \ (removed \ mirror.todo)
             now == DOMAIN rs \ (removed \ todo)
  <2>1. mirror.bodies = Listed(rs, kept) \cup Listed(ms, DOMAIN ms)
    BY <1>4 DEF Removing, removed
  <2>2. id \in kept /\ kept \subseteq DOMAIN rs /\ now = kept \ {id}
    BY <1>3, <1>5, <1>7, <1>12
  <2> HIDE DEF kept, now
  <2>3. {b \in Listed(rs, kept) : b.body # rs[id].body} = Listed(rs, now)
    BY <2>2, <1>4, ListedWithout DEF Fresh
  <2>4. \A b \in Listed(ms, DOMAIN ms) : b.body # rs[id].body
    BY <1>4, <1>5 DEF Listed, Candidates
  <2>5. left = Listed(rs, now) \cup Listed(ms, DOMAIN ms)
    BY <1>7, <1>12, <2>1, <2>3, <2>4
  <2> QED BY <2>5, <1>4, <1>5, <1>6, <1>9 DEF Removing, now, removed
<1>13. Phase(m)
  BY <1>8, <1>9, <1>10, <1>11, <1>12 DEF Phase
<1> QED BY <1>9, <1>10, <1>13 DEF Stands, m

LEMMA RemoveDoneStands ==
  ASSUME Stands(mirror), RemoveDone
  PROVE  Stands(mirror')
<1> DEFINE m == mirror'
           rs == mirror.records
           todo == DOMAIN mirror.target \ DOMAIN mirror.made
<1>1. mirror.pc = "remove" /\ mirror.todo = {} /\ m = [mirror EXCEPT !.pc = "update", !.todo = todo]
  BY DEF RemoveDone, Working, Goes
<1>3. todo \subseteq Ids
  BY StandsUse
<1>4. /\ m \in MirrorRecords /\ m.pc = "update" /\ m.target = mirror.target /\ m.todo = todo
      /\ m.records = rs /\ m.bodies = mirror.bodies /\ m.made = mirror.made /\ m.next = mirror.next
  <2>1. mirror \in MirrorRecords
    BY StandsUse
  <2> HIDE DEF todo
  <2> QED BY <2>1, <1>1, <1>3 DEF MirrorRecords
<1> HIDE DEF m
<1>5. Fresh(mirror) /\ Candidates(mirror) /\ Removing(mirror)
  BY <1>1, StandsUse DEF Phase
<1>6. Fresh(m) /\ Candidates(m)
  BY <1>4, <1>5 DEF Fresh, Candidates
<1>7. Updating(m)
  BY <1>1, <1>4, <1>5 DEF Updating, Removing
<1>8. Phase(m)
  BY <1>4, <1>6, <1>7 DEF Phase
<1> QED BY <1>4, <1>6, <1>8 DEF Stands, m

LEMMA ScanStands ==
  ASSUME Stands(mirror), NEW ok \in BOOLEAN, Scan(ok)
  PROVE  Stands(mirror')
<1> DEFINE m == mirror'
<1>0. mirror.pc = "scan"
  BY DEF Scan, Working
<1>1. CASE m = [mirror EXCEPT !.pc = "idle", !.target = NoTarget]
  <2>1. /\ m \in MirrorRecords /\ m.pc = "idle" /\ m.records = mirror.records /\ m.bodies = mirror.bodies
        /\ m.made = mirror.made /\ m.next = mirror.next /\ m.bound = mirror.bound
    <3>1. mirror \in MirrorRecords /\ NoTarget \in Targets
      BY StandsUse, EmptyFunction DEF NoTarget
    <3> QED BY <3>1, <1>1 DEF MirrorRecords
  <2>2. Fresh(m)
    BY <2>1, StandsUse DEF Fresh
  <2>3. Phase(m)
    BY ZenonT(60), <2>1, <1>0, StandsUse DEF Phase, Settled
  <2> QED BY <2>1, <2>2, <2>3 DEF Stands
<1>2. CASE Unknown
  BY <1>2, UnknownStands
<1> QED BY <1>1, <1>2 DEF Scan

(* An obstacle that is neither new nor gone has kept its shape.            *)
LEMMA KeptIds ==
  ASSUME NEW rs, NEW target
  PROVE  /\ DOMAIN target \ CreatedIn(rs, target) = DOMAIN rs \ RemovedIn(rs, target)
         /\ \A id \in DOMAIN target \ CreatedIn(rs, target) :
               id \in DOMAIN rs /\ rs[id].spec.shape = target[id].shape
BY DEF CreatedIn, RemovedIn

LEMMA UpdateBodyStands ==
  ASSUME Stands(mirror), NEW ok \in BOOLEAN, UpdateBody(ok)
  PROVE  Stands(mirror')
<1> DEFINE m == mirror'
           id == Min(mirror.todo)
           spec == mirror.target[id]
           rs == mirror.records
           ms == mirror.made
           target == mirror.target
           record == [rs[id] EXCEPT !.spec = spec]
           rs2 == [rs EXCEPT ![id] = record]
           moved == Moved(mirror.bodies, rs[id].body, spec)
           todo == mirror.todo \ {id}
<1>0. mirror.pc = "update" /\ mirror.todo # {}
  BY DEF UpdateBody, Working
<1>1. CASE ~ok
  BY <1>1, UnknownStands DEF UpdateBody
<1>2. CASE ok
  <2>1. m = [mirror EXCEPT !.todo = todo, !.records = rs2, !.bodies = moved]
    BY <1>2 DEF UpdateBody
  <2>2. id \in mirror.todo
    BY <1>0, NextTodo
  <2>3. Fresh(mirror) /\ Candidates(mirror) /\ Updating(mirror)
    BY <1>0, StandsUse DEF Phase
  <2>4. moved = {IF b.body = rs[id].body THEN [b EXCEPT !.spec = spec] ELSE b : b \in mirror.bodies}
    BY DEF Moved
  <2>5. spec = target[id] /\ todo = mirror.todo \ {id}
    OBVIOUS
  <2>6. record = [rs[id] EXCEPT !.spec = spec] /\ rs2 = [rs EXCEPT ![id] = record]
    OBVIOUS
  <2> HIDE DEF id, moved, spec, rs2, todo, record
  <2>7. /\ id \in DOMAIN target /\ id \notin DOMAIN ms /\ id \in DOMAIN rs /\ rs[id].spec.shape = spec.shape
        /\ id \notin RemovedIn(rs, target)
    BY <2>2, <2>3, <2>5, KeptIds DEF Updating
  <2>8. /\ rs[id] \in Body /\ spec \in Specs /\ rs \in Records /\ mirror \in MirrorRecords
        /\ DOMAIN rs \in FiniteIds /\ rs \in [DOMAIN rs -> Body] /\ mirror.bodies \subseteq Body
    <3>1. rs \in Records /\ mirror \in MirrorRecords /\ mirror.bodies \subseteq Body /\ target \in Targets
      BY StandsUse
    <3>2. DOMAIN rs \in FiniteIds /\ rs = [k \in DOMAIN rs |-> rs[k]] /\ \A k \in DOMAIN rs : rs[k] \in Body
      BY <3>1, RecordsUse
    <3>3. spec \in Specs
      BY <3>1, <2>5, <2>7, TargetsUse
    <3>4. rs \in [DOMAIN rs -> Body]
      BY <3>2
    <3> QED BY <3>1, <3>2, <3>3, <3>4, <2>7
  <2>9. record \in Body /\ record.body = rs[id].body /\ record.spec = spec
    BY <2>6, <2>8 DEF Body
  <2>10. /\ DOMAIN rs2 = DOMAIN rs /\ rs2[id] = record /\ (\A k \in DOMAIN rs : k # id => rs2[k] = rs[k])
         /\ rs2 \in Records
    <3> HIDE DEF rs
    <3>1. DOMAIN rs2 = DOMAIN rs /\ rs2[id] = record /\ (\A k \in DOMAIN rs : k # id => rs2[k] = rs[k])
          /\ rs2 \in [DOMAIN rs -> Body]
      BY <2>6, <2>7, <2>8, <2>9
    <3> QED BY <3>1, <2>8, RecordsMake
  <2>11. \A k \in DOMAIN rs : rs2[k].body = rs[k].body
    BY <2>9, <2>10
  <2>12. moved \subseteq Body
    BY <2>4, <2>8 DEF Body
  <2>13. /\ m \in MirrorRecords /\ m.pc = "update" /\ m.target = target /\ m.todo = todo
         /\ m.records = rs2 /\ m.bodies = moved /\ m.made = ms /\ m.next = mirror.next
    <3>1. todo \in SUBSET Ids
      BY <2>5, StandsUse
    <3> QED BY <3>1, <1>0, <2>1, <2>8, <2>10, <2>12 DEF MirrorRecords
  <2> HIDE DEF m
  <2>14. \A b \in moved : \E c \in mirror.bodies : c.body = b.body
    BY <2>4, <2>8 DEF Body
  <2>15. Fresh(m)
    BY <2>3, <2>10, <2>11, <2>13, <2>14 DEF Fresh, Distinct
  <2>16. Candidates(m)
    BY <2>3, <2>10, <2>11, <2>13 DEF Candidates
  <2>17. Updating(m)
    <3>1. CreatedIn(rs2, target) = CreatedIn(rs, target)
      BY <2>5, <2>7, <2>9, <2>10 DEF CreatedIn
    <3>2. RemovedIn(rs2, target) = RemovedIn(rs, target)
      BY <2>5, <2>7, <2>9, <2>10 DEF RemovedIn
    <3>3. DOMAIN m.made = CreatedIn(m.records, m.target)
      BY <3>1, <2>3, <2>13 DEF Updating
    <3>4. m.todo \subseteq DOMAIN m.target \ DOMAIN m.made
      BY <2>3, <2>5, <2>13 DEF Updating
    <3>5. ASSUME NEW k \in (DOMAIN target \ DOMAIN ms) \ todo PROVE rs2[k].spec = target[k]
      <4>1. CASE k = id
        BY <4>1, <2>5, <2>9, <2>10
      <4>2. CASE k # id
        <5>1. k \in DOMAIN rs
          BY <2>3, KeptIds DEF Updating
        <5>2. rs[k].spec = target[k]
          BY <4>2, <2>3, <2>5 DEF Updating
        <5> QED BY <4>2, <5>1, <5>2, <2>10
      <4> QED BY <4>1, <4>2
    <3> DEFINE kept == DOMAIN rs \ RemovedIn(rs, target)
    <3>6. mirror.bodies = Listed(rs, kept) \cup Listed(ms, DOMAIN ms)
      BY <2>3 DEF Updating
    <3>7. id \in kept /\ kept \subseteq DOMAIN rs
      BY <2>7
    <3> HIDE DEF kept
    <3>8. \A k \in kept : rs[k].body = rs[id].body => k = id
      BY <3>7, <2>3 DEF Fresh, Distinct
    <3>9. \A k \in DOMAIN ms : ms[k].body # rs[id].body
      BY <2>3, <2>7 DEF Candidates
    <3>10. moved \subseteq Listed(rs2, kept) \cup Listed(ms, DOMAIN ms)
      <4>1. ASSUME NEW b \in mirror.bodies, NEW c, c = IF b.body = rs[id].body THEN [b EXCEPT !.spec = spec] ELSE b
            PROVE  c \in Listed(rs2, kept) \cup Listed(ms, DOMAIN ms)
        <5>1. CASE \E k \in kept : b = rs[k]
          <6>1. PICK k \in kept : b = rs[k]
            BY <5>1
          <6>2. c = rs2[k]
            <7>1. CASE k = id
              BY <7>1, <6>1, <4>1, <2>6, <2>10
            <7>2. CASE k # id
              BY <7>2, <6>1, <4>1, <3>7, <3>8, <2>10
            <7> QED BY <7>1, <7>2
          <6> QED BY <6>2 DEF Listed
        <5>2. CASE \E k \in DOMAIN ms : b = ms[k]
          BY <5>2, <4>1, <3>9 DEF Listed
        <5> QED BY <5>1, <5>2, <3>6 DEF Listed
      <4> QED BY <4>1, <2>4
    <3>11. Listed(rs2, kept) \subseteq moved
      <4>1. ASSUME NEW k \in kept PROVE rs2[k] \in moved
        <5>0. rs[k] \in mirror.bodies
          BY <3>6 DEF Listed
        <5>1. CASE k = id
          <6>1. rs[id] \in mirror.bodies /\ rs2[k] = [rs[id] EXCEPT !.spec = spec]
            BY <5>0, <5>1, <2>6, <2>10
          <6>2. (IF rs[id].body = rs[id].body THEN [rs[id] EXCEPT !.spec = spec] ELSE rs[id]) \in moved
            BY <6>1, <2>4
          <6> QED BY <6>1, <6>2
        <5>2. CASE k # id
          BY <5>0, <5>2, <2>4, <2>10, <3>7, <3>8
        <5> QED BY <5>1, <5>2
      <4> QED BY <4>1 DEF Listed
    <3>12. Listed(ms, DOMAIN ms) \subseteq moved
      <4>1. ASSUME NEW k \in DOMAIN ms PROVE ms[k] \in moved
        <5>0. ms[k] \in mirror.bodies
          BY <3>6 DEF Listed
        <5> QED BY <5>0, <3>9, <2>4
      <4> QED BY <4>1 DEF Listed
    <3>13. moved = Listed(rs2, kept) \cup Listed(ms, DOMAIN ms)
      BY <3>10, <3>11, <3>12
    <3>14. kept = DOMAIN rs2 \ RemovedIn(rs2, target)
      BY <3>2, <2>10 DEF kept
    <3> QED BY <3>3, <3>4, <3>5, <3>13, <3>14, <2>13 DEF Updating
  <2>18. Phase(m)
    BY <2>13, <2>16, <2>17 DEF Phase
  <2> QED BY <2>13, <2>15, <2>18 DEF Stands, m
<1> QED BY <1>1, <1>2

LEMMA BindSceneStands ==
  ASSUME Stands(mirror), NEW ok \in BOOLEAN, BindScene(ok)
  PROVE  Stands(mirror')
<1> DEFINE m == mirror'
           rs == mirror.records
           ms == mirror.made
           target == mirror.target
           ids == DOMAIN target
           now == [id \in ids |-> IF id \in DOMAIN ms THEN ms[id] ELSE rs[id]]
           bound == {now[id].body : id \in DOMAIN now}
<1>0. mirror.pc = "update" /\ mirror.todo = {}
  BY DEF BindScene, Working
<1>1. CASE ~ok
  BY <1>1, UnknownStands DEF BindScene
<1>2. CASE ok
  <2>1. m = [mirror EXCEPT !.pc = "scan", !.records = now, !.made = <<>>, !.kept = {}, !.bound = bound]
    BY <1>2 DEF BindScene
  <2>2. Fresh(mirror) /\ Candidates(mirror) /\ Updating(mirror)
    BY <1>0, StandsUse DEF Phase
  <2>3. DOMAIN now = ids /\ \A id \in ids : now[id] = IF id \in DOMAIN ms THEN ms[id] ELSE rs[id]
    OBVIOUS
  <2>4. DOMAIN ms \subseteq ids /\ DOMAIN ms = CreatedIn(rs, target)
    BY <2>2 DEF Candidates, Updating
  <2>5. /\ ids \ DOMAIN ms = DOMAIN rs \ RemovedIn(rs, target)
        /\ \A id \in ids \ DOMAIN ms : id \in DOMAIN rs /\ rs[id].spec = target[id]
    BY <2>2, <2>4, <1>0, KeptIds DEF Updating
  <2>6. \A id \in ids : now[id] \in Body /\ now[id].body \in Nat /\ now[id].spec = target[id]
    BY <2>2, <2>3, <2>4, <2>5, StandsUse DEF Candidates
  <2>7. now = [id \in ids |-> now[id]]
    OBVIOUS
  <2> HIDE DEF now
  <2>8. now \in Records
    <3>1. ids \in FiniteIds
      BY StandsUse, TargetsUse
    <3>2. now \in [ids -> Body]
      BY <2>6, <2>7
    <3> HIDE DEF ids
    <3> QED BY <3>1, <3>2, RecordsMake
  <2>9. bound = BodiesOf(now) /\ bound \subseteq Nat
    BY <2>3, <2>6 DEF BodiesOf
  <2> HIDE DEF bound
  <2>10. /\ m \in MirrorRecords /\ m.pc = "scan" /\ m.target = target /\ m.records = now
         /\ m.bodies = mirror.bodies /\ m.made = <<>> /\ m.next = mirror.next /\ m.bound = bound
    <3>1. mirror \in MirrorRecords /\ {} \in SUBSET Nat
      BY StandsUse
    <3> QED BY <3>1, <2>1, <2>8, <2>9, EmptyFunction DEF MirrorRecords
  <2> HIDE DEF m
  <2>11. Fresh(m)
    <3>1. Distinct(now)
      BY <2>2, <2>3, <2>4, <2>5 DEF Distinct, Fresh, Candidates
    <3>2. \A id \in ids : now[id].body < m.next
      BY <2>2, <2>3, <2>5, <2>10 DEF Fresh, Candidates
    <3> QED BY <3>1, <3>2, <2>2, <2>3, <2>10 DEF Fresh
  <2>12. Settled(m)
    <3>1. mirror.bodies = Listed(rs, ids \ DOMAIN ms) \cup Listed(ms, DOMAIN ms)
      BY <2>2, <2>5 DEF Updating
    <3>2. Listed(now, ids) = Listed(rs, ids \ DOMAIN ms) \cup Listed(ms, DOMAIN ms)
      BY <2>3, <2>4 DEF Listed
    <3> QED BY <3>1, <3>2, <2>3, <2>10, EmptyFunction DEF Settled
  <2>13. m.target = [id \in DOMAIN m.records |-> m.records[id].spec]
    <3>1. target = [id \in ids |-> target[id]]
      BY StandsUse, TargetsUse
    <3>2. [id \in ids |-> target[id]] = [id \in ids |-> now[id].spec]
      BY <2>6
    <3> QED BY <3>1, <3>2, <2>3, <2>10
  <2>14. Phase(m)
    BY <2>9, <2>10, <2>12, <2>13 DEF Phase
  <2> QED BY <2>10, <2>11, <2>14 DEF Stands, m
<1> QED BY <1>1, <1>2

(* The place of an element in a finite set of naturals: places rise with   *)
(* the elements and stay below the size of the set.                        *)
LEMMA PlacesRise ==
  ASSUME NEW S, S \subseteq Nat, IsFiniteSet(S)
  PROVE  /\ Cardinality(S) \in Nat
         /\ \A i \in S : /\ Cardinality({k \in S : k < i}) \in Nat
                         /\ Cardinality({k \in S : k < i}) < Cardinality(S)
         /\ \A i, j \in S : i < j => Cardinality({k \in S : k < i}) < Cardinality({k \in S : k < j})
<1> DEFINE Below(i) == {k \in S : k < i}
<1>1. \A i \in S : i \in Nat /\ ~ (i < i)
  OBVIOUS
<1>2. ASSUME NEW T, IsFiniteSet(T), NEW U \in SUBSET T, U # T
      PROVE  Cardinality(U) \in Nat /\ Cardinality(T) \in Nat /\ Cardinality(U) < Cardinality(T)
  <2>1. IsFiniteSet(U) /\ Cardinality(U) <= Cardinality(T) /\ Cardinality(T) # Cardinality(U)
    BY <1>2, FS_Subset
  <2>2. Cardinality(U) \in Nat /\ Cardinality(T) \in Nat
    BY <1>2, <2>1, FS_CardinalityType
  <2> QED BY <2>1, <2>2
<1>3. Cardinality(S) \in Nat
  BY FS_CardinalityType
<1>4. ASSUME NEW i \in S PROVE Cardinality(Below(i)) \in Nat /\ Cardinality(Below(i)) < Cardinality(S)
  <2>1. Below(i) \in SUBSET S /\ Below(i) # S
    BY <1>1
  <2> HIDE DEF Below
  <2> QED BY <1>2, <2>1
<1>5. ASSUME NEW i \in S, NEW j \in S, i < j PROVE Cardinality(Below(i)) < Cardinality(Below(j))
  <2>1. \A k \in S : k < i => k < j
    BY <1>1, <1>5
  <2>2. Below(i) \in SUBSET Below(j) /\ i \in Below(j) /\ i \notin Below(i) /\ Below(j) \in SUBSET S
    BY <1>1, <1>5, <2>1
  <2> HIDE DEF Below
  <2>3. Below(i) # Below(j) /\ IsFiniteSet(Below(j))
    BY <2>2, FS_Subset
  <2> QED BY <1>2, <2>2, <2>3
<1> QED BY <1>3, <1>4, <1>5

LEMMA UnremoveStands ==
  ASSUME Stands(mirror), NEW ok \in BOOLEAN, Unremove(ok)
  PROVE  Stands(mirror')
<1> DEFINE rs == mirror.records
           ms == mirror.made
           number == mirror.next
           left == {b \in mirror.bodies : b.body \notin CandidateBodies}
           lost == {id \in DOMAIN rs : \A b \in left : b.body # rs[id].body}
           place(id) == Cardinality({k \in lost : k < id})
           again(id) == [body |-> number + place(id), spec |-> rs[id].spec]
           now == [id \in DOMAIN rs |-> IF id \in lost THEN again(id) ELSE rs[id]]
           count == Cardinality(lost)
           bodies == left \cup {again(id) : id \in lost}
           bound == {now[id].body : id \in DOMAIN now}
           top == number + count
           m == [mirror EXCEPT !.bodies = bodies, !.records = now, !.bound = bound, !.next = top]
<1>0. mirror.pc = "unremove"
  BY DEF Unremove, Working
<1>1. CASE ~ok
  BY <1>1, UnknownStands DEF Unremove
<1>2. CASE ok
  <2>1. Recovered(m)
    BY <1>2 DEF Unremove
  <2>2. Unremoving(mirror) /\ Candidates(mirror) /\ Fresh(mirror)
    BY <1>0, StandsUse DEF Phase
  <2>3. /\ left \subseteq Listed(rs, DOMAIN rs) /\ left \subseteq mirror.bodies
    BY <2>2 DEF Unremoving, CandidateBodies, Listed
  <2>4. left = Listed(rs, DOMAIN rs \ lost)
    <3>1. ASSUME NEW b \in left PROVE b \in Listed(rs, DOMAIN rs \ lost)
      <4>1. PICK id \in DOMAIN rs : b = rs[id]
        BY <2>3 DEF Listed
      <4>2. id \notin lost
        BY <4>1, <3>1
      <4> QED BY <4>1, <4>2 DEF Listed
    <3>2. ASSUME NEW id \in DOMAIN rs \ lost PROVE rs[id] \in left
      <4>1. PICK b \in left : b.body = rs[id].body
        BY <3>2
      <4>2. PICK j \in DOMAIN rs : b = rs[j]
        BY <2>3 DEF Listed
      <4>3. j = id
        BY <4>1, <4>2, <2>2 DEF Fresh, Distinct
      <4> QED BY <4>1, <4>2, <4>3
    <3> HIDE DEF left, lost
    <3> QED BY <3>1, <3>2 DEF Listed
  <2>5. lost \subseteq DOMAIN rs /\ lost \subseteq Nat /\ IsFiniteSet(lost)
    <3>1. lost \subseteq DOMAIN rs
      OBVIOUS
    <3>2. IsFiniteSet(DOMAIN rs) /\ DOMAIN rs \subseteq Nat
      BY StandsUse, RecordsUse
    <3> HIDE DEF lost
    <3> QED BY <3>1, <3>2, FS_Subset
  <2>6. /\ count \in Nat
        /\ \A i \in lost : place(i) \in Nat /\ place(i) < count
        /\ \A i, j \in lost : i < j => place(i) < place(j)
    <3> HIDE DEF lost
    <3> QED BY <2>5, PlacesRise
  <2>7. number \in Nat
    BY StandsUse
  <2> HIDE DEF left, lost, place, count, number
  <2>8. \A i \in lost : /\ again(i).body = number + place(i) /\ again(i).spec = rs[i].spec
                        /\ again(i) = [body |-> number + place(i), spec |-> rs[i].spec]
    OBVIOUS
  <2>9. \A i \in lost : again(i).body \in Nat /\ again(i).body >= number /\ again(i).body < top
    BY <2>6, <2>7, <2>8
  <2>10. \A i, j \in lost : again(i).body = again(j).body => i = j
    <3>1. ASSUME NEW i \in lost, NEW j \in lost, again(i).body = again(j).body PROVE i = j
      <4>1. place(i) = place(j)
        BY <3>1, <2>6, <2>7, <2>8
      <4>2. ~ (i < j) /\ ~ (j < i)
        BY <4>1, <2>6
      <4>3. i \in Nat /\ j \in Nat
        BY <2>5
      <4> QED BY <4>2, <4>3
    <3> QED BY <3>1
  <2>11. top \in Nat /\ top >= number
    BY <2>6, <2>7
  <2>12. /\ rs \in Records /\ DOMAIN rs \in FiniteIds /\ mirror \in MirrorRecords
         /\ \A i \in DOMAIN rs : rs[i] \in Body /\ rs[i].body \in Nat /\ rs[i].spec \in Specs
    BY StandsUse, RecordsUse
  <2>13. \A i \in lost : again(i) \in Body
    BY <2>5, <2>8, <2>9, <2>12 DEF Body
  <2>14. \A i \in DOMAIN rs : rs[i].body < number
    BY <2>2 DEF Fresh, number
  <2> HIDE DEF again, top
  <2>15. DOMAIN now = DOMAIN rs /\ \A i \in DOMAIN rs : now[i] = IF i \in lost THEN again(i) ELSE rs[i]
    OBVIOUS
  <2>16. now \in Records
    <3>1. now \in [DOMAIN rs -> Body]
      BY <2>12, <2>13
    <3> HIDE DEF now
    <3> QED BY <3>1, <2>12, RecordsMake
  <2> HIDE DEF now
  <2>17. bodies = Listed(now, DOMAIN now)
    BY <2>4, <2>5, <2>15 DEF Listed
  <2>18. bound = BodiesOf(now) /\ bound \subseteq Nat /\ bodies \subseteq Body
    <3>1. \A i \in DOMAIN now : now[i].body \in Nat /\ now[i] \in Body
      BY <2>9, <2>12, <2>13, <2>15
    <3>2. bodies \subseteq Body
      BY <3>1, <2>17 DEF Listed
    <3> QED BY <3>1, <3>2 DEF BodiesOf
  <2> HIDE DEF bodies, bound, rs
  <2>19. m \in MirrorRecords /\ m.bodies = bodies /\ m.records = now /\ m.bound = bound /\ m.next = top
    BY <2>11, <2>12, <2>16, <2>18 DEF MirrorRecords
  <2> HIDE DEF m
  <2>20. \A i \in DOMAIN now : now[i].body < top
    <3>1. ASSUME NEW i \in DOMAIN now PROVE now[i].body < top
      <4>1. CASE i \in lost
        BY <4>1, <2>9, <2>15
      <4>2. CASE i \notin lost
        BY <4>2, <2>7, <2>11, <2>12, <2>14, <2>15
      <4> QED BY <4>1, <4>2
    <3> QED BY <3>1
  <2>21. Distinct(now)
    <3>1. ASSUME NEW i \in DOMAIN now, NEW j \in DOMAIN now, now[i].body = now[j].body PROVE i = j
      <4>1. CASE i \in lost /\ j \in lost
        BY <4>1, <3>1, <2>10, <2>15
      <4>2. CASE i \notin lost /\ j \notin lost
        BY <4>2, <3>1, <2>2, <2>15 DEF Fresh, Distinct, rs
      <4>3. CASE i \in lost /\ j \notin lost
        BY <4>3, <3>1, <2>7, <2>9, <2>12, <2>14, <2>15
      <4>4. CASE i \notin lost /\ j \in lost
        BY <4>4, <3>1, <2>7, <2>9, <2>12, <2>14, <2>15
      <4> QED BY <4>1, <4>2, <4>3, <4>4
    <3> QED BY <3>1 DEF Distinct
  <2>22. Fresh(m)
    BY <2>17, <2>19, <2>20, <2>21 DEF Fresh, Listed
  <2> QED BY <2>1, <2>17, <2>18, <2>19, <2>22, RecoveredStands
<1> QED BY <1>1, <1>2

-----------------------------------------------------------------------------
MirrorStandsNow == Stands(mirror)

(* At every step of every request, of a rollback too, the bodies of the    *)
(* child are those of its records without the removed, and the candidates; *)
(* each has one body of its own, and no body is given out twice.           *)
THEOREM MirrorStands == WorkerSpec => []MirrorStandsNow
<1>1. WorkerInit => MirrorStandsNow
  BY QuietStands DEF WorkerInit, MirrorStandsNow
<1>2. MirrorStandsNow /\ [WorkerNext]_workerVars => MirrorStandsNow'
  <2> SUFFICES ASSUME Stands(mirror), [WorkerNext]_workerVars PROVE Stands(mirror')
    BY DEF MirrorStandsNow
  <2>0. CASE UNCHANGED mirror
    BY <2>0
  <2>1. CASE WorkerChild
    <3>1. UNCHANGED mirror \/ mirror' = Quiet
      BY <2>1 DEF WorkerChild, Bootstrap, SayReady, Die, CoordinatorReads, CoordinatorReady
    <3> QED BY <3>1, QuietStands
  <2>2. CASE Parent
    <3>1. UNCHANGED mirror \/ \E built \in Targets : mirror' = BuiltMirror(built)
      BY <2>2 DEF Parent, SpawnChild, ReceiveEnvelope, ReceiveNothing, ReceiveReady, Reap, Reaped
    <3> QED BY <3>1, BuiltStands
  <2>3. CASE ForceClosed
    BY <2>3, QuietStands DEF ForceClosed
  <2>4. CASE Reconcile
    BY <2>4, RequestStands, CreateBodyStands, RemoveBodyStands, UncreateStands, UnremoveStands, UpdateBodyStands,
       BindSceneStands, ScanStands, CreateDoneStands, RemoveDoneStands DEF Reconcile
  <2> QED BY <2>0, <2>1, <2>2, <2>3, <2>4 DEF WorkerNext, workerVars
<1> QED BY <1>1, <1>2, PTL DEF WorkerSpec

(* As many different records as there are obstacles.                       *)
LEMMA AsManyRecords ==
  ASSUME NEW rs \in Records, Distinct(rs)
  PROVE  Cardinality({rs[id] : id \in DOMAIN rs}) = Cardinality(DOMAIN rs)
<1> DEFINE all == {rs[id] : id \in DOMAIN rs}
           ids == DOMAIN rs
<1>1. rs = [id \in ids |-> rs[id]] /\ IsFiniteSet(ids)
  BY RecordsUse
<1>2. rs \in [ids -> all] /\ \A b \in all : \E id \in ids : rs[id] = b
  BY <1>1
<1>3. \A i, j \in ids : rs[i] = rs[j] => i = j
  BY DEF Distinct
<1> HIDE DEF all, ids
<1>4. rs \in Surjection(ids, all) /\ rs \in Injection(ids, all)
  BY <1>2, <1>3 DEF Surjection, Injection, IsInjective
<1> QED BY <1>1, <1>4, FS_Surjection DEF all, ids

(* Whatever fails in a request and is rolled back, for any obstacles,      *)
(* shapes and number of scans: the child scans exactly the obstacles of    *)
(* the request, and between requests its records are its world.            *)
THEOREM ScansExactlyTheRequested == WorkerSpec => []MirrorIsExact
<1>1. MirrorStandsNow => MirrorIsExact
  <2> SUFFICES ASSUME Stands(mirror), mirror.pc \in {"idle", "scan"}
               PROVE  /\ mirror.bodies = {mirror.records[id] : id \in DOMAIN mirror.records}
                      /\ Cardinality({mirror.records[id] : id \in DOMAIN mirror.records})
                           = Cardinality(DOMAIN mirror.records)
                      /\ mirror.bound = BodyIds(mirror)
                      /\ mirror.pc = "scan" =>
                            mirror.target = [id \in DOMAIN mirror.records |-> mirror.records[id].spec]
    BY DEF MirrorIsExact, MirrorStandsNow
  <2>1. Settled(mirror) /\ mirror.bound = BodiesOf(mirror.records) /\ Distinct(mirror.records)
        /\ (mirror.pc = "scan" => mirror.target = [id \in DOMAIN mirror.records |-> mirror.records[id].spec])
    BY StandsUse DEF Phase, Fresh
  <2>2. mirror.bodies = Listed(mirror.records, DOMAIN mirror.records)
    BY <2>1 DEF Settled
  <2>3. mirror.bound = BodyIds(mirror)
    BY <2>1, <2>2, BodyIdsListed
  <2>4. mirror.records \in Records
    BY StandsUse
  <2>5. Cardinality({mirror.records[id] : id \in DOMAIN mirror.records}) = Cardinality(DOMAIN mirror.records)
    BY <2>1, <2>4, AsManyRecords
  <2> QED BY <2>1, <2>2, <2>3, <2>5 DEF Listed
<1> QED BY <1>1, MirrorStands, PTL
=============================================================================
