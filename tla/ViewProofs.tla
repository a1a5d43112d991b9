----------------------------- MODULE ViewProofs -----------------------------
(***************************************************************************)
(* Proofs about the two observers of the traffic, the live view and the    *)
(* recorder, for any number of worlds, messages and samples, any length of *)
(* the queues and any retention of clouds.                                 *)
(*                                                                         *)
(* ScreenIsCoherent is not inductive: what the GUI thread draws it took    *)
(* from a store some steps ago.  The invariant orders the worlds of queue, *)
(* work, store, snapshot, cloud and widget, and says which sample a store  *)
(* may hold by the last message of its topic.                              *)
(*                                                                         *)
(* RecordingSound speaks of finished captures; the invariant behind it of  *)
(* every step on the way: the accepted frames are the written ones, then   *)
(* the frame the loop holds, then the queue, and the loop's place bounds   *)
(* what is sealed, named and durable.  For the interactive window it keeps *)
(* the open window apart from the log: what is pending lies after the last *)
(* boundary, the log before it and in order, and every frame shown to the  *)
(* window is in the log, pending or older than the first boundary.         *)
(***************************************************************************)
EXTENDS DashboardView, Recorder, SequenceTheorems, FiniteSetTheorems,
        WellFoundedInduction, TLAPS

-----------------------------------------------------------------------------
(* The dashboard.  The screen cannot go back to an earlier world because   *)
(* the receiver opens a new store before it writes anything of a new world *)
(* and drops the old cloud before that: whatever the GUI thread has got    *)
(* hold of, store or cloud, it is not behind the widget.                   *)
ViewMsgs == (Nat \ {0}) \X (Nat \ {0})
ViewCells == ViewMsgs \cup {NoMsg}
ViewQueues == [ViewTopics -> ViewCells]
ViewWork == ViewTopics \X ViewMsgs
StoreRecords == [world : Nat, wheel : Nat, lidar : Nat]
ReceiverRecords ==
    [queue : ViewQueues, work : Seq(ViewWork), pc : {"idle", "switched", "valid", "cloud"},
     world : Nat, last : [ViewTopics -> Nat], samples : SUBSET (ViewTopics \X Nat),
     store : Nat \ {0}, cloud : ViewCells, closed : BOOLEAN]
GuiRecords ==
    [pc : {"idle", "refresh", "cloud"}, ref : Nat, world : Nat, frames : Seq(ViewCells),
     last : ViewCells, snap : StoreRecords, open : BOOLEAN, pending : BOOLEAN, cool : BOOLEAN,
     failed : BOOLEAN, mode : {"all", "current"}, edits : Nat,
     canvas : [frame : ViewCells, mode : {"all", "current"}], down : BOOLEAN]
RenderTasks ==
    [state : {"none", "running", "done", "raised"}, current : BOOLEAN, frame : ViewCells,
     mode : {"all", "current"}]

ViewTypes ==
    /\ viewBus \in [world : Nat \ {0}, seq : [ViewTopics -> Nat]]
    /\ raw \in [queue : ViewQueues, closed : BOOLEAN]
    /\ rx \in ReceiverRecords
    /\ stores \in Seq(StoreRecords) /\ Len(stores) = rx.store
    /\ gui \in GuiRecords
    /\ render \in RenderTasks

(* What the receiver works on is of its world.  Its store has nothing of   *)
(* another world and no store is ahead of it.                              *)
ReceiverStands ==
    /\ rx.pc # "idle" => rx.work # <<>> /\ RxMsg[1] = rx.world
    /\ \A k \in 1..Len(stores) : stores[k].world <= rx.world
    /\ stores[rx.store].world \in {0, rx.world}
    /\ rx.pc = "switched" => stores[rx.store].world = 0

(* The cloud is ahead of every store and of the widget; it is of an older  *)
(* world only while the store of the new one is empty.                     *)
CloudStands ==
    rx.cloud # NoMsg =>
        /\ rx.world # 0 /\ rx.cloud[1] <= rx.world /\ gui.world <= rx.cloud[1]
        /\ rx.pc # "switched" => rx.cloud[1] = rx.world
        /\ \A k \in 1..Len(stores) : stores[k].world <= rx.cloud[1]

(* The store that the GUI thread has in its hand is not behind the widget. *)
WidgetBehind ==
    /\ gui.world <= rx.world
    /\ gui.pc = "refresh" => /\ gui.ref \in 1..Len(stores)
                             /\ stores[gui.ref].world = 0 \/ gui.world <= stores[gui.ref].world

(* A task that may still be shown has the input the user asked for.        *)
RenderStands ==
    /\ gui.failed => render.state = "none"
    /\ render.state # "none" /\ render.current /\ gui.open =>
          render.frame = gui.last /\ render.mode = gui.mode

ViewInv ==
    /\ ViewTypes /\ ReceiverStands /\ CloudStands /\ WidgetBehind /\ RenderStands
    /\ OneWorldOnScreen /\ SnapshotNotAhead

ScreenStep ==
    /\ gui'.canvas # gui.canvas => gui'.canvas = [frame |-> gui.last, mode |-> gui.mode]
    /\ gui'.world >= gui.world
-----------------------------------------------------------------------------
LEMMA NoMsgIsNone == NoMsg \notin ViewMsgs /\ NoMsg \in ViewCells
  BY DEF NoMsg, ViewMsgs, ViewCells

LEMMA CellTypes == ASSUME NEW m \in ViewCells PROVE m = <<m[1], m[2]>> /\ m[1] \in Nat /\ m[2] \in Nat
  BY DEF NoMsg, ViewMsgs, ViewCells

LEMMA MsgTypes == ASSUME NEW m \in ViewMsgs
                  PROVE m[1] \in Nat \ {0} /\ m[2] \in Nat \ {0} /\ m # NoMsg /\ m \in ViewCells
  BY DEF NoMsg, ViewMsgs, ViewCells

(* The sequence of a finite set has only its elements.                     *)
LEMMA SetToSeqOf ==
  ASSUME NEW S, IsFiniteSet(S)
  PROVE  SetToSeq(S) \in Seq(S)
  <1>1. Cardinality(S) \in Nat /\ ExistsBijection(1..Cardinality(S), S)
    BY FS_CardinalityType
  <1>2. PICK f \in [1..Cardinality(S) -> S] : IsInjective(f)
    BY <1>1 DEF ExistsBijection, Bijection, Injection, IsInjective
  <1>3. SetToSeq(S) \in [1..Cardinality(S) -> S]
    BY <1>2 DEF SetToSeq
  <1> QED BY <1>1, <1>3, SeqDef

LEMMA BatchTypes ==
  ASSUME NEW q \in ViewQueues
  PROVE  Batch(q) \in Seq(ViewWork)
  <1> DEFINE T == {u \in ViewTopics : q[u] # NoMsg}
             S == {<<t, q[t]>> : t \in T}
  <1>1. IsFiniteSet(ViewTopics)
    BY ViewAssumption, FS_Singleton, FS_Union DEF ViewTopics
  <1>2. IsFiniteSet(T)
    BY <1>1, FS_Subset
  <1>3. IsFiniteSet(S)
    <2> DEFINE f == [t \in T |-> <<t, q[t]>>]
    <2>1. f \in Surjection(T, S)
      BY DEF Surjection
    <2> HIDE DEF f, S, T
    <2> QED BY <2>1, <1>2, FS_Surjection DEF ExistsSurjection
  <1>4. S \subseteq ViewWork
    <2> SUFFICES ASSUME NEW t \in T PROVE <<t, q[t]>> \in ViewWork
      OBVIOUS
    <2>1. q[t] \in ViewCells /\ q[t] # NoMsg /\ t \in ViewTopics
      BY DEF ViewQueues
    <2> QED BY <2>1 DEF ViewWork, ViewCells
  <1>5. Batch(q) = SetToSeq(S)
    BY DEF Batch
  <1> HIDE DEF S
  <1> QED BY <1>3, <1>4, <1>5, SetToSeqOf, SeqMonotonic

(* What a render request leaves alone, and what it makes of the task.      *)
LEMMA RendersFacts ==
  ASSUME NEW g \in GuiRecords, NEW j \in RenderTasks, NEW force \in BOOLEAN, Renders(g, j, force)
  PROVE  /\ gui' \in GuiRecords /\ render' \in RenderTasks
         /\ gui'.pc = g.pc /\ gui'.ref = g.ref /\ gui'.world = g.world /\ gui'.frames = g.frames
         /\ gui'.last = g.last /\ gui'.snap = g.snap /\ gui'.open = g.open
         /\ gui'.failed = g.failed /\ gui'.mode = g.mode /\ gui'.canvas = g.canvas
         /\ (g.failed \/ ~g.open) => render' = j
         /\ ~g.failed /\ g.open /\ render'.state # "none" /\ render'.current =>
                render'.frame = g.last /\ render'.mode = g.mode
  <1>1. CASE g.failed \/ ~g.open
    <2>1. gui' = g /\ render' = j
      BY <1>1 DEF Renders, RenderCloud
    <2> QED BY <1>1, <2>1
  <1>2. CASE ~(g.failed \/ ~g.open) /\ j.state # "none"
    <2>1. gui' = [g EXCEPT !.pending = TRUE] /\ render' = [j EXCEPT !.current = FALSE]
      BY <1>2 DEF Renders, RenderCloud, Overtaken
    <2> QED BY <1>2, <2>1 DEF GuiRecords, RenderTasks
  <1>3. CASE ~(g.failed \/ ~g.open) /\ j.state = "none" /\ ~force /\ g.cool
    <2>1. gui' = g /\ render' = j
      BY <1>3 DEF Renders, RenderCloud
    <2> QED BY <1>3, <2>1
  <1>4. CASE ~(g.failed \/ ~g.open) /\ j.state = "none" /\ ~(~force /\ g.cool)
    <2>1. /\ gui' = [g EXCEPT !.cool = TRUE]
          /\ render' = [state |-> "running", current |-> TRUE, frame |-> g.last, mode |-> g.mode]
      BY <1>4 DEF Renders, RenderCloud, Submitted
    <2> QED BY <1>4, <2>1 DEF GuiRecords, RenderTasks
  <1> QED BY <1>1, <1>2, <1>3, <1>4
LEMMA WorkTypes ==
  ASSUME ViewTypes, rx.work # <<>>
  PROVE  RxTopic \in ViewTopics /\ RxMsg \in ViewMsgs /\ Tail(rx.work) \in Seq(ViewWork)
  <1>1. rx.work \in Seq(ViewWork)
    BY DEF ViewTypes, ReceiverRecords
  <1>2. Head(rx.work) \in ViewWork /\ Tail(rx.work) \in Seq(ViewWork)
    BY <1>1, HeadTailProperties
  <1> QED BY <1>2 DEF RxTopic, RxMsg, ViewWork

(* The invariant does not depend on the bus and on what the observer has.  *)
LEMMA ViewRests ==
  ASSUME ViewInv, UNCHANGED <<rx, stores, gui, render>>,
         viewBus' \in [world : Nat \ {0}, seq : [ViewTopics -> Nat]],
         raw' \in [queue : ViewQueues, closed : BOOLEAN]
  PROVE  ViewInv' /\ ScreenStep
  <1>1. gui'.world >= gui.world /\ gui'.canvas = gui.canvas
    BY DEF ViewInv, ViewTypes, GuiRecords
  <1>2. ViewTypes'
    BY DEF ViewInv, ViewTypes
  <1> QED BY <1>1, <1>2 DEF ViewInv, ReceiverStands, CloudStands, WidgetBehind, RenderStands,
          OneWorldOnScreen, SnapshotNotAhead, ScreenStep, RxMsg

(* The steps of the receiver leave the screen alone.                       *)
LEMMA ReceiverRests ==
  ASSUME ViewInv, UNCHANGED <<viewBus, raw, gui, render>>,
         rx' \in ReceiverRecords, stores' \in Seq(StoreRecords), Len(stores') = rx'.store,
         ReceiverStands', CloudStands', WidgetBehind'
  PROVE  ViewInv' /\ ScreenStep
  <1>1. gui'.world >= gui.world /\ gui'.canvas = gui.canvas
    BY DEF ViewInv, ViewTypes, GuiRecords
  <1>2. ViewTypes'
    BY DEF ViewInv, ViewTypes
  <1> QED BY <1>1, <1>2 DEF ViewInv, RenderStands, OneWorldOnScreen, SnapshotNotAhead, ScreenStep

LEMMA ViewInitially == ViewInit => ViewInv
  <1> SUFFICES ASSUME ViewInit PROVE ViewInv
    OBVIOUS
  <1>1. NoTopic \in ViewQueues
    BY NoMsgIsNone DEF NoTopic, ViewQueues
  <1>2. EmptyStore \in StoreRecords /\ EmptyStore.world = 0
    BY DEF EmptyStore, StoreRecords
  <1>3. <<>> \in Seq(ViewWork) /\ <<>> \in Seq(ViewCells) /\ Len(<<>>) = 0
    OBVIOUS
  <1>4. stores \in Seq(StoreRecords) /\ Len(stores) = 1 /\ stores[1] = EmptyStore
    BY <1>2 DEF ViewInit
  <1>5. ViewTypes
    <2>1. rx \in ReceiverRecords /\ rx.store = 1
      BY <1>1, <1>3, NoMsgIsNone DEF ViewInit, ReceiverRecords
    <2>2. gui \in GuiRecords
      BY <1>2, <1>3, NoMsgIsNone DEF ViewInit, GuiRecords
    <2>3. render \in RenderTasks
      BY NoMsgIsNone DEF ViewInit, NoRender, RenderTasks
    <2>4. viewBus \in [world : Nat \ {0}, seq : [ViewTopics -> Nat]]
      BY DEF ViewInit
    <2>5. raw \in [queue : ViewQueues, closed : BOOLEAN]
      BY <1>1 DEF ViewInit
    <2> QED BY <2>1, <2>2, <2>3, <2>4, <2>5, <1>4 DEF ViewTypes
  <1>6. ReceiverStands /\ CloudStands
    BY <1>2, <1>4 DEF ViewInit, ReceiverStands, CloudStands
  <1>7. WidgetBehind /\ RenderStands /\ OneWorldOnScreen /\ SnapshotNotAhead
    BY <1>2, <1>3 DEF ViewInit, WidgetBehind, RenderStands, NoRender, OneWorldOnScreen, SnapshotNotAhead
  <1> QED BY <1>5, <1>6, <1>7 DEF ViewInv

LEMMA ObserverKeeps ==
  ASSUME ViewInv, NEW refused, ObserverWorks(refused)
  PROVE  ViewInv' /\ ScreenStep
  <1> DEFINE q == [t \in ViewTopics |->
                     IF raw.queue[t] = NoMsg \/ t = refused THEN rx.queue[t] ELSE raw.queue[t]]
  <1>1. q \in ViewQueues /\ NoTopic \in ViewQueues
    BY NoMsgIsNone DEF ViewInv, ViewTypes, ReceiverRecords, ViewQueues, NoTopic
  <1>2. raw' \in [queue : ViewQueues, closed : BOOLEAN]
    BY <1>1 DEF ViewInv, ViewTypes, ObserverWorks
  <1>3. rx' = rx \/ rx' = [rx EXCEPT !.queue = q]
    BY DEF ObserverWorks
  <1>4. UNCHANGED <<viewBus, stores, gui, render>>
    BY DEF ObserverWorks
  <1> HIDE DEF q
  <1>5. rx' \in ReceiverRecords /\ rx'.work = rx.work /\ rx'.pc = rx.pc /\ rx'.world = rx.world
        /\ rx'.store = rx.store /\ rx'.cloud = rx.cloud
    BY ZenonT(60), <1>1, <1>3 DEF ViewInv, ViewTypes, ReceiverRecords
  <1>6. ViewTypes'
    BY <1>2, <1>4, <1>5 DEF ViewInv, ViewTypes
  <1>7. ReceiverStands' /\ CloudStands' /\ WidgetBehind'
    BY <1>4, <1>5 DEF ViewInv, ReceiverStands, CloudStands, WidgetBehind, RxMsg
  <1>8. gui'.world >= gui.world /\ gui'.canvas = gui.canvas
    BY <1>4 DEF ViewInv, ViewTypes, GuiRecords
  <1> QED BY <1>4, <1>6, <1>7, <1>8 DEF ViewInv, RenderStands, OneWorldOnScreen, SnapshotNotAhead, ScreenStep

LEMMA TakesKeeps == ViewInv /\ ReceiverTakes => ViewInv' /\ ScreenStep
  <1> SUFFICES ASSUME ViewInv, ReceiverTakes PROVE ViewInv' /\ ScreenStep
    OBVIOUS
  <1>1. rx.queue \in ViewQueues /\ NoTopic \in ViewQueues
    BY NoMsgIsNone DEF ViewInv, ViewTypes, ReceiverRecords, ViewQueues, NoTopic
  <1>2. Batch(rx.queue) \in Seq(ViewWork)
    BY <1>1, BatchTypes
  <1>3. /\ rx' = [rx EXCEPT !.work = Batch(rx.queue), !.queue = NoTopic]
        /\ UNCHANGED <<viewBus, raw, stores, gui, render>> /\ rx.pc = "idle"
    BY DEF ReceiverTakes
  <1>4. rx' \in ReceiverRecords /\ rx'.pc = rx.pc /\ rx'.world = rx.world
        /\ rx'.store = rx.store /\ rx'.cloud = rx.cloud
    BY <1>1, <1>2, <1>3 DEF ViewInv, ViewTypes, ReceiverRecords
  <1>5. ReceiverStands' /\ CloudStands' /\ WidgetBehind'
    BY <1>3, <1>4 DEF ViewInv, ReceiverStands, CloudStands, WidgetBehind
  <1> QED BY <1>3, <1>4, <1>5, ReceiverRests DEF ViewInv, ViewTypes

LEMMA ValidateKeeps == ViewInv /\ Validate => ViewInv' /\ ScreenStep
  <1> SUFFICES ASSUME ViewInv, Validate PROVE ViewInv' /\ ScreenStep
    OBVIOUS
  <1> DEFINE w == RxMsg[1]
             next == [rx EXCEPT !.pc = "valid", !.world = w, !.last[RxTopic] = RxMsg[2]]
  <1>1. rx.pc = "idle" /\ rx.work # <<>> /\ UNCHANGED <<viewBus, raw, gui, render>>
    BY DEF Validate
  <1>2. RxTopic \in ViewTopics /\ RxMsg \in ViewMsgs /\ Tail(rx.work) \in Seq(ViewWork)
        /\ w \in Nat \ {0} /\ RxMsg[2] \in Nat
    BY <1>1, WorkTypes, MsgTypes DEF ViewInv
  <1>3. next \in ReceiverRecords /\ next.pc = "valid" /\ next.world = w /\ next.work = rx.work
        /\ next.store = rx.store /\ next.cloud = rx.cloud
    BY <1>2 DEF ViewInv, ViewTypes, ReceiverRecords
  <1>4. CASE rx' = Refused /\ stores' = stores
    <2>1. rx' \in ReceiverRecords /\ rx'.pc = "idle" /\ rx'.world = rx.world
          /\ rx'.store = rx.store /\ rx'.cloud = rx.cloud
      BY <1>1, <1>2, <1>4 DEF ViewInv, ViewTypes, ReceiverRecords, Refused
    <2>2. ReceiverStands' /\ CloudStands' /\ WidgetBehind'
      BY <1>1, <1>4, <2>1 DEF ViewInv, ReceiverStands, CloudStands, WidgetBehind
    <2> QED BY <1>1, <1>4, <2>1, <2>2, ReceiverRests DEF ViewInv, ViewTypes
  <1>5. CASE rx.world \in {0, w} /\ rx' = next /\ stores' = stores
    <2>1. rx'.pc = "valid" /\ rx'.work = rx.work /\ rx'.world = w /\ rx'.store = rx.store
          /\ rx'.cloud = rx.cloud /\ rx' \in ReceiverRecords /\ RxMsg' = RxMsg
      BY <1>3, <1>5 DEF RxMsg
    <2>2. rx.store \in 1..Len(stores) /\ \A k \in 1..Len(stores) : stores[k].world \in Nat
      <3>1. \A k \in 1..Len(stores) : stores[k] \in StoreRecords
        BY ElementOfSeq DEF ViewInv, ViewTypes
      <3> QED BY <3>1 DEF ViewInv, ViewTypes, ReceiverRecords, StoreRecords
    <2>3. ReceiverStands'
      BY <1>1, <1>2, <1>5, <2>1, <2>2 DEF ViewInv, ReceiverStands
    <2>4. CloudStands'
      BY <1>1, <1>2, <1>5, <2>1 DEF ViewInv, CloudStands
    <2>5. WidgetBehind'
      BY SMTT(30), <1>1, <1>2, <1>5, <2>1 DEF ViewInv, WidgetBehind, ViewTypes, GuiRecords
    <2> QED BY <1>1, <1>5, <2>1, <2>3, <2>4, <2>5, ReceiverRests DEF ViewInv, ViewTypes
  <1>6. CASE /\ rx.world # 0 /\ rx.world # w /\ ~(w < rx.world)
             /\ rx' = [next EXCEPT !.pc = "switched", !.samples = {},
                            !.last = [t \in ViewTopics |-> IF t = RxTopic THEN RxMsg[2] ELSE 0],
                            !.store = @ + 1]
             /\ stores' = Append(stores, EmptyStore)
    <2>1. rx.world \in Nat /\ rx.store \in Nat \ {0} /\ w > rx.world
      BY <1>2, <1>6 DEF ViewInv, ViewTypes, ReceiverRecords
    <2>2. rx' \in ReceiverRecords /\ rx'.pc = "switched" /\ rx'.work = rx.work /\ rx'.world = w
          /\ rx'.store = rx.store + 1 /\ rx'.cloud = rx.cloud
      <3>1. [t \in ViewTopics |-> IF t = RxTopic THEN RxMsg[2] ELSE 0] \in [ViewTopics -> Nat]
        BY <1>2
      <3> DEFINE last == [t \in ViewTopics |-> IF t = RxTopic THEN RxMsg[2] ELSE 0]
                 n == next.store + 1
      <3>2. n \in Nat \ {0} /\ n = rx.store + 1
        BY <1>3, <2>1
      <3>3. rx' = [next EXCEPT !.pc = "switched", !.samples = {}, !.last = last, !.store = n]
        BY <1>6
      <3> HIDE DEF next, last, n, w
      <3> QED BY <1>3, <3>1, <3>2, <3>3 DEF ReceiverRecords, last
    <2>3. EmptyStore \in StoreRecords /\ EmptyStore.world = 0
      BY DEF EmptyStore, StoreRecords
    <2>4. stores \in Seq(StoreRecords) /\ Len(stores) = rx.store
      BY DEF ViewInv, ViewTypes
    <2>5. /\ stores' \in Seq(StoreRecords) /\ Len(stores') = rx.store + 1
          /\ \A k \in 1..Len(stores) : stores'[k] = stores[k] /\ stores[k] \in StoreRecords
          /\ stores'[rx.store + 1] = EmptyStore
      BY <1>6, <2>3, <2>4, AppendProperties, ElementOfSeq
    <2>6. \A k \in 1..Len(stores') : k \in 1..Len(stores) \/ k = rx.store + 1
      BY <2>1, <2>4, <2>5
    <2>7. RxMsg' = RxMsg
      BY <2>2 DEF RxMsg
    <2>8. \A k \in 1..Len(stores) : stores[k].world <= rx.world /\ stores[k].world \in Nat
      BY <2>5 DEF ViewInv, ReceiverStands, StoreRecords
    <2>9. ReceiverStands'
      <3>1. \A k \in 1..Len(stores') : stores'[k].world <= rx'.world
        <4> SUFFICES ASSUME NEW k \in 1..Len(stores') PROVE stores'[k].world <= w
          BY <2>2
        <4>1. CASE k \in 1..Len(stores)
          <5>1. stores'[k].world <= rx.world /\ stores'[k].world \in Nat
            BY <4>1, <2>5, <2>8
          <5> HIDE DEF w
          <5> QED BY <1>2, <2>1, <5>1
        <4>2. CASE k = rx.store + 1
          BY <1>2, <4>2, <2>3, <2>5
        <4> QED BY <4>1, <4>2, <2>6
      <3>2. stores'[rx'.store].world = 0
        BY <2>2, <2>3, <2>5
      <3>3. rx'.work # <<>> /\ RxMsg'[1] = rx'.world
        BY <1>1, <2>2, <2>7
      <3> QED BY <3>1, <3>2, <3>3 DEF ReceiverStands
    <2>10. CloudStands'
      <3> SUFFICES ASSUME rx'.cloud # NoMsg PROVE CloudStands'
        BY DEF CloudStands
      <3>1. /\ rx.cloud[1] <= rx.world /\ gui.world <= rx.cloud[1] /\ rx.cloud[1] \in Nat
            /\ \A k \in 1..Len(stores) : stores[k].world <= rx.cloud[1]
        BY <2>2, CellTypes DEF ViewInv, CloudStands, ViewTypes, ReceiverRecords
      <3>2. \A k \in 1..Len(stores') : stores'[k].world <= rx'.cloud[1]
        BY <2>2, <2>3, <2>5, <2>6, <3>1
      <3> QED BY <1>1, <1>2, <2>1, <2>2, <3>1, <3>2 DEF CloudStands
    <2>11. WidgetBehind'
      <3>1. gui.world \in Nat
        BY DEF ViewInv, ViewTypes, GuiRecords
      <3> QED BY SMTT(30), <1>1, <1>2, <2>1, <2>2, <2>4, <2>5, <3>1 DEF ViewInv, WidgetBehind
    <2> QED BY <1>1, <2>2, <2>5, <2>9, <2>10, <2>11, ReceiverRests
  <1> QED BY <1>4, <1>5, <1>6 DEF Validate

LEMMA CloudDropped == ViewInv /\ DropOldCloud => ViewInv' /\ ScreenStep
  <1> SUFFICES ASSUME ViewInv, DropOldCloud PROVE ViewInv' /\ ScreenStep
    OBVIOUS
  <1>1. /\ rx' = [rx EXCEPT !.pc = "valid", !.cloud = NoMsg] /\ rx.pc = "switched"
        /\ UNCHANGED <<viewBus, raw, stores, gui, render>>
    BY DEF DropOldCloud
  <1>2. /\ rx' \in ReceiverRecords /\ rx'.cloud = NoMsg /\ rx'.work = rx.work
        /\ rx'.world = rx.world /\ rx'.store = rx.store /\ rx'.pc = "valid"
    BY <1>1, NoMsgIsNone DEF ViewInv, ViewTypes, ReceiverRecords
  <1>3. ReceiverStands' /\ CloudStands' /\ WidgetBehind'
    BY <1>1, <1>2 DEF ViewInv, ReceiverStands, CloudStands, WidgetBehind, RxMsg
  <1> QED BY <1>1, <1>2, <1>3, ReceiverRests DEF ViewInv, ViewTypes

(* A store that is written is that of the receiver's world.                *)
LEMMA StoreWritten ==
  ASSUME ViewInv, rx.pc = "valid", UNCHANGED <<viewBus, raw, gui, render>>,
         NEW r \in StoreRecords, r.world = rx.world,
         stores' = [stores EXCEPT ![rx.store] = r],
         rx' \in ReceiverRecords, rx'.world = rx.world, rx'.store = rx.store, rx'.cloud = rx.cloud,
         rx'.pc # "switched", rx'.pc # "idle" => rx'.work = rx.work
  PROVE  ViewInv' /\ ScreenStep
  <1>1. stores \in Seq(StoreRecords) /\ Len(stores) = rx.store /\ rx.store \in 1..Len(stores)
    BY DEF ViewInv, ViewTypes, ReceiverRecords
  <1>2. /\ stores' \in Seq(StoreRecords) /\ Len(stores') = Len(stores)
        /\ \A k \in 1..Len(stores) : stores'[k] = IF k = rx.store THEN r ELSE stores[k]
    BY <1>1, ExceptSeq
  <1>3. rx.world \in Nat /\ gui.world \in Nat /\ gui.world <= rx.world
    BY DEF ViewInv, ViewTypes, ReceiverRecords, GuiRecords, WidgetBehind
  <1>4. ReceiverStands'
    <2>1. rx'.pc # "idle" => rx'.work # <<>> /\ RxMsg'[1] = rx'.world
      BY DEF ViewInv, ReceiverStands, RxMsg
    <2>2. \A k \in 1..Len(stores') : stores'[k].world <= rx'.world
      BY <1>2, <1>3 DEF ViewInv, ReceiverStands
    <2> QED BY <1>1, <1>2, <2>1, <2>2 DEF ReceiverStands
  <1>5. CloudStands'
    BY <1>2, <1>3 DEF ViewInv, CloudStands
  <1>6. WidgetBehind'
    BY <1>2, <1>3 DEF ViewInv, WidgetBehind
  <1> QED BY <1>1, <1>2, <1>4, <1>5, <1>6, ReceiverRests

LEMMA WheelKeeps == ViewInv /\ RecordWheel => ViewInv' /\ ScreenStep
  <1> SUFFICES ASSUME ViewInv, RecordWheel PROVE ViewInv' /\ ScreenStep
    OBVIOUS
  <1> DEFINE r == [stores[rx.store] EXCEPT !.world = RxMsg[1], !.wheel = RxMsg[2]]
  <1>1. rx.pc = "valid" /\ rx.work # <<>> /\ RxMsg[1] = rx.world
    BY DEF RecordWheel, ViewInv, ReceiverStands
  <1>2. RxMsg \in ViewMsgs /\ RxMsg[1] \in Nat /\ RxMsg[2] \in Nat /\ Tail(rx.work) \in Seq(ViewWork)
    BY <1>1, WorkTypes, MsgTypes DEF ViewInv
  <1>3. stores[rx.store] \in StoreRecords
    BY ElementOfSeq DEF ViewInv, ViewTypes, ReceiverRecords
  <1>4. r \in StoreRecords /\ r.world = rx.world
    BY <1>1, <1>2, <1>3 DEF StoreRecords
  <1>5. /\ rx' = [rx EXCEPT !.pc = "idle", !.work = Tail(@)]
        /\ stores' = [stores EXCEPT ![rx.store] = r]
        /\ UNCHANGED <<viewBus, raw, gui, render>>
    BY DEF RecordWheel
  <1>6. rx' \in ReceiverRecords /\ rx'.world = rx.world /\ rx'.store = rx.store
        /\ rx'.cloud = rx.cloud /\ rx'.pc = "idle"
    BY <1>2, <1>5 DEF ViewInv, ViewTypes, ReceiverRecords
  <1> HIDE DEF r
  <1> QED BY <1>1, <1>4, <1>5, <1>6, StoreWritten

LEMMA SensorKeeps == ViewInv /\ RecordSensor => ViewInv' /\ ScreenStep
  <1> SUFFICES ASSUME ViewInv, RecordSensor PROVE ViewInv' /\ ScreenStep
    OBVIOUS
  <1> DEFINE r == [stores[rx.store] EXCEPT !.world = RxMsg[1], !.lidar = RxMsg[2]]
  <1>1. rx.pc = "valid" /\ rx.work # <<>> /\ RxMsg[1] = rx.world
        /\ UNCHANGED <<viewBus, raw, gui, render>>
    BY DEF RecordSensor, ViewInv, ReceiverStands
  <1>2. /\ RxTopic \in ViewTopics /\ RxMsg[1] \in Nat /\ RxMsg[2] \in Nat
        /\ Tail(rx.work) \in Seq(ViewWork)
    BY <1>1, WorkTypes, MsgTypes DEF ViewInv
  <1>3. Joined \in SUBSET (ViewTopics \X Nat)
    BY <1>2 DEF Joined, ViewInv, ViewTypes, ReceiverRecords
  <1>4. CASE /\ stores' = [stores EXCEPT ![rx.store] = r]
             /\ rx' = [rx EXCEPT !.pc = "cloud", !.samples = Joined]
    <2>1. stores[rx.store] \in StoreRecords
      BY ElementOfSeq DEF ViewInv, ViewTypes, ReceiverRecords
    <2>2. r \in StoreRecords /\ r.world = rx.world
      BY <1>1, <1>2, <2>1 DEF StoreRecords
    <2>3. rx' \in ReceiverRecords /\ rx'.world = rx.world /\ rx'.store = rx.store
          /\ rx'.cloud = rx.cloud /\ rx'.pc = "cloud" /\ rx'.work = rx.work
      BY <1>3, <1>4 DEF ViewInv, ViewTypes, ReceiverRecords
    <2> HIDE DEF r
    <2> QED BY <1>1, <1>4, <2>2, <2>3, StoreWritten
  <1>5. CASE stores' = stores /\ rx' = [rx EXCEPT !.pc = "idle", !.work = Tail(@), !.samples = Joined]
    <2>1. rx' \in ReceiverRecords /\ rx'.world = rx.world /\ rx'.store = rx.store
          /\ rx'.cloud = rx.cloud /\ rx'.pc = "idle"
      BY <1>2, <1>3, <1>5 DEF ViewInv, ViewTypes, ReceiverRecords
    <2>2. ReceiverStands' /\ CloudStands' /\ WidgetBehind'
      BY <1>1, <1>5, <2>1 DEF ViewInv, ReceiverStands, CloudStands, WidgetBehind
    <2> QED BY <1>1, <1>5, <2>1, <2>2, ReceiverRests DEF ViewInv, ViewTypes
  <1> QED BY <1>4, <1>5 DEF RecordSensor

LEMMA CloudKeeps == ViewInv /\ PublishCloud => ViewInv' /\ ScreenStep
  <1> SUFFICES ASSUME ViewInv, PublishCloud PROVE ViewInv' /\ ScreenStep
    OBVIOUS
  <1> DEFINE rest == {s \in rx.samples : s[2] # RxMsg[2]}
  <1>1. rx.pc = "cloud" /\ rx.work # <<>> /\ RxMsg[1] = rx.world
        /\ UNCHANGED <<viewBus, raw, stores, gui, render>>
        /\ rx' = [rx EXCEPT !.pc = "idle", !.work = Tail(@), !.cloud = RxMsg, !.samples = rest]
    BY DEF PublishCloud, ViewInv, ReceiverStands
  <1>2. /\ RxMsg \in ViewCells /\ RxMsg[1] \in Nat \ {0} /\ Tail(rx.work) \in Seq(ViewWork)
    BY <1>1, WorkTypes, MsgTypes DEF ViewInv
  <1>3. rest \in SUBSET (ViewTopics \X Nat)
    BY DEF ViewInv, ViewTypes, ReceiverRecords
  <1> HIDE DEF rest
  <1>4. rx' \in ReceiverRecords /\ rx'.world = rx.world /\ rx'.store = rx.store
        /\ rx'.cloud = RxMsg /\ rx'.pc = "idle"
    BY <1>1, <1>2, <1>3 DEF ViewInv, ViewTypes, ReceiverRecords
  <1>5. ReceiverStands' /\ CloudStands' /\ WidgetBehind'
    BY <1>1, <1>2, <1>4 DEF ViewInv, ReceiverStands, CloudStands, WidgetBehind, ViewTypes, ReceiverRecords
  <1> QED BY <1>1, <1>4, <1>5, ReceiverRests DEF ViewInv, ViewTypes

(* The steps of the GUI thread leave the receiver alone.                   *)
LEMMA WidgetMoves ==
  ASSUME ViewInv, UNCHANGED <<viewBus, raw, rx, stores>>,
         gui' \in GuiRecords, render' \in RenderTasks,
         rx.cloud # NoMsg => gui'.world <= rx.cloud[1],
         WidgetBehind', RenderStands', OneWorldOnScreen', SnapshotNotAhead'
  PROVE  ViewInv'
  <1>1. ViewTypes'
    BY DEF ViewInv, ViewTypes
  <1> QED BY <1>1 DEF ViewInv, ReceiverStands, CloudStands, RxMsg

(* Steps after which the widget shows what it showed before.               *)
LEMMA WidgetRests ==
  ASSUME ViewInv, UNCHANGED <<viewBus, raw, rx, stores>>,
         gui' \in GuiRecords, render' \in RenderTasks, RenderStands',
         gui'.pc = gui.pc, gui'.ref = gui.ref, gui'.world = gui.world,
         gui'.frames = gui.frames, gui'.last = gui.last, gui'.snap = gui.snap,
         gui'.canvas = gui.canvas
  PROVE  ViewInv' /\ ScreenStep
  <1>1. WidgetBehind' /\ OneWorldOnScreen' /\ SnapshotNotAhead'
    BY DEF ViewInv, WidgetBehind, OneWorldOnScreen, SnapshotNotAhead
  <1>2. ViewInv'
    BY <1>1, WidgetMoves DEF ViewInv, CloudStands
  <1>3. gui'.world >= gui.world
    BY DEF ViewInv, ViewTypes, GuiRecords
  <1> QED BY <1>2, <1>3 DEF ScreenStep

LEMMA GrabKeeps == ViewInv /\ GrabStore => ViewInv' /\ ScreenStep
  <1> SUFFICES ASSUME ViewInv, GrabStore PROVE ViewInv' /\ ScreenStep
    OBVIOUS
  <1>1. /\ gui' = [gui EXCEPT !.pc = "refresh", !.ref = rx.store]
        /\ UNCHANGED <<viewBus, raw, rx, stores, render>>
    BY DEF GrabStore
  <1>2. rx.store \in Nat \ {0} /\ Len(stores) = rx.store
    BY DEF ViewInv, ViewTypes, ReceiverRecords
  <1>3. /\ gui' \in GuiRecords /\ gui'.pc = "refresh" /\ gui'.ref = rx.store
        /\ gui'.world = gui.world /\ gui'.frames = gui.frames /\ gui'.last = gui.last
        /\ gui'.snap = gui.snap /\ gui'.canvas = gui.canvas /\ gui'.open = gui.open
        /\ gui'.failed = gui.failed /\ gui'.mode = gui.mode
    BY <1>1, <1>2 DEF ViewInv, ViewTypes, GuiRecords
  <1>4. WidgetBehind'
    BY <1>1, <1>2, <1>3 DEF ViewInv, WidgetBehind, ReceiverStands
  <1>5. RenderStands' /\ OneWorldOnScreen' /\ SnapshotNotAhead'
    BY <1>1, <1>3 DEF ViewInv, RenderStands, OneWorldOnScreen, SnapshotNotAhead
  <1>6. ViewInv'
    BY <1>1, <1>3, <1>4, <1>5, WidgetMoves DEF ViewInv, ViewTypes, CloudStands
  <1>7. gui'.world >= gui.world
    BY <1>3 DEF ViewInv, ViewTypes, GuiRecords
  <1> QED BY <1>3, <1>6, <1>7 DEF ScreenStep

(* What becomes of the widget and of its task when it is told of a world.  *)
LEMMA InWorldFacts ==
  ASSUME NEW g \in GuiRecords, NEW w \in Nat
  PROVE  /\ InWorld(g, w) \in GuiRecords /\ InWorld(g, w).world = w
         /\ InWorld(g, w).snap = g.snap /\ InWorld(g, w).canvas = g.canvas
         /\ InWorld(g, w).open = g.open /\ InWorld(g, w).failed = g.failed
         /\ InWorld(g, w).mode = g.mode /\ InWorld(g, w).pc = g.pc
         /\ g.world = w => InWorld(g, w) = g
         /\ g.world # w => InWorld(g, w).frames = <<>> /\ InWorld(g, w).last = NoMsg
  <1>1. CASE g.world = w
    BY <1>1 DEF InWorld
  <1>2. CASE g.world # w
    <2>1. <<>> \in Seq(ViewCells) /\ NoMsg \in ViewCells
      BY NoMsgIsNone
    <2>2. InWorld(g, w) = [g EXCEPT !.world = w, !.frames = <<>>, !.last = NoMsg]
      BY <1>2 DEF InWorld
    <2> QED BY ZenonT(60), <1>2, <2>1, <2>2 DEF GuiRecords
  <1> QED BY <1>1, <1>2

LEMMA TaskInWorldFacts ==
  ASSUME NEW g \in GuiRecords, NEW j \in RenderTasks, NEW w \in Nat
  PROVE  /\ TaskInWorld(g, j, w) \in RenderTasks /\ TaskInWorld(g, j, w).state = j.state
         /\ TaskInWorld(g, j, w).frame = j.frame /\ TaskInWorld(g, j, w).mode = j.mode
         /\ TaskInWorld(g, j, w).current => j.current /\ g.world = w
  BY DEF TaskInWorld, Overtaken, RenderTasks

LEMMA RefreshKeeps == ViewInv /\ RefreshFromStore => ViewInv' /\ ScreenStep
  <1> SUFFICES ASSUME ViewInv, RefreshFromStore PROVE ViewInv' /\ ScreenStep
    OBVIOUS
  <1> DEFINE s == stores[gui.ref]
             g == [gui EXCEPT !.pc = "cloud", !.ref = 0]
  <1>1. gui.pc = "refresh" /\ UNCHANGED <<viewBus, raw, rx, stores>>
    BY DEF RefreshFromStore
  <1>2. gui.ref \in 1..Len(stores) /\ s \in StoreRecords /\ s.world \in Nat
        /\ (s.world = 0 \/ gui.world <= s.world)
    <2>1. gui.ref \in 1..Len(stores) /\ (s.world = 0 \/ gui.world <= s.world)
      BY <1>1 DEF ViewInv, WidgetBehind
    <2>2. s \in StoreRecords
      BY <2>1, ElementOfSeq DEF ViewInv, ViewTypes
    <2> QED BY <2>1, <2>2 DEF StoreRecords
  <1>3. CASE gui' = g /\ render' = render
    <2>1. /\ gui' \in GuiRecords /\ gui'.pc = "cloud"
          /\ gui'.world = gui.world /\ gui'.frames = gui.frames /\ gui'.last = gui.last
          /\ gui'.snap = gui.snap /\ gui'.canvas = gui.canvas /\ gui'.open = gui.open
          /\ gui'.failed = gui.failed /\ gui'.mode = gui.mode
      BY <1>3 DEF ViewInv, ViewTypes, GuiRecords
    <2>2. WidgetBehind' /\ RenderStands' /\ OneWorldOnScreen' /\ SnapshotNotAhead'
      BY <1>1, <1>3, <2>1 DEF ViewInv, WidgetBehind, RenderStands, OneWorldOnScreen, SnapshotNotAhead
    <2>3. ViewInv'
      BY <1>1, <1>3, <2>1, <2>2, WidgetMoves DEF ViewInv, ViewTypes, CloudStands
    <2>4. gui'.world >= gui.world
      BY <2>1 DEF ViewInv, ViewTypes, GuiRecords
    <2> QED BY <2>1, <2>3, <2>4 DEF ScreenStep
  <1>4. CASE /\ s.world # 0
             /\ gui' = [InWorld(g, s.world) EXCEPT !.snap = s]
             /\ render' = TaskInWorld(gui, render, s.world)
    <2> DEFINE h == InWorld(g, s.world)
    <2>1. /\ g \in GuiRecords /\ g.pc = "cloud" /\ g.world = gui.world /\ g.frames = gui.frames
          /\ g.last = gui.last /\ g.canvas = gui.canvas /\ g.open = gui.open
          /\ g.failed = gui.failed /\ g.mode = gui.mode /\ render \in RenderTasks
          /\ gui.world \in Nat /\ gui \in GuiRecords
      BY DEF ViewInv, ViewTypes, GuiRecords
    <2> HIDE DEF g
    <2>2. /\ h \in GuiRecords /\ h.world = s.world /\ h.canvas = g.canvas /\ h.open = g.open
          /\ h.failed = g.failed /\ h.mode = g.mode /\ h.pc = g.pc
          /\ g.world = s.world => h = g
          /\ g.world # s.world => h.frames = <<>> /\ h.last = NoMsg
      BY <1>2, <2>1, InWorldFacts
    <2>3. /\ render' \in RenderTasks /\ render'.state = render.state
          /\ render'.frame = render.frame /\ render'.mode = render.mode
          /\ render'.current => render.current /\ gui.world = s.world
      <3>1. render' = TaskInWorld(gui, render, s.world)
        BY <1>4
      <3>2. gui \in GuiRecords /\ render \in RenderTasks /\ s.world \in Nat
        BY <1>2, <2>1
      <3> HIDE DEF s
      <3> QED BY <3>1, <3>2, TaskInWorldFacts
    <2>4. gui.world = s.world => h.last = g.last /\ h.frames = g.frames
      BY <2>1, <2>2
    <2> HIDE DEF h
    <2>5. /\ gui' \in GuiRecords /\ gui'.world = s.world /\ gui'.canvas = gui.canvas
          /\ gui'.open = gui.open /\ gui'.failed = gui.failed /\ gui'.mode = gui.mode
          /\ gui'.pc = "cloud" /\ gui'.snap = s /\ gui'.frames = h.frames /\ gui'.last = h.last
      <3>1. gui' = [h EXCEPT !.snap = s]
        BY <1>4 DEF h
      <3> HIDE DEF s
      <3> QED BY SMTT(30), <1>2, <2>1, <2>2, <3>1 DEF GuiRecords
    <2>6. gui'.world >= gui.world
      BY <1>2, <1>4, <2>1, <2>5
    <2>7. rx.cloud # NoMsg => gui'.world <= rx.cloud[1]
      BY <1>2, <2>5 DEF ViewInv, CloudStands
    <2>8. WidgetBehind'
      BY <1>1, <1>2, <2>5 DEF ViewInv, WidgetBehind, ReceiverStands
    <2>9. RenderStands'
      BY <2>1, <2>3, <2>4, <2>5 DEF ViewInv, RenderStands
    <2>10. OneWorldOnScreen'
      BY <2>1, <2>2, <2>5 DEF ViewInv, OneWorldOnScreen
    <2>11. SnapshotNotAhead'
      BY <1>2, <2>5 DEF SnapshotNotAhead
    <2>12. ViewInv'
      BY <1>1, <2>3, <2>5, <2>7, <2>8, <2>9, <2>10, <2>11, WidgetMoves
    <2> QED BY <2>5, <2>6, <2>12 DEF ScreenStep
  <1> QED BY <1>3, <1>4 DEF RefreshFromStore

LEMMA WindowedFacts ==
  ASSUME NEW s \in Seq(ViewCells), NEW f \in ViewCells
  PROVE  /\ Windowed(Append(s, f)) \in Seq(ViewCells)
         /\ \A w : (\A k \in 1..Len(s) : s[k][1] = w) /\ f[1] = w =>
                \A k \in 1..Len(Windowed(Append(s, f))) : Windowed(Append(s, f))[k][1] = w
  <1> DEFINE a == Append(s, f)
  <1>1. /\ a \in Seq(ViewCells) /\ Len(a) = Len(s) + 1 /\ Len(s) \in Nat /\ a # <<>>
        /\ \A k \in 1..Len(s) : a[k] = s[k]
        /\ a[Len(s) + 1] = f
    BY AppendProperties, LenProperties
  <1> HIDE DEF a
  <1>2. ASSUME NEW w, \A k \in 1..Len(s) : s[k][1] = w, f[1] = w
        PROVE  \A k \in 1..Len(a) : a[k][1] = w
    BY <1>1, <1>2
  <1>3. /\ Tail(a) \in Seq(ViewCells) /\ Len(Tail(a)) = Len(a) - 1
        /\ \A k \in 1..Len(Tail(a)) : Tail(a)[k] = a[k + 1]
    BY <1>1, HeadTailProperties
  <1>4. ASSUME NEW w, \A k \in 1..Len(s) : s[k][1] = w, f[1] = w
        PROVE  \A k \in 1..Len(Tail(a)) : Tail(a)[k][1] = w
    BY <1>1, <1>2, <1>3, <1>4
  <1>5. Windowed(a) = a \/ Windowed(a) = Tail(a)
    BY DEF Windowed
  <1>6. Windowed(a) \in Seq(ViewCells)
    BY <1>1, <1>3, <1>5
  <1>7. ASSUME NEW w, \A k \in 1..Len(s) : s[k][1] = w, f[1] = w
        PROVE  \A k \in 1..Len(Windowed(a)) : Windowed(a)[k][1] = w
    <2>1. CASE Windowed(a) = a
      <3>1. \A k \in 1..Len(a) : a[k][1] = w
        BY <1>2, <1>7
      <3> QED BY <2>1, <3>1
    <2>2. CASE Windowed(a) = Tail(a)
      <3>1. \A k \in 1..Len(Tail(a)) : Tail(a)[k][1] = w
        BY <1>4, <1>7
      <3> QED BY <2>2, <3>1
    <2> QED BY <1>5, <2>1, <2>2
  <1> QED BY <1>6, <1>7 DEF a

LEMMA UpdateKeeps == ViewInv /\ UpdateCloud => ViewInv' /\ ScreenStep
  <1> SUFFICES ASSUME ViewInv, UpdateCloud PROVE ViewInv' /\ ScreenStep
    OBVIOUS
  <1> DEFINE f == rx.cloud
             h == InWorld(gui, f[1])
             g == [h EXCEPT !.pc = "idle"]
             j == TaskInWorld(gui, render, f[1])
             kept == [g EXCEPT !.last = f, !.frames = Windowed(Append(@, f))]
  <1>1. gui.pc = "cloud" /\ UNCHANGED <<viewBus, raw, rx, stores>>
    BY DEF UpdateCloud
  <1>2. f \in ViewCells /\ gui \in GuiRecords /\ render \in RenderTasks /\ gui.world \in Nat
        /\ f[1] \in Nat
    <2>1. f \in ViewCells /\ gui \in GuiRecords /\ render \in RenderTasks
      BY DEF ViewInv, ViewTypes, ReceiverRecords
    <2> QED BY <2>1, CellTypes DEF GuiRecords
  <1>3. CASE f = NoMsg /\ gui' = [gui EXCEPT !.pc = "idle"] /\ render' = render
    <2>1. /\ gui' \in GuiRecords /\ gui'.pc = "idle"
          /\ gui'.world = gui.world /\ gui'.frames = gui.frames /\ gui'.last = gui.last
          /\ gui'.snap = gui.snap /\ gui'.canvas = gui.canvas /\ gui'.open = gui.open
          /\ gui'.failed = gui.failed /\ gui'.mode = gui.mode
      BY <1>2, <1>3 DEF GuiRecords
    <2>2. WidgetBehind' /\ RenderStands' /\ OneWorldOnScreen' /\ SnapshotNotAhead'
      BY <1>1, <1>3, <2>1 DEF ViewInv, WidgetBehind, RenderStands, OneWorldOnScreen, SnapshotNotAhead
    <2>3. ViewInv'
      BY <1>1, <1>2, <1>3, <2>1, <2>2, WidgetMoves
    <2>4. gui'.world >= gui.world
      BY <1>2, <2>1
    <2> QED BY <2>1, <2>3, <2>4 DEF ScreenStep
  <1> SUFFICES ASSUME f # NoMsg PROVE ViewInv' /\ ScreenStep
    BY <1>3 DEF UpdateCloud
  <1>4. gui.world <= f[1] /\ f[1] <= rx.world
    BY DEF ViewInv, CloudStands
  <1>5. /\ h \in GuiRecords /\ h.world = f[1] /\ h.snap = gui.snap /\ h.canvas = gui.canvas
        /\ h.open = gui.open /\ h.failed = gui.failed /\ h.mode = gui.mode
        /\ gui.world = f[1] => h = gui
        /\ gui.world # f[1] => h.frames = <<>> /\ h.last = NoMsg
    <2> HIDE DEF f
    <2> QED BY <1>2, InWorldFacts
  <1>6. /\ j \in RenderTasks /\ j.state = render.state /\ j.frame = render.frame
        /\ j.mode = render.mode
        /\ j.current => render.current /\ gui.world = f[1]
    <2> DEFINE w == f[1]
    <2>1. w \in Nat
      BY <1>2
    <2>2. j = TaskInWorld(gui, render, w)
      OBVIOUS
    <2> HIDE DEF w, j
    <2>3. /\ TaskInWorld(gui, render, w) \in RenderTasks
          /\ TaskInWorld(gui, render, w).state = render.state
          /\ TaskInWorld(gui, render, w).frame = render.frame
          /\ TaskInWorld(gui, render, w).mode = render.mode
          /\ TaskInWorld(gui, render, w).current => render.current /\ gui.world = w
      BY SMTT(30), <1>2, <2>1, TaskInWorldFacts
    <2>4. /\ j \in RenderTasks /\ j.state = render.state /\ j.frame = render.frame
          /\ j.mode = render.mode
          /\ j.current => render.current /\ gui.world = w
      BY <2>2, <2>3
    <2> QED BY <2>4 DEF w
  <1>7. \A k \in 1..Len(h.frames) : h.frames[k][1] = f[1]
    <2>1. CASE gui.world = f[1]
      BY <1>5, <2>1 DEF ViewInv, OneWorldOnScreen
    <2>2. CASE gui.world # f[1]
      BY <1>5, <2>2
    <2> QED BY <2>1, <2>2
  <1> HIDE DEF h, j
  <1>8. /\ g \in GuiRecords /\ g.pc = "idle" /\ g.world = h.world /\ g.frames = h.frames
        /\ g.last = h.last /\ g.snap = h.snap /\ g.canvas = h.canvas /\ g.open = h.open
        /\ g.failed = h.failed /\ g.mode = h.mode
    BY <1>5 DEF GuiRecords
  <1> HIDE DEF g
  <1>9. ASSUME gui' \in GuiRecords, render' \in RenderTasks, gui'.pc = "idle",
               gui'.world = f[1], gui'.snap = gui.snap, gui'.canvas = gui.canvas,
               RenderStands', gui'.last = f,
               \A k \in 1..Len(gui'.frames) : gui'.frames[k][1] = f[1]
        PROVE  ViewInv' /\ ScreenStep
    <2>1. WidgetBehind' /\ OneWorldOnScreen'
      BY <1>1, <1>4, <1>9 DEF WidgetBehind, OneWorldOnScreen
    <2>2. gui.snap.world \in Nat /\ gui.snap.world <= gui.world
      BY <1>2 DEF ViewInv, SnapshotNotAhead, GuiRecords, StoreRecords
    <2>3. SnapshotNotAhead' /\ gui'.world >= gui.world
      BY <1>2, <1>4, <1>9, <2>2 DEF SnapshotNotAhead
    <2>4. rx.cloud # NoMsg => gui'.world <= rx.cloud[1]
      BY <1>2, <1>9
    <2>5. ViewInv'
      BY <1>1, <1>9, <2>1, <2>3, <2>4, WidgetMoves
    <2> QED BY <1>9, <2>3, <2>5 DEF ScreenStep
  <1>10. CASE g.last = f /\ gui' = g /\ render' = j
    <2>1. h.last = f /\ gui.world = f[1] /\ h = gui
      BY <1>5, <1>8, <1>10
    <2>2. RenderStands'
      BY <1>6, <1>8, <1>10, <2>1 DEF ViewInv, RenderStands
    <2> QED BY <1>5, <1>6, <1>7, <1>8, <1>9, <1>10, <2>2
  <1>11. CASE g.last # f /\ Renders(kept, j, FALSE)
    <2> DEFINE fs == Windowed(Append(g.frames, f))
    <2>1. g.frames \in Seq(ViewCells) /\ \A k \in 1..Len(g.frames) : g.frames[k][1] = f[1]
      BY <1>7, <1>8 DEF GuiRecords
    <2>2. fs \in Seq(ViewCells) /\ \A k \in 1..Len(fs) : fs[k][1] = f[1]
      <3> HIDE DEF f
      <3> QED BY <1>2, <2>1, WindowedFacts
    <2>3. kept = [g EXCEPT !.last = f, !.frames = fs]
      OBVIOUS
    <2> HIDE DEF fs, f, kept
    <2>4. /\ kept \in GuiRecords /\ kept.pc = "idle" /\ kept.world = g.world /\ kept.frames = fs
          /\ kept.last = f /\ kept.snap = g.snap /\ kept.canvas = g.canvas /\ kept.open = g.open
          /\ kept.failed = g.failed /\ kept.mode = g.mode
      BY <1>2, <1>8, <2>2, <2>3 DEF GuiRecords
    <2>5. /\ gui' \in GuiRecords /\ render' \in RenderTasks
          /\ gui'.pc = "idle" /\ gui'.world = f[1] /\ gui'.frames = fs /\ gui'.last = f
          /\ gui'.snap = gui.snap /\ gui'.canvas = gui.canvas /\ gui'.open = g.open
          /\ gui'.failed = gui.failed /\ gui'.mode = g.mode
          /\ g.failed \/ ~g.open => render' = j
          /\ ~g.failed /\ g.open /\ render'.state # "none" /\ render'.current =>
                 render'.frame = f /\ render'.mode = g.mode
      <3>1. Renders(kept, j, FALSE) /\ j \in RenderTasks /\ FALSE \in BOOLEAN
        BY <1>6, <1>11 DEF kept
      <3>2. /\ gui' \in GuiRecords /\ render' \in RenderTasks
            /\ gui'.pc = kept.pc /\ gui'.world = kept.world /\ gui'.frames = kept.frames
            /\ gui'.last = kept.last /\ gui'.snap = kept.snap /\ gui'.open = kept.open
            /\ gui'.failed = kept.failed /\ gui'.mode = kept.mode /\ gui'.canvas = kept.canvas
            /\ (kept.failed \/ ~kept.open) => render' = j
            /\ ~kept.failed /\ kept.open /\ render'.state # "none" /\ render'.current =>
                  render'.frame = kept.last /\ render'.mode = kept.mode
        BY <2>4, <3>1, RendersFacts
      <3>3. g.world = f[1] /\ g.snap = gui.snap /\ g.canvas = gui.canvas /\ g.failed = gui.failed
        <4>1. h.world = f[1] /\ h.snap = gui.snap /\ h.canvas = gui.canvas /\ h.failed = gui.failed
          BY <1>5 DEF f
        <4> QED BY <4>1, <1>8
      <3> QED BY <2>4, <3>2, <3>3
    <2>6. RenderStands'
      <3>1. CASE gui.failed
        BY <1>5, <1>6, <1>8, <2>5, <3>1 DEF ViewInv, RenderStands
      <3>2. CASE ~gui.failed
        BY <1>5, <1>6, <1>8, <2>5, <3>2 DEF ViewInv, RenderStands
      <3> QED BY <3>1, <3>2
    <2> QED BY <1>9, <2>2, <2>5, <2>6
  <1> QED BY <1>10, <1>11 DEF UpdateCloud, g, h, j

(* The steps of renderer and user.                                         *)
LEMMA BuildKeeps == ASSUME ViewInv, NEW ok \in BOOLEAN, BuildImage(ok) PROVE ViewInv' /\ ScreenStep
  <1>1. /\ render' \in RenderTasks /\ render.state # "none" /\ render'.current = render.current
        /\ render'.frame = render.frame /\ render'.mode = render.mode
        /\ UNCHANGED <<viewBus, raw, rx, stores, gui>>
    BY DEF BuildImage, ViewInv, ViewTypes, RenderTasks
  <1>2. RenderStands'
    BY <1>1 DEF ViewInv, RenderStands
  <1> QED BY <1>1, <1>2, WidgetRests DEF ViewInv, ViewTypes

LEMMA EditFacts ==
  ASSUME NEW g \in GuiRecords
  PROVE  /\ Edit(g) \in GuiRecords /\ Edit(g).pc = g.pc /\ Edit(g).ref = g.ref
         /\ Edit(g).world = g.world /\ Edit(g).frames = g.frames /\ Edit(g).last = g.last
         /\ Edit(g).snap = g.snap /\ Edit(g).canvas = g.canvas /\ Edit(g).failed = g.failed
         /\ Edit(g).open = g.open /\ Edit(g).mode = g.mode
  BY DEF GuiRecords, Edit

LEMMA SmallGuiSteps ==
  ASSUME ViewInv, UNCHANGED <<viewBus, raw, rx, stores, render>>,
         \/ gui' = [gui EXCEPT !.cool = FALSE] \/ gui' = [gui EXCEPT !.down = TRUE]
         \/ gui' = [Edit(gui) EXCEPT !.open = FALSE]
  PROVE  ViewInv' /\ ScreenStep
  <1>1. gui \in GuiRecords /\ render \in RenderTasks
    BY DEF ViewInv, ViewTypes
  <1>2. /\ gui' \in GuiRecords /\ gui'.pc = gui.pc /\ gui'.ref = gui.ref /\ gui'.world = gui.world
        /\ gui'.frames = gui.frames /\ gui'.last = gui.last /\ gui'.snap = gui.snap
        /\ gui'.canvas = gui.canvas /\ gui'.mode = gui.mode /\ gui'.failed = gui.failed
        /\ gui'.open => gui.open
    <2>1. CASE gui' = [gui EXCEPT !.cool = FALSE]
      BY <1>1, <2>1 DEF GuiRecords
    <2>2. CASE gui' = [gui EXCEPT !.down = TRUE]
      BY <1>1, <2>2 DEF GuiRecords
    <2>3. CASE gui' = [Edit(gui) EXCEPT !.open = FALSE]
      <3> DEFINE e == Edit(gui)
      <3>1. /\ e \in GuiRecords /\ e.pc = gui.pc /\ e.ref = gui.ref /\ e.world = gui.world
            /\ e.frames = gui.frames /\ e.last = gui.last /\ e.snap = gui.snap
            /\ e.canvas = gui.canvas /\ e.failed = gui.failed /\ e.mode = gui.mode
        BY <1>1, EditFacts
      <3>2. gui' = [e EXCEPT !.open = FALSE]
        BY <2>3
      <3> HIDE DEF e
      <3> QED BY <3>1, <3>2 DEF GuiRecords
    <2> QED BY <2>1, <2>2, <2>3
  <1>3. RenderStands'
    BY <1>2 DEF ViewInv, RenderStands
  <1> QED BY <1>1, <1>2, <1>3, WidgetRests

LEMMA UserKeeps == ViewInv /\ User => ViewInv' /\ ScreenStep
  <1> SUFFICES ASSUME ViewInv, User PROVE ViewInv' /\ ScreenStep
    OBVIOUS
  <1>1. gui \in GuiRecords /\ render \in RenderTasks /\ UNCHANGED <<viewBus, raw, rx, stores>>
    BY DEF ViewInv, ViewTypes, User, ToggleWorkbench, ChangeMode, ChangeView
  <1>2. ASSUME NEW g \in GuiRecords, NEW force \in BOOLEAN, Renders(g, render, force),
               g.pc = gui.pc, g.ref = gui.ref, g.world = gui.world, g.frames = gui.frames,
               g.last = gui.last, g.snap = gui.snap, g.canvas = gui.canvas,
               g.failed => gui.failed, gui.open => g.open, g.open => gui.open \/ ~g.failed
        PROVE  ViewInv' /\ ScreenStep
    <2>1. /\ gui' \in GuiRecords /\ render' \in RenderTasks
          /\ gui'.pc = g.pc /\ gui'.ref = g.ref /\ gui'.world = g.world /\ gui'.frames = g.frames
          /\ gui'.last = g.last /\ gui'.snap = g.snap /\ gui'.open = g.open
          /\ gui'.failed = g.failed /\ gui'.mode = g.mode /\ gui'.canvas = g.canvas
          /\ (g.failed \/ ~g.open) => render' = render
          /\ ~g.failed /\ g.open /\ render'.state # "none" /\ render'.current =>
                render'.frame = g.last /\ render'.mode = g.mode
      BY <1>1, <1>2, RendersFacts
    <2>2. RenderStands'
      BY <1>2, <2>1 DEF ViewInv, RenderStands
    <2> QED BY <1>1, <1>2, <2>1, <2>2, WidgetRests
  <1>3. CASE ToggleWorkbench
    <2>1. CASE gui' = [Edit(gui) EXCEPT !.open = FALSE] /\ render' = render
      BY <1>1, <2>1, SmallGuiSteps
    <2>2. CASE Renders([Edit(gui) EXCEPT !.open = TRUE, !.failed = FALSE], render, TRUE)
      <3> DEFINE g == [Edit(gui) EXCEPT !.open = TRUE, !.failed = FALSE]
      <3>1. g \in GuiRecords /\ g.pc = gui.pc /\ g.ref = gui.ref /\ g.world = gui.world
            /\ g.frames = gui.frames /\ g.last = gui.last /\ g.snap = gui.snap
            /\ g.canvas = gui.canvas /\ ~g.failed /\ g.open
        <4> DEFINE e == Edit(gui)
        <4>1. /\ e \in GuiRecords /\ e.pc = gui.pc /\ e.ref = gui.ref /\ e.world = gui.world
              /\ e.frames = gui.frames /\ e.last = gui.last /\ e.snap = gui.snap
              /\ e.canvas = gui.canvas
          BY <1>1, EditFacts
        <4> HIDE DEF e
        <4>2. g = [e EXCEPT !.open = TRUE, !.failed = FALSE]
          BY DEF e
        <4> QED BY <4>1, <4>2 DEF GuiRecords
      <3> HIDE DEF g
      <3>2. Renders(g, render, TRUE)
        BY <2>2 DEF g
      <3> QED BY <1>2, <3>1, <3>2
    <2> QED BY <1>3, <2>1, <2>2 DEF ToggleWorkbench
  <1>4. CASE ChangeMode
    <2> DEFINE mode == IF gui.mode = "all" THEN "current" ELSE "all"
               g == [Edit(gui) EXCEPT !.mode = mode]
    <2>1. g \in GuiRecords /\ g.pc = gui.pc /\ g.ref = gui.ref /\ g.world = gui.world
          /\ g.frames = gui.frames /\ g.last = gui.last /\ g.snap = gui.snap
          /\ g.canvas = gui.canvas /\ g.failed = gui.failed /\ g.open = gui.open
      <3> DEFINE e == Edit(gui)
      <3>1. /\ e \in GuiRecords /\ e.pc = gui.pc /\ e.ref = gui.ref /\ e.world = gui.world
            /\ e.frames = gui.frames /\ e.last = gui.last /\ e.snap = gui.snap
            /\ e.canvas = gui.canvas /\ e.failed = gui.failed /\ e.open = gui.open
        BY <1>1, EditFacts
      <3>2. g = [e EXCEPT !.mode = mode] /\ mode \in {"all", "current"}
        OBVIOUS
      <3> HIDE DEF e, mode
      <3> QED BY <3>1, <3>2 DEF GuiRecords
    <2>2. Renders(g, render, FALSE)
      BY <1>4 DEF ChangeMode
    <2> HIDE DEF g
    <2> QED BY <1>2, <2>1, <2>2
  <1>5. CASE ChangeView
    <2>1. Edit(gui) \in GuiRecords /\ Edit(gui).pc = gui.pc /\ Edit(gui).ref = gui.ref
          /\ Edit(gui).world = gui.world /\ Edit(gui).frames = gui.frames
          /\ Edit(gui).last = gui.last /\ Edit(gui).snap = gui.snap
          /\ Edit(gui).canvas = gui.canvas /\ Edit(gui).failed = gui.failed
          /\ Edit(gui).open = gui.open
      BY <1>1, EditFacts
    <2>2. Renders(Edit(gui), render, TRUE)
      BY <1>5 DEF ChangeView
    <2> QED BY <1>2, <2>1, <2>2
  <1> QED BY <1>3, <1>4, <1>5 DEF User

LEMMA CollectKeeps == ViewInv /\ CollectRender => ViewInv' /\ ScreenStep
  <1> SUFFICES ASSUME ViewInv, CollectRender PROVE ViewInv' /\ ScreenStep
    OBVIOUS
  <1> DEFINE shown == IF render.state = "done" /\ render.current /\ gui.open
                      THEN [frame |-> render.frame, mode |-> render.mode] ELSE gui.canvas
             g == [gui EXCEPT !.pending = FALSE, !.failed = @ \/ render.state = "raised",
                              !.canvas = shown]
  <1>1. /\ gui \in GuiRecords /\ render \in RenderTasks /\ gui.pc = "idle"
        /\ render.state \in {"done", "raised"} /\ UNCHANGED <<viewBus, raw, rx, stores>>
    BY DEF ViewInv, ViewTypes, CollectRender
  <1>2. NoRender \in RenderTasks /\ NoRender.state = "none"
    BY NoMsgIsNone DEF NoRender, RenderTasks
  <1>3. shown \in [frame : ViewCells, mode : {"all", "current"}]
        /\ (shown # gui.canvas => shown = [frame |-> gui.last, mode |-> gui.mode])
    BY <1>1 DEF ViewInv, RenderStands, GuiRecords, RenderTasks
  <1> HIDE DEF shown
  <1>4. /\ g \in GuiRecords /\ g.pc = gui.pc /\ g.ref = gui.ref /\ g.world = gui.world
        /\ g.frames = gui.frames /\ g.last = gui.last /\ g.snap = gui.snap
        /\ g.canvas = shown /\ g.mode = gui.mode /\ g.open = gui.open
    BY <1>1, <1>3 DEF GuiRecords
  <1>5. (gui' = g /\ render' = NoRender) \/ Renders(g, NoRender, TRUE)
    BY DEF CollectRender, shown
  <1> HIDE DEF g
  <1>6. /\ gui' \in GuiRecords /\ render' \in RenderTasks
        /\ gui'.pc = g.pc /\ gui'.ref = g.ref /\ gui'.world = g.world /\ gui'.frames = g.frames
        /\ gui'.last = g.last /\ gui'.snap = g.snap /\ gui'.canvas = g.canvas
        /\ RenderStands'
    <2>1. CASE gui' = g /\ render' = NoRender
      BY <1>2, <1>4, <2>1 DEF RenderStands
    <2>2. CASE Renders(g, NoRender, TRUE)
      <3>1. /\ gui' \in GuiRecords /\ render' \in RenderTasks
            /\ gui'.pc = g.pc /\ gui'.ref = g.ref /\ gui'.world = g.world /\ gui'.frames = g.frames
            /\ gui'.last = g.last /\ gui'.snap = g.snap /\ gui'.open = g.open
            /\ gui'.failed = g.failed /\ gui'.mode = g.mode /\ gui'.canvas = g.canvas
            /\ (g.failed \/ ~g.open) => render' = NoRender
            /\ ~g.failed /\ g.open /\ render'.state # "none" /\ render'.current =>
                  render'.frame = g.last /\ render'.mode = g.mode
        BY <1>2, <1>4, <2>2, RendersFacts
      <3> QED BY <1>2, <3>1 DEF RenderStands
    <2> QED BY <1>5, <2>1, <2>2
  <1>7. WidgetBehind' /\ OneWorldOnScreen' /\ SnapshotNotAhead'
    BY <1>1, <1>4, <1>6 DEF ViewInv, WidgetBehind, OneWorldOnScreen, SnapshotNotAhead
  <1>8. ViewInv'
    BY <1>1, <1>4, <1>6, <1>7, WidgetMoves DEF ViewInv, CloudStands
  <1>9. gui'.world >= gui.world
    BY <1>1, <1>4, <1>6 DEF GuiRecords
  <1> QED BY <1>3, <1>4, <1>6, <1>8, <1>9 DEF ScreenStep

LEMMA PublishKeeps ==
  ASSUME ViewInv, NEW topics, Publish(topics)
  PROVE  ViewInv' /\ ScreenStep
  <1>1. viewBus.world \in Nat \ {0} /\ viewBus.seq \in [ViewTopics -> Nat] /\ raw.queue \in ViewQueues
        /\ UNCHANGED <<rx, stores, gui, render>>
    BY DEF ViewInv, ViewTypes, Publish
  <1> DEFINE seq == [t \in ViewTopics |-> IF t \in topics THEN viewBus.seq[t] + 1 ELSE viewBus.seq[t]]
             q == [t \in ViewTopics |->
                     IF t \in topics THEN <<viewBus.world, viewBus.seq[t] + 1>> ELSE raw.queue[t]]
  <1>2. seq \in [ViewTopics -> Nat]
    BY <1>1
  <1>3. q \in ViewQueues
    <2> SUFFICES ASSUME NEW t \in ViewTopics PROVE q[t] \in ViewCells
      BY DEF ViewQueues
    <2>1. CASE t \in topics
      <3>1. viewBus.seq[t] + 1 \in Nat \ {0}
        BY <1>1
      <3> QED BY <1>1, <2>1, <3>1 DEF ViewCells, ViewMsgs
    <2>2. CASE t \notin topics
      BY <1>1, <2>2 DEF ViewQueues
    <2> QED BY <2>1, <2>2
  <1>4. viewBus' = [viewBus EXCEPT !.seq = seq] /\ raw' = [raw EXCEPT !.queue = q]
    BY DEF Publish
  <1> HIDE DEF seq, q
  <1>5. viewBus' \in [world : Nat \ {0}, seq : [ViewTopics -> Nat]]
    BY <1>2, <1>4 DEF ViewInv, ViewTypes
  <1>6. raw' \in [queue : ViewQueues, closed : BOOLEAN]
    BY <1>3, <1>4 DEF ViewInv, ViewTypes
  <1> QED BY <1>1, <1>5, <1>6, ViewRests

LEMMA ClosingKeeps == ViewInv /\ (Rebuild \/ CloseReceiver \/ CloseObserver) => ViewInv' /\ ScreenStep
  <1> SUFFICES ASSUME ViewInv, Rebuild \/ CloseReceiver \/ CloseObserver PROVE ViewInv' /\ ScreenStep
    OBVIOUS
  <1>1. NoTopic \in ViewQueues
    BY NoMsgIsNone DEF NoTopic, ViewQueues
  <1>2. CASE Rebuild
    <2>1. viewBus' \in [world : Nat \ {0}, seq : [ViewTopics -> Nat]]
      BY <1>2 DEF Rebuild, ViewInv, ViewTypes
    <2>2. UNCHANGED <<raw, rx, stores, gui, render>>
      BY <1>2 DEF Rebuild
    <2> QED BY <2>1, <2>2, ViewRests DEF ViewInv, ViewTypes
  <1>3. CASE CloseObserver
    <2>1. raw' \in [queue : ViewQueues, closed : BOOLEAN] /\ UNCHANGED <<viewBus, rx, stores, gui, render>>
      BY <1>1, <1>3 DEF CloseObserver
    <2> QED BY <2>1, ViewRests DEF ViewInv, ViewTypes
  <1>4. CASE CloseReceiver
    <2>1. /\ rx' = [rx EXCEPT !.closed = TRUE, !.queue = NoTopic]
          /\ UNCHANGED <<viewBus, raw, stores, gui, render>>
      BY <1>4 DEF CloseReceiver
    <2>2. /\ rx' \in ReceiverRecords /\ rx'.work = rx.work /\ rx'.pc = rx.pc /\ rx'.world = rx.world
          /\ rx'.store = rx.store /\ rx'.cloud = rx.cloud
      BY <1>1, <2>1 DEF ViewInv, ViewTypes, ReceiverRecords
    <2>3. ReceiverStands' /\ CloudStands' /\ WidgetBehind'
      BY <2>1, <2>2 DEF ViewInv, ReceiverStands, CloudStands, WidgetBehind, RxMsg
    <2> QED BY <2>1, <2>2, <2>3, ReceiverRests DEF ViewInv, ViewTypes
  <1> QED BY <1>2, <1>3, <1>4

LEMMA ViewInductive == ViewInv /\ [ViewNext]_viewVars => ViewInv' /\ [ScreenStep]_viewVars
  <1> SUFFICES ASSUME ViewInv, ViewNext PROVE ViewInv' /\ ScreenStep
    <2>1. ASSUME ViewInv, UNCHANGED viewVars PROVE ViewInv'
      BY <2>1 DEF viewVars, ViewInv, ViewTypes, ReceiverStands, CloudStands, WidgetBehind,
           RenderStands, OneWorldOnScreen, SnapshotNotAhead, RxMsg
    <2> QED BY <2>1
  <1>1. ObserverWorker \/ (\E topics \in {Sensors, {"wheel"}} : Publish(topics)) => ViewInv' /\ ScreenStep
    BY ObserverKeeps, PublishKeeps DEF ObserverWorker
  <1>2. ReceiverWorker => ViewInv' /\ ScreenStep
    BY TakesKeeps, ValidateKeeps, CloudDropped, WheelKeeps, SensorKeeps, CloudKeeps DEF ReceiverWorker
  <1>3. GuiThread => ViewInv' /\ ScreenStep
    BY GrabKeeps, RefreshKeeps, UpdateKeeps, CollectKeeps DEF GuiThread
  <1>4. Cooled \/ Shutdown => ViewInv' /\ ScreenStep
    BY SmallGuiSteps DEF Cooled, Shutdown
  <1> QED BY <1>1, <1>2, <1>3, <1>4, UserKeeps, BuildKeeps, ClosingKeeps DEF ViewNext

(* The dashboard never shows frames or a snapshot of a world it has left,  *)
(* never an image that a newer frame, mode or world has overtaken, and     *)
(* never goes back to an earlier world, for any set of sensors, any length *)
(* of the history, and any order of the five threads.                      *)
THEOREM TheScreenIsCoherent == ViewSpec => ScreenIsCoherent
  <1>1. ViewSpec => []ViewInv
    BY ViewInitially, ViewInductive, PTL DEF ViewSpec
  <1>2. ViewInv => OneWorldOnScreen /\ SnapshotNotAhead
    BY DEF ViewInv
  <1>3. ViewInv /\ [ViewNext]_viewVars =>
          [ /\ gui'.canvas # gui.canvas => gui'.canvas = [frame |-> gui.last, mode |-> gui.mode]
            /\ gui'.world >= gui.world ]_viewVars
    BY ViewInductive DEF ScreenStep
  <1> QED BY <1>1, <1>2, <1>3, PTL DEF ViewSpec, ScreenIsCoherent, ScreenMovesForward

-----------------------------------------------------------------------------
(* Sets of naturals have a least element, and a finite one can be listed   *)
(* in order.                                                               *)
LEMMA LeastOf ==
  ASSUME NEW S, S \subseteq Nat, S # {}
  PROVE  \E x \in S : \A y \in S : x <= y
  <1>1. PICK x \in S : \A y \in S : ~(<<y, x>> \in OpToRel(<, Nat))
    BY NatLessThanWellFounded, WFMin, Zenon
  <1>2. \A y \in S : ~(y < x)
    BY <1>1 DEF OpToRel
  <1>3. x \in Nat /\ \A y \in S : y \in Nat
    OBVIOUS
  <1>4. \A y \in S : x <= y
    BY <1>2, <1>3
  <1> QED BY <1>4

LEMMA GreatestOf ==
  ASSUME NEW S, S \subseteq Nat, IsFiniteSet(S), S # {}
  PROVE  \E x \in S : \A y \in S : y <= x
  <1> DEFINE Greatest(T) == \E x \in T : \A y \in T : y <= x
             Bad == {n \in Nat : \E T \in SUBSET S : Cardinality(T) = n /\ T # {} /\ ~Greatest(T)}
  <1>1. ASSUME Bad # {}
        PROVE  FALSE
    <2>1. PICK n \in Bad : \A k \in Bad : n <= k
      <3>1. Bad \subseteq Nat
        OBVIOUS
      <3> HIDE DEF Bad
      <3> QED BY <1>1, <3>1, LeastOf
    <2>2. PICK T \in SUBSET S : Cardinality(T) = n /\ T # {} /\ ~Greatest(T)
      OBVIOUS
    <2>3. IsFiniteSet(T) /\ T \subseteq Nat
      BY FS_Subset
    <2>4. PICK m \in T : TRUE
      BY <2>2
    <2> DEFINE R == T \ {m}
    <2>5. IsFiniteSet(R) /\ Cardinality(R) = n - 1 /\ R \in SUBSET S /\ n \in Nat
      BY <2>2, <2>3, FS_RemoveElement
    <2>6. n - 1 \in Nat
      BY <2>5, FS_CardinalityType
    <2>7. n - 1 \notin Bad
      <3> HIDE DEF Bad
      <3> QED BY <2>1, <2>5, <2>6
    <2>8. R = {} \/ Greatest(R)
      BY <2>5, <2>6, <2>7
    <2>9. Greatest(T)
      <3>1. CASE R = {}
        <4>1. \A y \in T : y = m
          BY <3>1
        <4> QED BY <4>1, <2>3, <2>4
      <3>2. CASE Greatest(R)
        <4>1. PICK x \in R : \A y \in R : y <= x
          BY <3>2
        <4>2. x \in Nat /\ m \in Nat /\ x \in T
          BY <4>1, <2>3
        <4>3. CASE x <= m
          <5>1. \A y \in T : y <= m
            <6> SUFFICES ASSUME NEW y \in T PROVE y <= m
              OBVIOUS
            <6>1. y \in Nat /\ (y = m \/ y <= x)
              BY <4>1, <2>3
            <6> QED BY <6>1, <4>2, <4>3
          <5> QED BY <5>1
        <4>4. CASE m <= x
          <5>1. \A y \in T : y <= x
            <6> SUFFICES ASSUME NEW y \in T PROVE y <= x
              OBVIOUS
            <6>1. y = m \/ y <= x
              BY <4>1
            <6> QED BY <6>1, <4>4
          <5> QED BY <5>1, <4>2
        <4> QED BY <4>2, <4>3, <4>4
      <3> QED BY <2>8, <3>1, <3>2
    <2> QED BY <2>2, <2>9
  <1>2. Cardinality(S) \in Nat
    BY FS_CardinalityType
  <1>3. Cardinality(S) \notin Bad
    <2> HIDE DEF Bad
    <2> QED BY <1>1
  <1> QED BY <1>2, <1>3

Listed(S, q) ==
    /\ q \in [1 .. Cardinality(S) -> S]
    /\ \A i, j \in 1 .. Cardinality(S) : i < j => q[i] < q[j]
    /\ \A x \in S : \E i \in 1 .. Cardinality(S) : q[i] = x

LEMMA ListExists ==
  ASSUME NEW S, S \subseteq Nat, IsFiniteSet(S)
  PROVE  \E q : Listed(S, q)
  <1> DEFINE Bad == {n \in Nat : \E T \in SUBSET S : Cardinality(T) = n /\ ~\E q : Listed(T, q)}
  <1>1. ASSUME Bad # {}
        PROVE  FALSE
    <2>1. PICK n \in Bad : \A k \in Bad : n <= k
      <3>1. Bad \subseteq Nat
        OBVIOUS
      <3> HIDE DEF Bad
      <3> QED BY <1>1, <3>1, LeastOf
    <2>2. PICK T \in SUBSET S : Cardinality(T) = n /\ ~\E q : Listed(T, q)
      OBVIOUS
    <2>3. IsFiniteSet(T) /\ T \subseteq Nat
      BY FS_Subset
    <2>4. T # {}
      <3> SUFFICES ASSUME T = {} PROVE FALSE
        OBVIOUS
      <3>1. Cardinality(T) = 0
        BY FS_EmptySet
      <3>2. Listed(T, [i \in 1 .. 0 |-> i])
        BY <3>1 DEF Listed
      <3> QED BY <2>2, <3>2
    <2>5. PICK m \in T : \A y \in T : y <= m
      BY <2>3, <2>4, GreatestOf
    <2> DEFINE R == T \ {m}
    <2>6. IsFiniteSet(R) /\ Cardinality(R) = n - 1 /\ R \subseteq S /\ n \in Nat
      BY <2>2, <2>3, FS_RemoveElement
    <2>7. n - 1 \in Nat
      BY <2>6, FS_CardinalityType
    <2>8. n - 1 \notin Bad
      <3> HIDE DEF Bad
      <3> QED BY <2>1, <2>6, <2>7
    <2>9. PICK q : Listed(R, q)
      BY <2>6, <2>7, <2>8
    <2> DEFINE z == [i \in 1 .. n |-> IF i = n THEN m ELSE q[i]]
    <2>10. \A i \in 1 .. n-1 : q[i] \in T /\ q[i] \in Nat /\ q[i] < m
      <3> TAKE i \in 1 .. n-1
      <3>1. q[i] \in R
        BY <2>6, <2>9 DEF Listed
      <3>2. q[i] \in T /\ q[i] # m /\ q[i] <= m /\ q[i] \in Nat /\ m \in Nat
        BY <3>1, <2>3, <2>5
      <3> QED BY <3>2
    <2>11. \A i \in 1 .. n : z[i] = IF i = n THEN m ELSE q[i]
      OBVIOUS
    <2>12. z \in [1 .. n -> T]
      BY <2>7, <2>10
    <2> HIDE DEF z
    <2>13. \A i, j \in 1 .. n : i < j => z[i] < z[j]
      <3> SUFFICES ASSUME NEW i \in 1 .. n, NEW j \in 1 .. n, i < j
                   PROVE  z[i] < z[j]
        OBVIOUS
      <3>1. i # n /\ i \in 1 .. n-1
        BY <2>6
      <3>2. CASE j = n
        BY <2>10, <2>11, <3>1, <3>2
      <3>3. CASE j # n
        <4>1. j \in 1 .. n-1
          BY <2>6, <3>3
        <4>2. q[i] < q[j]
          BY <2>6, <2>9, <3>1, <4>1 DEF Listed
        <4> QED BY <2>11, <3>1, <3>3, <4>2
      <3> QED BY <3>2, <3>3
    <2>14. \A x \in T : \E i \in 1 .. n : z[i] = x
      <3> TAKE x \in T
      <3>1. CASE x = m
        BY <2>6, <2>7, <2>11, <3>1
      <3>2. CASE x # m
        <4>1. PICK i \in 1 .. n-1 : q[i] = x
          BY <2>6, <2>9, <3>2 DEF Listed
        <4>2. i \in 1 .. n /\ i # n
          BY <2>6, <4>1
        <4> QED BY <2>11, <4>1, <4>2
      <3> QED BY <3>1, <3>2
    <2>15. Listed(T, z)
      BY <2>2, <2>12, <2>13, <2>14 DEF Listed
    <2> QED BY <2>2, <2>15
  <1>2. Cardinality(S) \in Nat
    BY FS_CardinalityType
  <1> QED BY <1>1, <1>2

(* What is strictly ordered lists every element: it is injective, and a    *)
(* set has no more elements than it has.                                   *)
LEMMA InOrderIs ==
  ASSUME NEW S, S \subseteq Nat, IsFiniteSet(S)
  PROVE  /\ InOrder(S) \in Seq(S) /\ Len(InOrder(S)) = Cardinality(S)
         /\ \A i, j \in 1 .. Len(InOrder(S)) : i < j => InOrder(S)[i] < InOrder(S)[j]
         /\ \A x \in S : \E i \in 1 .. Len(InOrder(S)) : InOrder(S)[i] = x
  <1> DEFINE n == Cardinality(S)
             q == InOrder(S)
             Ordered(f) == \A i, j \in DOMAIN f : i < j => f[i] < f[j]
  <1>1. n \in Nat
    BY FS_CardinalityType
  <1>2. \E f \in [1 .. n -> S] : Ordered(f)
    <2>1. PICK f : Listed(S, f)
      BY ListExists
    <2>2. f \in [1 .. n -> S] /\ \A i, j \in 1 .. n : i < j => f[i] < f[j]
      BY <2>1 DEF Listed
    <2> QED BY <2>2
  <1>3. q \in [1 .. n -> S] /\ Ordered(q)
    BY <1>2 DEF InOrder
  <1> HIDE DEF q
  <1>4. q \in Seq(S) /\ Len(q) = n
    BY <1>1, <1>3
  <1>5. \A i, j \in 1 .. n : i < j => q[i] < q[j]
    BY <1>3
  <1>6. q \in Injection(1 .. n, S)
    <2>1. \A i, j \in 1 .. n : q[i] = q[j] => i = j
      <3> SUFFICES ASSUME NEW i \in 1 .. n, NEW j \in 1 .. n, q[i] = q[j], i # j
                   PROVE  FALSE
        OBVIOUS
      <3>1. q[i] \in Nat /\ q[j] \in Nat /\ i \in Int /\ j \in Int
        <4>1. i \in 1 .. n /\ j \in 1 .. n
          OBVIOUS
        <4>2. q[i] \in S /\ q[j] \in S
          <5> HIDE DEF n
          <5> QED BY <1>3, <4>1
        <4>3. q[i] \in Nat /\ q[j] \in Nat
          BY <4>2
        <4>4. i \in Int /\ j \in Int
          BY <4>1, <1>1
        <4> QED BY <4>3, <4>4
      <3>2. i < j \/ j < i
        BY <3>1
      <3>3. q[i] < q[j] \/ q[j] < q[i]
        BY <1>5, <3>2
      <3> QED BY <3>1, <3>3
    <2> QED BY <1>3, <2>1 DEF Injection, IsInjective
  <1>7. Cardinality(1 .. n) = n /\ IsFiniteSet(1 .. n)
    BY <1>1, FS_Interval
  <1>8. q \in Surjection(1 .. n, S)
    BY <1>6, <1>7, FS_Injection
  <1>9. \A x \in S : \E i \in 1 .. n : q[i] = x
    BY <1>8 DEF Surjection
  <1> QED BY <1>4, <1>5, <1>9 DEF q

-----------------------------------------------------------------------------
(* Flattening: what the concatenation of b[1], ..., b[n] contains, and that *)
(* it is in order when every b[s] holds frames stamped s, each topic once. *)
Joins(b, n, f) == f = [i \in 1 .. n |-> IF i = 1 THEN b[i] ELSE f[i - 1] \o b[i]]

LEMMA JoinExists ==
  ASSUME NEW b, NEW n \in Nat, n # 0
  PROVE  \E f : Joins(b, n, f)
  <1> DEFINE Bad == {m \in 1 .. n : ~\E f : Joins(b, m, f)}
  <1>1. ASSUME Bad # {}
        PROVE  FALSE
    <2>1. PICK m \in Bad : \A k \in Bad : m <= k
      <3>1. Bad \subseteq Nat
        OBVIOUS
      <3> HIDE DEF Bad
      <3> QED BY <1>1, <3>1, LeastOf
    <2>2. m \in 1 .. n /\ ~\E f : Joins(b, m, f)
      OBVIOUS
    <2>3. m # 1
      <3> SUFFICES ASSUME m = 1 PROVE FALSE
        OBVIOUS
      <3> DEFINE g == [i \in 1 .. 1 |-> b[i]]
      <3>1. \A i \in 1 .. 1 : i = 1
        OBVIOUS
      <3>2. g = [i \in 1 .. 1 |-> IF i = 1 THEN b[i] ELSE g[i - 1] \o b[i]]
        BY <3>1
      <3>3. Joins(b, m, g)
        <4> HIDE DEF g
        <4> QED BY <3>2 DEF Joins
      <3> QED BY <2>2, <3>3
    <2>4. m - 1 \in 1 .. n /\ m \in Nat
      BY <2>2, <2>3
    <2>5. m - 1 \notin Bad
      <3> HIDE DEF Bad
      <3> QED BY <2>1, <2>4
    <2>6. PICK f : Joins(b, m - 1, f)
      BY <2>4, <2>5
    <2>7. f = [i \in 1 .. m - 1 |-> IF i = 1 THEN b[i] ELSE f[i - 1] \o b[i]]
      BY <2>6 DEF Joins
    <2> DEFINE g == [i \in 1 .. m |-> IF i = m THEN f[m - 1] \o b[m] ELSE f[i]]
    <2>8. \A i \in 1 .. m : g[i] = IF i = m THEN f[m - 1] \o b[m] ELSE f[i]
      OBVIOUS
    <2>9. DOMAIN g = 1 .. m /\ g = [i \in 1 .. m |-> g[i]]
      OBVIOUS
    <2> HIDE DEF g
    <2>10. \A i \in 1 .. m : g[i] = IF i = 1 THEN b[i] ELSE g[i - 1] \o b[i]
      <3> TAKE i \in 1 .. m
      <3>1. CASE i = m
        <4>1. g[i - 1] = f[m - 1]
          BY <2>3, <2>4, <2>8, <3>1
        <4> QED BY <2>3, <2>8, <3>1, <4>1
      <3>2. CASE i # m /\ i = 1
        <4>1. i \in 1 .. m - 1
          BY <2>4, <3>2
        <4> QED BY <2>7, <2>8, <3>2, <4>1
      <3>3. CASE i # m /\ i # 1
        <4>1. i \in 1 .. m - 1 /\ i - 1 \in 1 .. m /\ i - 1 # m
          BY <2>4, <3>3
        <4>2. f[i] = f[i - 1] \o b[i]
          BY <2>7, <3>3, <4>1
        <4> QED BY <2>8, <3>3, <4>1, <4>2
      <3> QED BY <3>1, <3>2, <3>3
    <2>11. g = [i \in 1 .. m |-> IF i = 1 THEN b[i] ELSE g[i - 1] \o b[i]]
      BY <2>9, <2>10
    <2>12. Joins(b, m, g)
      BY <2>11 DEF Joins
    <2> QED BY <2>2, <2>12
  <1>2. n \in 1 .. n
    OBVIOUS
  <1> QED BY <1>1, <1>2

LEMMA FlattenIs ==
  ASSUME NEW S, NEW n \in Nat, n # 0, NEW b \in [1 .. n -> S]
  PROVE  \E f : Joins(b, n, f) /\ FlattenSeq(b) = f[n]
  <1>1. Len(b) = n
    OBVIOUS
  <1> DEFINE h == CHOOSE f : f = [i \in 1 .. n |-> IF i = 1 THEN b[i] ELSE f[i - 1] \o b[i]]
  <1>2. Joins(b, n, h)
    BY JoinExists DEF Joins
  <1>3. FlattenSeq(b) = h[n]
    BY <1>1 DEF FlattenSeq
  <1> HIDE DEF h
  <1> QED BY <1>2, <1>3

-----------------------------------------------------------------------------
(* Frames.                                                                 *)
Frames == Topics \X Stamps

LEMMA StampsAreNat == Stamps \subseteq Nat \ {0} /\ \A s \in Stamps : 1 .. s \subseteq Stamps
  <1>1. MaxStamp \in [Topics -> Nat \ {0}]
    BY RecorderAssumption DEF Topics
  <1>2. \A s \in Stamps : s \in Nat \ {0} /\ 1 .. s \subseteq Stamps
    <2> SUFFICES ASSUME NEW s \in Stamps PROVE s \in Nat \ {0} /\ 1 .. s \subseteq Stamps
      OBVIOUS
    <2>1. PICK t \in Topics : s \in 1 .. MaxStamp[t]
      BY DEF Stamps
    <2>2. MaxStamp[t] \in Nat
      BY <1>1
    <2>3. s \in Nat \ {0} /\ 1 .. s \subseteq 1 .. MaxStamp[t]
      BY <2>1, <2>2
    <2>4. \A r \in 1 .. s : r \in Stamps
      BY <2>3 DEF Stamps
    <2> QED BY <2>3, <2>4
  <1> QED BY <1>2

LEMMA FrameFacts ==
  /\ \A t \in Topics : \A s \in Stamps :
       /\ FrameOf(t, s) \in Frames
       /\ TopicOf(FrameOf(t, s)) = t
       /\ StampOf(FrameOf(t, s)) = s
  /\ \A f \in Frames :
       /\ TopicOf(f) \in Topics /\ StampOf(f) \in Stamps /\ StampOf(f) \in Nat
       /\ f = FrameOf(TopicOf(f), StampOf(f))
  <1>1. \A t \in Topics : \A s \in Stamps :
          FrameOf(t, s) \in Frames /\ TopicOf(FrameOf(t, s)) = t /\ StampOf(FrameOf(t, s)) = s
    BY DEF Frames, FrameOf, TopicOf, StampOf
  <1>2. \A f \in Frames : \E t \in Topics : \E s \in Stamps : f = FrameOf(t, s)
    BY DEF Frames, FrameOf
  <1>3. \A f \in Frames :
          /\ TopicOf(f) \in Topics /\ StampOf(f) \in Stamps
          /\ f = FrameOf(TopicOf(f), StampOf(f))
    <2> TAKE f \in Frames
    <2>1. PICK t \in Topics : \E s \in Stamps : f = FrameOf(t, s)
      BY <1>2
    <2>2. PICK s \in Stamps : f = FrameOf(t, s)
      BY <2>1
    <2>3. TopicOf(f) = t /\ StampOf(f) = s
      BY <1>1, <2>2
    <2> QED BY <2>2, <2>3
  <1>4. \A s \in Stamps : s \in Nat
    BY StampsAreNat
  <1> QED BY <1>1, <1>3, <1>4

LEMMA ConcatIs ==
  ASSUME NEW S, NEW q \in Seq(S), NEW r \in Seq(S)
  PROVE  /\ q \o r \in Seq(S) /\ Len(q \o r) = Len(q) + Len(r)
         /\ \A i \in 1 .. Len(q) : i \in 1 .. Len(q \o r) /\ (q \o r)[i] = q[i]
         /\ \A i \in 1 .. Len(r) : Len(q) + i \in 1 .. Len(q \o r) /\ (q \o r)[Len(q) + i] = r[i]
         /\ \A i \in 1 .. Len(q \o r) :
              \/ i \in 1 .. Len(q) /\ (q \o r)[i] = q[i]
              \/ i > Len(q) /\ i - Len(q) \in 1 .. Len(r) /\ (q \o r)[i] = r[i - Len(q)]
         /\ Len(q) \in Nat /\ Len(r) \in Nat
  OBVIOUS

(* Two stretches in order make one in order when every stamp of a topic in *)
(* the second is later than every stamp of that topic in the first.        *)
Ascending(q) ==
  \A i, j \in 1 .. Len(q) :
    i < j /\ TopicOf(q[i]) = TopicOf(q[j]) /\ TopicOf(q[i]) # "command" => StampOf(q[i]) < StampOf(q[j])

LEMMA AscendingJoin ==
  ASSUME NEW q \in Seq(Frames), NEW r \in Seq(Frames), Ascending(q), Ascending(r),
         \A i \in 1 .. Len(q) : \A j \in 1 .. Len(r) :
           TopicOf(q[i]) = TopicOf(r[j]) /\ TopicOf(q[i]) # "command" => StampOf(q[i]) < StampOf(r[j])
  PROVE  Ascending(q \o r)
  <1> DEFINE z == q \o r
  <1>1. /\ Len(q) \in Nat /\ Len(r) \in Nat /\ Len(z) \in Nat
        /\ \A i \in 1 .. Len(z) :
             \/ i \in 1 .. Len(q) /\ z[i] = q[i]
             \/ i > Len(q) /\ i - Len(q) \in 1 .. Len(r) /\ z[i] = r[i - Len(q)]
    BY ConcatIs
  <1> HIDE DEF z
  <1>2. SUFFICES ASSUME NEW i \in 1 .. Len(z), NEW j \in 1 .. Len(z), i < j,
                        TopicOf(z[i]) = TopicOf(z[j]), TopicOf(z[i]) # "command"
                 PROVE  StampOf(z[i]) < StampOf(z[j])
    BY DEF Ascending, z
  <1>3. CASE j \in 1 .. Len(q) /\ z[j] = q[j]
    <2>1. i \in 1 .. Len(q) /\ z[i] = q[i]
      BY <1>1, <1>2, <1>3
    <2> QED BY <1>2, <1>3, <2>1 DEF Ascending
  <1>4. ASSUME j > Len(q), j - Len(q) \in 1 .. Len(r), z[j] = r[j - Len(q)]
        PROVE  StampOf(z[i]) < StampOf(z[j])
    <2>1. CASE i \in 1 .. Len(q) /\ z[i] = q[i]
      BY <1>2, <1>4, <2>1
    <2>2. CASE i > Len(q) /\ i - Len(q) \in 1 .. Len(r) /\ z[i] = r[i - Len(q)]
      <3>1. i - Len(q) < j - Len(q)
        BY <1>1, <1>2, <1>4
      <3> QED BY <1>2, <1>4, <2>2, <3>1 DEF Ascending
    <2> QED BY <1>1, <2>1, <2>2
  <1> QED BY <1>1, <1>3, <1>4

(* What the first m chunks hold, and nothing else, in order.               *)
Flattened(b, m, q) ==
    /\ q \in Seq(Frames) /\ Ascending(q)
    /\ \A i \in 1 .. Len(q) : \E s \in 1 .. m : \E k \in 1 .. Len(b[s]) : q[i] = b[s][k]
    /\ \A s \in 1 .. m : \A k \in 1 .. Len(b[s]) : \E i \in 1 .. Len(q) : q[i] = b[s][k]

(* A chunk per stamp, each topic in it once.                               *)
Chunks(b, n) ==
    /\ b \in [1 .. n -> Seq(Frames)]
    /\ \A s \in 1 .. n : \A k \in 1 .. Len(b[s]) : StampOf(b[s][k]) = s
    /\ \A s \in 1 .. n : \A k, l \in 1 .. Len(b[s]) : TopicOf(b[s][k]) = TopicOf(b[s][l]) => k = l

LEMMA ChunkAscends ==
  ASSUME NEW n \in Nat, NEW b, Chunks(b, n), NEW s \in 1 .. n
  PROVE  Ascending(b[s])
  <1> SUFFICES ASSUME NEW i \in 1 .. Len(b[s]), NEW j \in 1 .. Len(b[s]), i < j,
                      TopicOf(b[s][i]) = TopicOf(b[s][j])
               PROVE  FALSE
    BY DEF Ascending
  <1>1. i = j
    BY DEF Chunks
  <1>2. b[s] \in Seq(Frames)
    BY DEF Chunks
  <1>3. i \in Int /\ j \in Int
    BY <1>2
  <1> QED BY <1>1, <1>3

LEMMA FlattenFirst ==
  ASSUME NEW n \in Nat, n # 0, NEW b, Chunks(b, n)
  PROVE  Flattened(b, 1, b[1])
  <1>1. 1 \in 1 .. n
    OBVIOUS
  <1>2. b[1] \in Seq(Frames) /\ Ascending(b[1])
    BY <1>1, ChunkAscends DEF Chunks
  <1>3. 1 \in 1 .. 1 /\ \A s \in 1 .. 1 : s = 1
    OBVIOUS
  <1>4. \A i \in 1 .. Len(b[1]) : \E s \in 1 .. 1 : \E k \in 1 .. Len(b[s]) : b[1][i] = b[s][k]
    BY <1>3
  <1>5. \A s \in 1 .. 1 : \A k \in 1 .. Len(b[s]) : \E i \in 1 .. Len(b[1]) : b[1][i] = b[s][k]
    BY <1>3
  <1> QED BY <1>2, <1>4, <1>5 DEF Flattened

LEMMA FlattenNext ==
  ASSUME NEW n \in Nat, NEW b, Chunks(b, n), NEW m \in 1 .. n, m # n, NEW q, Flattened(b, m, q)
  PROVE  Flattened(b, m + 1, q \o b[m + 1])
  <1> DEFINE r == b[m + 1]
             z == q \o r
  <1>1. m + 1 \in 1 .. n /\ m \in Nat
    OBVIOUS
  <1>2. r \in Seq(Frames) /\ Ascending(r) /\ \A k \in 1 .. Len(r) : StampOf(r[k]) = m + 1
    BY <1>1, ChunkAscends DEF Chunks
  <1>3. q \in Seq(Frames) /\ Ascending(q)
    BY DEF Flattened
  <1>4. \A i \in 1 .. Len(q) : StampOf(q[i]) \in 1 .. m
    <2> TAKE i \in 1 .. Len(q)
    <2>1. PICK s \in 1 .. m : \E k \in 1 .. Len(b[s]) : q[i] = b[s][k]
      BY DEF Flattened
    <2>2. PICK k \in 1 .. Len(b[s]) : q[i] = b[s][k]
      BY <2>1
    <2>3. s \in 1 .. n
      BY <1>1
    <2>4. StampOf(b[s][k]) = s
      BY <2>3 DEF Chunks
    <2> QED BY <2>2, <2>4
  <1> HIDE DEF r
  <1>5. \A i \in 1 .. Len(q) : \A j \in 1 .. Len(r) : StampOf(q[i]) < StampOf(r[j])
    BY <1>1, <1>2, <1>4
  <1>6. Ascending(z)
    BY <1>2, <1>3, <1>5, AscendingJoin
  <1>7. /\ z \in Seq(Frames)
        /\ \A i \in 1 .. Len(q) : i \in 1 .. Len(z) /\ z[i] = q[i]
        /\ \A i \in 1 .. Len(r) : Len(q) + i \in 1 .. Len(z) /\ z[Len(q) + i] = r[i]
        /\ \A i \in 1 .. Len(z) :
             \/ i \in 1 .. Len(q) /\ z[i] = q[i]
             \/ i > Len(q) /\ i - Len(q) \in 1 .. Len(r) /\ z[i] = r[i - Len(q)]
    BY <1>2, <1>3, ConcatIs
  <1> HIDE DEF z
  <1>8. \A i \in 1 .. Len(z) : \E s \in 1 .. m + 1 : \E k \in 1 .. Len(b[s]) : z[i] = b[s][k]
    <2> TAKE i \in 1 .. Len(z)
    <2>1. CASE i \in 1 .. Len(q) /\ z[i] = q[i]
      <3>1. PICK s \in 1 .. m : \E k \in 1 .. Len(b[s]) : q[i] = b[s][k]
        BY <2>1 DEF Flattened
      <3>2. s \in 1 .. m + 1
        BY <1>1
      <3> QED BY <2>1, <3>1, <3>2
    <2>2. CASE i > Len(q) /\ i - Len(q) \in 1 .. Len(r) /\ z[i] = r[i - Len(q)]
      <3>1. m + 1 \in 1 .. m + 1
        BY <1>1
      <3> QED BY <2>2, <3>1 DEF r
    <2> QED BY <1>7, <2>1, <2>2
  <1>9. \A s \in 1 .. m + 1 : \A k \in 1 .. Len(b[s]) : \E i \in 1 .. Len(z) : z[i] = b[s][k]
    <2> SUFFICES ASSUME NEW s \in 1 .. m + 1, NEW k \in 1 .. Len(b[s])
                 PROVE  \E i \in 1 .. Len(z) : z[i] = b[s][k]
      OBVIOUS
    <2>1. CASE s = m + 1
      BY <1>7, <2>1 DEF r
    <2>2. CASE s # m + 1
      <3>1. s \in 1 .. m
        BY <1>1, <2>2
      <3>2. PICK i \in 1 .. Len(q) : q[i] = b[s][k]
        BY <3>1 DEF Flattened
      <3> QED BY <1>7, <3>2
    <2> QED BY <2>1, <2>2
  <1> QED BY <1>6, <1>7, <1>8, <1>9 DEF Flattened, z, r

LEMMA FlattenOf ==
  ASSUME NEW n \in Nat, n # 0, NEW b, Chunks(b, n)
  PROVE  Flattened(b, n, FlattenSeq(b))
  <1>1. b \in [1 .. n -> Seq(Frames)]
    BY DEF Chunks
  <1>2. PICK f : Joins(b, n, f) /\ FlattenSeq(b) = f[n]
    BY <1>1, FlattenIs
  <1>3. \A i \in 1 .. n : f[i] = IF i = 1 THEN b[i] ELSE f[i - 1] \o b[i]
    BY <1>2 DEF Joins
  <1> DEFINE Bad == {m \in 1 .. n : ~Flattened(b, m, f[m])}
  <1>4. ASSUME Bad # {}
        PROVE  FALSE
    <2>1. PICK m \in Bad : \A k \in Bad : m <= k
      <3>1. Bad \subseteq Nat
        OBVIOUS
      <3> HIDE DEF Bad
      <3> QED BY <1>4, <3>1, LeastOf
    <2>2. m \in 1 .. n /\ ~Flattened(b, m, f[m])
      OBVIOUS
    <2>3. m # 1
      <3> SUFFICES ASSUME m = 1 PROVE FALSE
        OBVIOUS
      <3>1. f[m] = b[1]
        BY <1>3, <2>2
      <3> QED BY <2>2, <3>1, FlattenFirst
    <2>4. m - 1 \in 1 .. n /\ m - 1 # n /\ m \in Nat
      BY <2>2, <2>3
    <2>5. m - 1 \notin Bad
      <3> HIDE DEF Bad
      <3> QED BY <2>1, <2>4
    <2>6. Flattened(b, m - 1, f[m - 1])
      BY <2>4, <2>5
    <2> DEFINE l == m - 1
    <2>7. Flattened(b, l + 1, f[l] \o b[l + 1])
      <3> HIDE DEF l
      <3>1. l \in 1 .. n /\ l # n /\ Flattened(b, l, f[l])
        BY <2>4, <2>6 DEF l
      <3> QED BY <3>1, FlattenNext
    <2>8. l + 1 = m
      BY <2>4
    <2>9. f[m] = f[l] \o b[m]
      BY <1>3, <2>2, <2>3
    <2> QED BY <2>2, <2>7, <2>8, <2>9
  <1>5. n \in 1 .. n
    OBVIOUS
  <1> QED BY <1>2, <1>4, <1>5

-----------------------------------------------------------------------------
(* What CommitThrough hands on.                                            *)
WindowRecord(w) == w = [state |-> w.state, last |-> w.last, sensors |-> w.sensors, wheels |-> w.wheels]
WindowShape(w) ==
    /\ w = [state |-> w.state, last |-> w.last, sensors |-> w.sensors, wheels |-> w.wheels]
    /\ w.last \in Nat /\ w.sensors \in [Stamps -> Seq(SensorTopics)]
    /\ w.wheels \subseteq Stamps /\ IsFiniteSet(w.wheels)

(* What is pending lies after the last boundary, each topic of a boundary once. *)
Pending(w) ==
    /\ \A s \in Stamps : s <= w.last => w.sensors[s] = <<>>
    /\ \A s \in Stamps : \A i, j \in 1 .. Len(w.sensors[s]) : w.sensors[s][i] = w.sensors[s][j] => i = j
    /\ \A t \in w.wheels : t > w.last

Boundary(w, s) == [i \in DOMAIN w.sensors[s] |-> FrameOf(w.sensors[s][i], s)]
Boundaries(w, n) == [s \in 1 .. n |-> Boundary(w, s)]

LEMMA SensorTopicFacts ==
  /\ SensorTopics \subseteq Topics /\ "wheel" \in Topics /\ "command" \in Topics
  /\ "wheel" \notin SensorTopics /\ "command" \notin SensorTopics
  BY RecorderAssumption DEF Topics

LEMMA BoundaryIs ==
  ASSUME NEW w, WindowShape(w), NEW s \in Stamps
  PROVE  /\ Boundary(w, s) \in Seq(Frames) /\ Len(Boundary(w, s)) = Len(w.sensors[s])
         /\ \A i \in 1 .. Len(w.sensors[s]) :
              /\ w.sensors[s][i] \in SensorTopics
              /\ Boundary(w, s)[i] = FrameOf(w.sensors[s][i], s)
              /\ TopicOf(Boundary(w, s)[i]) = w.sensors[s][i] /\ StampOf(Boundary(w, s)[i]) = s
  <1> DEFINE q == w.sensors[s]
  <1>1. q \in Seq(SensorTopics)
    BY DEF WindowShape
  <1>2. \A i \in 1 .. Len(q) : q[i] \in SensorTopics /\ FrameOf(q[i], s) \in Frames
                                /\ TopicOf(FrameOf(q[i], s)) = q[i] /\ StampOf(FrameOf(q[i], s)) = s
    BY <1>1, SensorTopicFacts, FrameFacts
  <1>3. DOMAIN q = 1 .. Len(q) /\ Len(q) \in Nat
    BY <1>1
  <1>4. Boundary(w, s) = [i \in 1 .. Len(q) |-> FrameOf(q[i], s)]
    BY <1>3 DEF Boundary
  <1> HIDE DEF q
  <1>5. Boundary(w, s) \in Seq(Frames) /\ Len(Boundary(w, s)) = Len(q)
    BY <1>2, <1>3, <1>4
  <1>6. \A i \in 1 .. Len(q) : Boundary(w, s)[i] = FrameOf(q[i], s)
    BY <1>4
  <1> QED BY <1>2, <1>5, <1>6 DEF q

LEMMA BoundariesAreChunks ==
  ASSUME NEW w, WindowShape(w), Pending(w), NEW n \in Stamps
  PROVE  Chunks(Boundaries(w, n), n)
  <1> DEFINE b == Boundaries(w, n)
  <1>1. \A s \in 1 .. n : s \in Stamps /\ b[s] = Boundary(w, s)
    BY StampsAreNat DEF Boundaries
  <1>2. b = [s \in 1 .. n |-> b[s]]
    BY DEF Boundaries
  <1> HIDE DEF b
  <1>3. \A s \in 1 .. n : b[s] \in Seq(Frames)
    BY <1>1, BoundaryIs
  <1>4. b \in [1 .. n -> Seq(Frames)]
    BY <1>2, <1>3
  <1>5. \A s \in 1 .. n : \A k \in 1 .. Len(b[s]) : StampOf(b[s][k]) = s
    BY <1>1, BoundaryIs
  <1>6. \A s \in 1 .. n : \A k, l \in 1 .. Len(b[s]) : TopicOf(b[s][k]) = TopicOf(b[s][l]) => k = l
    <2> SUFFICES ASSUME NEW s \in 1 .. n, NEW k \in 1 .. Len(b[s]), NEW l \in 1 .. Len(b[s]),
                        TopicOf(b[s][k]) = TopicOf(b[s][l])
                 PROVE  k = l
      OBVIOUS
    <2>1. s \in Stamps /\ b[s] = Boundary(w, s)
      BY <1>1
    <2>2. Len(b[s]) = Len(w.sensors[s])
      BY <2>1, BoundaryIs
    <2>3. k \in 1 .. Len(w.sensors[s]) /\ l \in 1 .. Len(w.sensors[s])
      BY <2>2
    <2>4. w.sensors[s][k] = w.sensors[s][l]
      BY <2>1, <2>3, BoundaryIs
    <2> QED BY <2>1, <2>3, <2>4 DEF Pending
  <1> QED BY <1>4, <1>5, <1>6 DEF Chunks, b

(* The sensor frames of a commit.                                          *)
Sensed(w, n) == FlattenSeq(Boundaries(w, n))

LEMMA SensedIs ==
  ASSUME NEW w, WindowShape(w), Pending(w), NEW n \in Stamps
  PROVE  /\ Sensed(w, n) \in Seq(Frames) /\ Ascending(Sensed(w, n))
         /\ \A i \in 1 .. Len(Sensed(w, n)) :
              /\ TopicOf(Sensed(w, n)[i]) \in SensorTopics /\ StampOf(Sensed(w, n)[i]) \in 1 .. n
              /\ w.sensors[StampOf(Sensed(w, n)[i])] # <<>>
         /\ \A s \in 1 .. n : \A k \in 1 .. Len(w.sensors[s]) :
              \E i \in 1 .. Len(Sensed(w, n)) : Sensed(w, n)[i] = FrameOf(w.sensors[s][k], s)
  <1> DEFINE b == Boundaries(w, n)
             q == Sensed(w, n)
  <1>1. n \in Nat /\ n # 0
    BY StampsAreNat
  <1>2. Flattened(b, n, q)
    <2>1. Chunks(b, n)
      BY BoundariesAreChunks
    <2>2. q = FlattenSeq(b)
      BY DEF Sensed
    <2> HIDE DEF b, q
    <2> QED BY <1>1, <2>1, <2>2, FlattenOf
  <1>3. \A s \in 1 .. n : s \in Stamps /\ b[s] = Boundary(w, s)
    BY StampsAreNat DEF Boundaries
  <1> HIDE DEF b, q
  <1>4. q \in Seq(Frames) /\ Ascending(q)
    BY <1>2 DEF Flattened
  <1>5. \A i \in 1 .. Len(q) :
          TopicOf(q[i]) \in SensorTopics /\ StampOf(q[i]) \in 1 .. n /\ w.sensors[StampOf(q[i])] # <<>>
    <2> TAKE i \in 1 .. Len(q)
    <2>1. PICK s \in 1 .. n : \E k \in 1 .. Len(b[s]) : q[i] = b[s][k]
      BY <1>2 DEF Flattened
    <2>2. PICK k \in 1 .. Len(b[s]) : q[i] = b[s][k]
      BY <2>1
    <2>3. s \in Stamps /\ b[s] = Boundary(w, s) /\ Len(b[s]) = Len(w.sensors[s])
      BY <1>3, BoundaryIs
    <2>4. TopicOf(q[i]) \in SensorTopics /\ StampOf(q[i]) = s
      BY <2>2, <2>3, BoundaryIs
    <2>5. w.sensors[s] # <<>>
      <3> SUFFICES ASSUME w.sensors[s] = <<>> PROVE FALSE
        OBVIOUS
      <3>1. Len(w.sensors[s]) = 0
        OBVIOUS
      <3> QED BY <2>2, <2>3, <3>1
    <2> QED BY <2>4, <2>5
  <1>6. \A s \in 1 .. n : \A k \in 1 .. Len(w.sensors[s]) :
          \E i \in 1 .. Len(q) : q[i] = FrameOf(w.sensors[s][k], s)
    <2> SUFFICES ASSUME NEW s \in 1 .. n, NEW k \in 1 .. Len(w.sensors[s])
                 PROVE  \E i \in 1 .. Len(q) : q[i] = FrameOf(w.sensors[s][k], s)
      OBVIOUS
    <2>1. s \in Stamps /\ b[s] = Boundary(w, s) /\ Len(b[s]) = Len(w.sensors[s])
      BY <1>3, BoundaryIs
    <2>2. b[s][k] = FrameOf(w.sensors[s][k], s)
      BY <2>1, BoundaryIs
    <2> QED BY <1>2, <2>1, <2>2 DEF Flattened
  <1> QED BY <1>4, <1>5, <1>6 DEF q

(* The wheel states of a commit.                                           *)
Due(w, n) == {t \in w.wheels : t <= n}
Rolled(w, n) == [i \in DOMAIN InOrder(Due(w, n)) |-> FrameOf("wheel", InOrder(Due(w, n))[i])]

LEMMA RolledIs ==
  ASSUME NEW w, WindowShape(w), NEW n \in Stamps
  PROVE  /\ Rolled(w, n) \in Seq(Frames) /\ Ascending(Rolled(w, n))
         /\ \A i \in 1 .. Len(Rolled(w, n)) :
              TopicOf(Rolled(w, n)[i]) = "wheel" /\ StampOf(Rolled(w, n)[i]) \in Due(w, n)
  <1> DEFINE S == Due(w, n)
             q == InOrder(S)
             r == Rolled(w, n)
  <1>1. S \subseteq Nat /\ S \subseteq Stamps /\ IsFiniteSet(S)
    BY StampsAreNat, FS_Subset DEF Due, WindowShape
  <1>2. q \in Seq(S) /\ \A i, j \in 1 .. Len(q) : i < j => q[i] < q[j]
    <2> HIDE DEF S
    <2> QED BY <1>1, InOrderIs
  <1>3. r = [i \in DOMAIN q |-> FrameOf("wheel", q[i])]
    BY DEF Rolled
  <1> HIDE DEF S, q, r
  <1>4. DOMAIN q = 1 .. Len(q) /\ Len(q) \in Nat /\ \A i \in 1 .. Len(q) : q[i] \in S
    BY <1>2
  <1>5. r = [i \in 1 .. Len(q) |-> FrameOf("wheel", q[i])]
    BY <1>3, <1>4
  <1>6. \A i \in 1 .. Len(q) : /\ FrameOf("wheel", q[i]) \in Frames
                               /\ TopicOf(FrameOf("wheel", q[i])) = "wheel"
                               /\ StampOf(FrameOf("wheel", q[i])) = q[i]
    <2> TAKE i \in 1 .. Len(q)
    <2>1. q[i] \in Stamps
      BY <1>1, <1>4
    <2> QED BY <2>1, FrameFacts, SensorTopicFacts
  <1>7. r \in Seq(Frames) /\ Len(r) = Len(q)
    BY <1>4, <1>5, <1>6
  <1>8. \A i \in 1 .. Len(r) : TopicOf(r[i]) = "wheel" /\ StampOf(r[i]) = q[i] /\ q[i] \in S
    BY <1>4, <1>5, <1>6, <1>7
  <1>9. Ascending(r)
    BY <1>2, <1>7, <1>8 DEF Ascending
  <1> QED BY <1>7, <1>8, <1>9 DEF r, S

-----------------------------------------------------------------------------
(* The window, the log of what it committed and the frames it was shown.   *)
(* What is committed lies up to the last boundary, in the order of its topic. *)
LogOK(w, log) ==
    /\ log \in Seq(Frames) /\ Ascending(log)
    /\ \A i \in 1 .. Len(log) : TopicOf(log[i]) # "command" => StampOf(log[i]) <= w.last

(* A sensor frame that was shown is committed, is pending, or came before  *)
(* the first boundary of all.                                              *)
IsCommitted(log, f) == \E i \in 1 .. Len(log) : log[i] = f
IsPending(w, f) == \E i \in 1 .. Len(w.sensors[StampOf(f)]) : w.sensors[StampOf(f)][i] = TopicOf(f)
Precedes(log, f) == \A i \in 1 .. Len(log) : OfSensor(log[i]) => StampOf(f) < StampOf(log[i])
CameBefore(w, log, f) == StampOf(f) <= w.last /\ Precedes(log, f)
ShownOK(w, log, shown) ==
    /\ shown \subseteq Frames
    /\ \A f \in shown : OfSensor(f) => IsCommitted(log, f) \/ IsPending(w, f) \/ CameBefore(w, log, f)

WindowOK(w, log, shown) == WindowShape(w) /\ Pending(w) /\ LogOK(w, log) /\ ShownOK(w, log, shown)

(* The window after a commit.                                              *)
Cleared(w, n) == [s \in Stamps |-> IF s <= n THEN <<>> ELSE w.sensors[s]]
After(w, n) == [state |-> w.state, last |-> n, sensors |-> Cleared(w, n), wheels |-> {t \in w.wheels : t > n}]

LEMMA WindowExcept ==
  ASSUME NEW w, WindowShape(w), NEW c, NEW v, NEW x
  PROVE  /\ [w EXCEPT !.sensors = c] = [state |-> w.state, last |-> w.last, sensors |-> c, wheels |-> w.wheels]
         /\ [w EXCEPT !.wheels = v] = [state |-> w.state, last |-> w.last, sensors |-> w.sensors, wheels |-> v]
         /\ [w EXCEPT !.state = x] = [state |-> x, last |-> w.last, sensors |-> w.sensors, wheels |-> w.wheels]
  <1> DEFINE a == w.state
             b == w.last
             d == w.sensors
             e == w.wheels
  <1>1. w = [state |-> a, last |-> b, sensors |-> d, wheels |-> e]
    BY DEF WindowShape
  <1> HIDE DEF a, b, d, e
  <1>2. [w EXCEPT !.sensors = c] = [state |-> a, last |-> b, sensors |-> c, wheels |-> e]
    BY <1>1
  <1>3. [w EXCEPT !.wheels = v] = [state |-> a, last |-> b, sensors |-> d, wheels |-> v]
    BY <1>1
  <1>4. [w EXCEPT !.state = x] = [state |-> x, last |-> b, sensors |-> d, wheels |-> e]
    BY <1>1
  <1> QED BY <1>2, <1>3, <1>4 DEF a, b, d, e

LEMMA CommitIs ==
  ASSUME NEW w, WindowShape(w), NEW n \in Stamps
  PROVE  CommitThrough(w, n) = [frames |-> Sensed(w, n) \o Rolled(w, n), window |-> After(w, n)]
  BY DEF CommitThrough, Sensed, Rolled, Due, Boundaries, Boundary, After, Cleared

LEMMA AfterIs ==
  ASSUME NEW w, WindowShape(w), Pending(w), NEW n \in Stamps, n > w.last
  PROVE  WindowShape(After(w, n)) /\ Pending(After(w, n))
  <1> DEFINE x == After(w, n)
  <1>1. /\ x = [state |-> x.state, last |-> x.last, sensors |-> x.sensors, wheels |-> x.wheels]
        /\ x.last = n /\ x.sensors = Cleared(w, n) /\ x.wheels = {t \in w.wheels : t > n}
    BY DEF After
  <1>2. <<>> \in Seq(SensorTopics)
    OBVIOUS
  <1>3. Cleared(w, n) \in [Stamps -> Seq(SensorTopics)]
        /\ \A s \in Stamps : Cleared(w, n)[s] = IF s <= n THEN <<>> ELSE w.sensors[s]
    BY <1>2 DEF Cleared, WindowShape
  <1>4. n \in Nat
    BY StampsAreNat
  <1> HIDE DEF x
  <1>5. x.wheels \subseteq Stamps /\ IsFiniteSet(x.wheels)
    BY <1>1, FS_Subset DEF WindowShape
  <1>6. WindowShape(x)
    BY <1>1, <1>3, <1>4, <1>5 DEF WindowShape
  <1>7. \A s \in Stamps : \A i, j \in 1 .. Len(x.sensors[s]) : x.sensors[s][i] = x.sensors[s][j] => i = j
    <2> SUFFICES ASSUME NEW s \in Stamps, NEW i \in 1 .. Len(x.sensors[s]), NEW j \in 1 .. Len(x.sensors[s]),
                        x.sensors[s][i] = x.sensors[s][j]
                 PROVE  i = j
      OBVIOUS
    <2>1. CASE s <= n
      <3>1. x.sensors[s] = <<>>
        BY <1>1, <1>3, <2>1
      <3>2. Len(x.sensors[s]) = 0
        BY <3>1
      <3> QED BY <3>2
    <2>2. CASE ~(s <= n)
      <3>1. x.sensors[s] = w.sensors[s]
        BY <1>1, <1>3, <2>2
      <3> QED BY <3>1 DEF Pending
    <2> QED BY <2>1, <2>2
  <1>8. Pending(x)
    BY <1>1, <1>3, <1>7 DEF Pending
  <1> QED BY <1>6, <1>8 DEF x

(* A commit keeps the log in order: whatever it adds was pending, and so   *)
(* lies after the last boundary.                                           *)
Committed(w, n) == Sensed(w, n) \o Rolled(w, n)

LEMMA CommittedIs ==
  ASSUME NEW w, WindowShape(w), Pending(w), NEW n \in Stamps
  PROVE  /\ Committed(w, n) \in Seq(Frames) /\ Ascending(Committed(w, n))
         /\ \A i \in 1 .. Len(Committed(w, n)) :
              /\ TopicOf(Committed(w, n)[i]) # "command"
              /\ StampOf(Committed(w, n)[i]) > w.last /\ StampOf(Committed(w, n)[i]) <= n
              /\ OfSensor(Committed(w, n)[i]) => w.sensors[StampOf(Committed(w, n)[i])] # <<>>
         /\ \A s \in 1 .. n : \A k \in 1 .. Len(w.sensors[s]) :
              \E i \in 1 .. Len(Committed(w, n)) : Committed(w, n)[i] = FrameOf(w.sensors[s][k], s)
  <1> DEFINE q == Sensed(w, n)
             r == Rolled(w, n)
             z == Committed(w, n)
  <1>1. /\ q \in Seq(Frames) /\ Ascending(q)
        /\ \A i \in 1 .. Len(q) : TopicOf(q[i]) \in SensorTopics /\ StampOf(q[i]) \in 1 .. n
                                   /\ w.sensors[StampOf(q[i])] # <<>>
        /\ \A s \in 1 .. n : \A k \in 1 .. Len(w.sensors[s]) :
             \E i \in 1 .. Len(q) : q[i] = FrameOf(w.sensors[s][k], s)
    BY SensedIs
  <1>2. /\ r \in Seq(Frames) /\ Ascending(r)
        /\ \A i \in 1 .. Len(r) : TopicOf(r[i]) = "wheel" /\ StampOf(r[i]) \in Due(w, n)
    BY RolledIs
  <1>3. z = q \o r
    BY DEF Committed
  <1>4. w.last \in Nat /\ n \in Nat /\ \A s \in 1 .. n : s \in Stamps
    BY StampsAreNat DEF WindowShape
  <1> HIDE DEF q, r, z
  <1>5. /\ z \in Seq(Frames)
        /\ \A i \in 1 .. Len(q) : i \in 1 .. Len(z) /\ z[i] = q[i]
        /\ \A i \in 1 .. Len(z) :
             \/ i \in 1 .. Len(q) /\ z[i] = q[i]
             \/ i > Len(q) /\ i - Len(q) \in 1 .. Len(r) /\ z[i] = r[i - Len(q)]
    BY <1>1, <1>2, <1>3, ConcatIs
  <1>6. Ascending(z)
    <2>1. \A i \in 1 .. Len(q) : \A j \in 1 .. Len(r) : TopicOf(q[i]) # TopicOf(r[j])
      BY <1>1, <1>2, SensorTopicFacts
    <2> QED BY <1>1, <1>2, <1>3, <2>1, AscendingJoin
  <1>7. \A i \in 1 .. Len(q) :
          TopicOf(q[i]) # "command" /\ StampOf(q[i]) > w.last /\ StampOf(q[i]) <= n
    <2> TAKE i \in 1 .. Len(q)
    <2> DEFINE s == StampOf(q[i])
    <2>1. s \in Stamps /\ s \in 1 .. n /\ w.sensors[s] # <<>> /\ TopicOf(q[i]) \in SensorTopics
      BY <1>1, <1>4
    <2>2. s \in Nat /\ s <= n /\ ~(s <= w.last)
      BY <1>4, <2>1 DEF Pending
    <2> HIDE DEF s
    <2>3. s > w.last
      BY <1>4, <2>2
    <2> QED BY <2>1, <2>2, <2>3, SensorTopicFacts DEF s
  <1>8. \A i \in 1 .. Len(r) :
          TopicOf(r[i]) = "wheel" /\ StampOf(r[i]) > w.last /\ StampOf(r[i]) <= n
    BY <1>2 DEF Due, Pending
  <1>9. \A i \in 1 .. Len(z) :
          /\ TopicOf(z[i]) # "command" /\ StampOf(z[i]) > w.last /\ StampOf(z[i]) <= n
          /\ OfSensor(z[i]) => w.sensors[StampOf(z[i])] # <<>>
    <2> TAKE i \in 1 .. Len(z)
    <2>1. CASE i \in 1 .. Len(q) /\ z[i] = q[i]
      BY <1>1, <1>7, <2>1
    <2>2. CASE i > Len(q) /\ i - Len(q) \in 1 .. Len(r) /\ z[i] = r[i - Len(q)]
      BY <1>8, <2>2, SensorTopicFacts DEF OfSensor
    <2> QED BY <1>5, <2>1, <2>2
  <1>10. \A s \in 1 .. n : \A k \in 1 .. Len(w.sensors[s]) :
           \E i \in 1 .. Len(z) : z[i] = FrameOf(w.sensors[s][k], s)
    <2> SUFFICES ASSUME NEW s \in 1 .. n, NEW k \in 1 .. Len(w.sensors[s])
                 PROVE  \E i \in 1 .. Len(z) : z[i] = FrameOf(w.sensors[s][k], s)
      OBVIOUS
    <2>1. PICK i \in 1 .. Len(q) : q[i] = FrameOf(w.sensors[s][k], s)
      BY <1>1
    <2> QED BY <1>5, <2>1
  <1> QED BY <1>5, <1>6, <1>9, <1>10 DEF z

LEMMA LogAfterCommit ==
  ASSUME NEW w, NEW log, WindowShape(w), Pending(w), LogOK(w, log), NEW n \in Stamps, n > w.last
  PROVE  LogOK(After(w, n), log \o Committed(w, n))
  <1> DEFINE r == Committed(w, n)
             z == log \o r
  <1>1. /\ r \in Seq(Frames) /\ Ascending(r)
        /\ \A i \in 1 .. Len(r) : StampOf(r[i]) > w.last /\ StampOf(r[i]) <= n
    BY CommittedIs
  <1>2. /\ log \in Seq(Frames) /\ Ascending(log)
        /\ \A i \in 1 .. Len(log) : TopicOf(log[i]) # "command" => StampOf(log[i]) <= w.last
    BY DEF LogOK
  <1>3. After(w, n).last = n /\ n \in Nat /\ w.last \in Nat
    BY StampsAreNat DEF After, WindowShape
  <1> HIDE DEF r
  <1>4. \A i \in 1 .. Len(log) : StampOf(log[i]) \in Nat
    <2> TAKE i \in 1 .. Len(log)
    <2>1. log[i] \in Frames
      BY <1>2
    <2> QED BY <2>1, FrameFacts
  <1>5. \A j \in 1 .. Len(r) : StampOf(r[j]) \in Nat
    <2> TAKE j \in 1 .. Len(r)
    <2>1. r[j] \in Frames
      BY <1>1
    <2> QED BY <2>1, FrameFacts
  <1>6. \A i \in 1 .. Len(log) : \A j \in 1 .. Len(r) :
          TopicOf(log[i]) # "command" => StampOf(log[i]) < StampOf(r[j])
    BY <1>1, <1>2, <1>3, <1>4, <1>5
  <1>7. Ascending(z)
    BY <1>1, <1>2, <1>6, AscendingJoin
  <1>8. /\ z \in Seq(Frames)
        /\ \A i \in 1 .. Len(z) :
             \/ i \in 1 .. Len(log) /\ z[i] = log[i]
             \/ i > Len(log) /\ i - Len(log) \in 1 .. Len(r) /\ z[i] = r[i - Len(log)]
    BY <1>1, <1>2, ConcatIs
  <1> HIDE DEF z
  <1>9. \A i \in 1 .. Len(z) : TopicOf(z[i]) # "command" => StampOf(z[i]) <= n
    <2> SUFFICES ASSUME NEW i \in 1 .. Len(z), TopicOf(z[i]) # "command"
                 PROVE  StampOf(z[i]) <= n
      OBVIOUS
    <2>1. CASE i \in 1 .. Len(log) /\ z[i] = log[i]
      BY <1>2, <1>3, <1>4, <2>1
    <2>2. CASE i > Len(log) /\ i - Len(log) \in 1 .. Len(r) /\ z[i] = r[i - Len(log)]
      BY <1>1, <2>2
    <2> QED BY <1>8, <2>1, <2>2
  <1> QED BY <1>3, <1>7, <1>8, <1>9 DEF LogOK, z, r

(* A frame that the window lets go of before its first commit, below that boundary. *)
LetGo(w, log, n, f) ==
    /\ StampOf(f) < n
    /\ \A i \in 1 .. Len(log) : ~OfSensor(log[i])
    /\ \A s \in Stamps : s < n => w.sensors[s] = <<>>

LEMMA ShownAfterCommit ==
  ASSUME NEW w, NEW log, NEW f \in Frames, WindowShape(w), Pending(w), LogOK(w, log),
         NEW n \in Stamps, n > w.last, OfSensor(f),
         IsCommitted(log, f) \/ IsPending(w, f) \/ CameBefore(w, log, f) \/ LetGo(w, log, n, f)
  PROVE  LET z == log \o Committed(w, n)
         IN  IsCommitted(z, f) \/ IsPending(After(w, n), f) \/ CameBefore(After(w, n), z, f)
  <1> DEFINE r == Committed(w, n)
             z == log \o r
  <1>1. /\ r \in Seq(Frames)
        /\ \A i \in 1 .. Len(r) :
             /\ StampOf(r[i]) > w.last /\ StampOf(r[i]) <= n
             /\ OfSensor(r[i]) => w.sensors[StampOf(r[i])] # <<>>
        /\ \A s \in 1 .. n : \A k \in 1 .. Len(w.sensors[s]) :
             \E i \in 1 .. Len(r) : r[i] = FrameOf(w.sensors[s][k], s)
    BY CommittedIs
  <1>2. log \in Seq(Frames)
    BY DEF LogOK
  <1>3. /\ After(w, n).last = n /\ n \in Nat /\ w.last \in Nat
        /\ \A s \in Stamps : After(w, n).sensors[s] = IF s <= n THEN <<>> ELSE w.sensors[s]
    BY StampsAreNat DEF After, Cleared, WindowShape
  <1>4. StampOf(f) \in Stamps /\ StampOf(f) \in Nat /\ StampOf(f) # 0 /\ f = FrameOf(TopicOf(f), StampOf(f))
    <2>1. StampOf(f) \in Stamps /\ StampOf(f) \in Nat /\ f = FrameOf(TopicOf(f), StampOf(f))
      BY FrameFacts
    <2> QED BY <2>1, StampsAreNat
  <1> HIDE DEF r
  <1>5. /\ z \in Seq(Frames)
        /\ \A i \in 1 .. Len(log) : i \in 1 .. Len(z) /\ z[i] = log[i]
        /\ \A i \in 1 .. Len(r) : Len(log) + i \in 1 .. Len(z) /\ z[Len(log) + i] = r[i]
        /\ \A i \in 1 .. Len(z) :
             \/ i \in 1 .. Len(log) /\ z[i] = log[i]
             \/ i > Len(log) /\ i - Len(log) \in 1 .. Len(r) /\ z[i] = r[i - Len(log)]
    BY <1>1, <1>2, ConcatIs
  <1>6. \A i \in 1 .. Len(r) : r[i] \in Frames /\ StampOf(r[i]) \in Nat /\ StampOf(r[i]) \in Stamps
    <2> TAKE i \in 1 .. Len(r)
    <2>1. r[i] \in Frames
      BY <1>1
    <2> QED BY <2>1, FrameFacts
  <1> HIDE DEF z
  <1>7. CASE IsCommitted(log, f)
    BY <1>5, <1>7 DEF IsCommitted, z, r
  <1>8. CASE IsPending(w, f)
    <2> DEFINE s == StampOf(f)
    <2>1. PICK k \in 1 .. Len(w.sensors[s]) : w.sensors[s][k] = TopicOf(f)
      BY <1>8 DEF IsPending
    <2>2. CASE s <= n
      <3>1. s \in 1 .. n
        BY <1>3, <1>4, <2>2
      <3>2. PICK i \in 1 .. Len(r) : r[i] = FrameOf(w.sensors[s][k], s)
        BY <1>1, <3>1
      <3>3. r[i] = f
        BY <1>4, <2>1, <3>2
      <3> QED BY <1>5, <3>3 DEF IsCommitted, z, r
    <2>3. CASE ~(s <= n)
      <3>1. After(w, n).sensors[s] = w.sensors[s]
        BY <1>3, <1>4, <2>3
      <3> QED BY <1>8, <3>1 DEF IsPending
    <2> QED BY <2>2, <2>3
  <1>9. CASE CameBefore(w, log, f)
    <2>1. StampOf(f) <= n /\ StampOf(f) <= w.last
      BY <1>3, <1>4, <1>9 DEF CameBefore
    <2>2. \A i \in 1 .. Len(r) : StampOf(f) < StampOf(r[i])
      BY <1>1, <1>3, <1>4, <1>6, <2>1
    <2>3. Precedes(z, f)
      BY <1>5, <1>9, <2>2 DEF CameBefore, Precedes
    <2> QED BY <1>3, <2>1, <2>3 DEF CameBefore, z, r
  <1>10. CASE LetGo(w, log, n, f)
    <2>1. StampOf(f) < n /\ StampOf(f) <= n
      BY <1>3, <1>4, <1>10 DEF LetGo
    <2>2. \A i \in 1 .. Len(r) : OfSensor(r[i]) => StampOf(f) < StampOf(r[i])
      <3> SUFFICES ASSUME NEW i \in 1 .. Len(r), OfSensor(r[i]) PROVE StampOf(f) < StampOf(r[i])
        OBVIOUS
      <3>1. w.sensors[StampOf(r[i])] # <<>> /\ StampOf(r[i]) \in Stamps /\ StampOf(r[i]) \in Nat
            /\ StampOf(r[i]) <= n
        BY <1>1, <1>6
      <3>2. ~(StampOf(r[i]) < n)
        BY <1>10, <3>1 DEF LetGo
      <3> QED BY <1>3, <1>4, <2>1, <3>1, <3>2
    <2>3. Precedes(z, f)
      BY <1>5, <1>10, <2>2 DEF LetGo, Precedes
    <2> QED BY <1>3, <2>1, <2>3 DEF CameBefore, z, r
  <1> QED BY <1>7, <1>8, <1>9, <1>10

-----------------------------------------------------------------------------
(* The operations of the window.                                           *)
LEMMA StateChange ==
  ASSUME NEW w, NEW log, NEW shown, NEW x, WindowOK(w, log, shown)
  PROVE  WindowOK([w EXCEPT !.state = x], log, shown)
  <1> DEFINE v == [w EXCEPT !.state = x]
  <1>1. WindowShape(w)
    BY DEF WindowOK
  <1>2. v = [state |-> x, last |-> w.last, sensors |-> w.sensors, wheels |-> w.wheels]
    BY <1>1, WindowExcept
  <1> HIDE DEF v
  <1>3. v.state = x /\ v.last = w.last /\ v.sensors = w.sensors /\ v.wheels = w.wheels
    BY <1>2
  <1>4. v = [state |-> v.state, last |-> v.last, sensors |-> v.sensors, wheels |-> v.wheels]
    BY <1>2
  <1>5. WindowShape(v)
    BY <1>1, <1>3, <1>4 DEF WindowShape
  <1>6. Pending(v) /\ LogOK(v, log)
    BY <1>3 DEF WindowOK, Pending, LogOK
  <1>7. ShownOK(v, log, shown)
    BY <1>3 DEF WindowOK, ShownOK, IsPending, CameBefore
  <1> QED BY <1>5, <1>6, <1>7 DEF WindowOK, v

LEMMA CommitOK ==
  ASSUME NEW w, NEW log, NEW shown, NEW x, NEW n \in Stamps,
         WindowShape(w), Pending(w), LogOK(w, log), n > w.last, shown \subseteq Frames,
         \A f \in shown : OfSensor(f) =>
           IsCommitted(log, f) \/ IsPending(w, f) \/ CameBefore(w, log, f) \/ LetGo(w, log, n, f)
  PROVE  WindowOK([After(w, n) EXCEPT !.state = x], log \o Committed(w, n), shown)
  <1> DEFINE v == After(w, n)
             z == log \o Committed(w, n)
  <1>1. WindowShape(v) /\ Pending(v)
    BY AfterIs
  <1>2. LogOK(v, z)
    BY LogAfterCommit
  <1>3. \A f \in shown : OfSensor(f) => IsCommitted(z, f) \/ IsPending(v, f) \/ CameBefore(v, z, f)
    <2> SUFFICES ASSUME NEW f \in shown, OfSensor(f)
                 PROVE  IsCommitted(z, f) \/ IsPending(v, f) \/ CameBefore(v, z, f)
      OBVIOUS
    <2>1. f \in Frames
      OBVIOUS
    <2> QED BY <2>1, ShownAfterCommit
  <1> HIDE DEF v, z
  <1>4. WindowOK(v, z, shown)
    BY <1>1, <1>2, <1>3 DEF WindowOK, ShownOK
  <1>5. WindowOK([v EXCEPT !.state = x], z, shown)
    BY <1>4, StateChange
  <1> QED BY <1>5 DEF v, z

(* A pending frame.                                                        *)
Adding(w, topic, stamp) == [w EXCEPT !.sensors[stamp] = Append(w.sensors[stamp], topic)]

LEMMA AddingIs ==
  ASSUME NEW w, WindowShape(w), NEW topic \in SensorTopics, NEW stamp \in Stamps
  PROVE  /\ WindowShape(Adding(w, topic, stamp))
         /\ Adding(w, topic, stamp).last = w.last /\ Adding(w, topic, stamp).wheels = w.wheels
         /\ Adding(w, topic, stamp).state = w.state
         /\ \A s \in Stamps : s # stamp => Adding(w, topic, stamp).sensors[s] = w.sensors[s]
         /\ Adding(w, topic, stamp).sensors[stamp] = Append(w.sensors[stamp], topic)
  <1> DEFINE c == [w.sensors EXCEPT ![stamp] = Append(w.sensors[stamp], topic)]
             v == Adding(w, topic, stamp)
  <1>1. v = [w EXCEPT !.sensors = c]
    BY DEF Adding
  <1>2. w.sensors \in [Stamps -> Seq(SensorTopics)]
    BY DEF WindowShape
  <1>3. w.sensors[stamp] \in Seq(SensorTopics)
    BY <1>2
  <1>4. Append(w.sensors[stamp], topic) \in Seq(SensorTopics)
    BY <1>3
  <1>5. c \in [Stamps -> Seq(SensorTopics)]
    BY <1>2, <1>4
  <1>6. c[stamp] = Append(w.sensors[stamp], topic) /\ \A s \in Stamps : s # stamp => c[s] = w.sensors[s]
    BY <1>2
  <1> HIDE DEF c, v
  <1>7. v = [state |-> w.state, last |-> w.last, sensors |-> c, wheels |-> w.wheels]
    BY <1>1, WindowExcept
  <1>8. v.state = w.state /\ v.last = w.last /\ v.sensors = c /\ v.wheels = w.wheels
    BY <1>7
  <1>9. v = [state |-> v.state, last |-> v.last, sensors |-> v.sensors, wheels |-> v.wheels]
    BY <1>7
  <1>10. WindowShape(v)
    BY <1>5, <1>8, <1>9 DEF WindowShape
  <1> QED BY <1>6, <1>8, <1>10 DEF v

LEMMA AppendIs ==
  ASSUME NEW S, NEW q \in Seq(S), NEW e \in S
  PROVE  /\ Append(q, e) \in Seq(S) /\ Len(Append(q, e)) = Len(q) + 1 /\ Len(q) \in Nat
         /\ \A i \in 1 .. Len(q) : i \in 1 .. Len(q) + 1 /\ Append(q, e)[i] = q[i]
         /\ Append(q, e)[Len(q) + 1] = e /\ Append(q, e) # <<>>
         /\ \A i \in 1 .. Len(q) + 1 : i = Len(q) + 1 \/ i \in 1 .. Len(q)
  <1>1. Append(q, e) \in Seq(S)
    BY SMTT(30)
  <1>2. Len(Append(q, e)) = Len(q) + 1 /\ Len(q) \in Nat
    BY SMTT(30)
  <1>3. \A i \in 1 .. Len(q) : Append(q, e)[i] = q[i]
    BY SMTT(30)
  <1>4. Append(q, e)[Len(q) + 1] = e
    BY SMTT(30)
  <1>5. \A i \in 1 .. Len(q) : i \in 1 .. Len(q) + 1
    BY <1>2
  <1>6. \A i \in 1 .. Len(q) + 1 : i = Len(q) + 1 \/ i \in 1 .. Len(q)
    BY <1>2
  <1>7. Append(q, e) # <<>>
    BY SMTT(30), <1>2
  <1> QED BY <1>1, <1>2, <1>3, <1>4, <1>5, <1>6, <1>7

LEMMA AddOK ==
  ASSUME NEW w, NEW log, NEW shown, NEW topic \in SensorTopics, NEW stamp \in Stamps,
         WindowOK(w, log, shown), stamp > w.last, topic \notin ToSet(w.sensors[stamp])
  PROVE  WindowOK(Adding(w, topic, stamp), log, shown \cup {FrameOf(topic, stamp)})
  <1> DEFINE v == Adding(w, topic, stamp)
             q == w.sensors[stamp]
  <1>1. WindowShape(w) /\ Pending(w) /\ LogOK(w, log) /\ ShownOK(w, log, shown)
    BY DEF WindowOK
  <1>2. /\ WindowShape(v) /\ v.last = w.last /\ v.wheels = w.wheels
        /\ \A s \in Stamps : s # stamp => v.sensors[s] = w.sensors[s]
        /\ v.sensors[stamp] = Append(q, topic)
    BY <1>1, AddingIs
  <1>3. q \in Seq(SensorTopics) /\ w.last \in Nat /\ stamp \in Nat
    BY <1>1, StampsAreNat DEF WindowShape
  <1>4. \A i \in 1 .. Len(q) : q[i] # topic
    BY <1>3 DEF ToSet
  <1> HIDE DEF v, q
  <1>5. /\ Len(Append(q, topic)) = Len(q) + 1 /\ Len(q) \in Nat
        /\ \A i \in 1 .. Len(q) : i \in 1 .. Len(q) + 1 /\ Append(q, topic)[i] = q[i]
        /\ Append(q, topic)[Len(q) + 1] = topic
        /\ \A i \in 1 .. Len(q) + 1 : i = Len(q) + 1 \/ i \in 1 .. Len(q)
    BY <1>3, AppendIs
  <1>6. \A i, j \in 1 .. Len(q) : q[i] = q[j] => i = j
    BY <1>1 DEF Pending, q
  <1>7. Pending(v)
    <2>1. \A s \in Stamps : s <= v.last => v.sensors[s] = <<>>
      <3> SUFFICES ASSUME NEW s \in Stamps, s <= w.last PROVE v.sensors[s] = <<>>
        BY <1>2
      <3>1. s # stamp
        BY <1>3
      <3> QED BY <1>1, <1>2, <3>1 DEF Pending
    <2>2. \A s \in Stamps : \A i, j \in 1 .. Len(v.sensors[s]) : v.sensors[s][i] = v.sensors[s][j] => i = j
      <3> SUFFICES ASSUME NEW s \in Stamps, NEW i \in 1 .. Len(v.sensors[s]), NEW j \in 1 .. Len(v.sensors[s]),
                          v.sensors[s][i] = v.sensors[s][j]
                   PROVE  i = j
        OBVIOUS
      <3>1. CASE s # stamp
        <4>1. v.sensors[s] = w.sensors[s]
          BY <1>2, <3>1
        <4> QED BY <1>1, <4>1 DEF Pending
      <3>2. CASE s = stamp
        <4>1. /\ i \in 1 .. Len(q) + 1 /\ j \in 1 .. Len(q) + 1
              /\ Append(q, topic)[i] = Append(q, topic)[j]
          BY <1>2, <1>5, <3>2
        <4> QED BY <1>4, <1>5, <1>6, <4>1
      <3> QED BY <3>1, <3>2
    <2>3. \A t \in v.wheels : t > v.last
      BY <1>1, <1>2 DEF Pending
    <2> QED BY <2>1, <2>2, <2>3 DEF Pending
  <1>8. LogOK(v, log)
    BY <1>1, <1>2 DEF LogOK
  <1>9. ShownOK(v, log, shown \cup {FrameOf(topic, stamp)})
    <2>1. /\ FrameOf(topic, stamp) \in Frames
          /\ TopicOf(FrameOf(topic, stamp)) = topic /\ StampOf(FrameOf(topic, stamp)) = stamp
      BY FrameFacts, SensorTopicFacts
    <2>2. IsPending(v, FrameOf(topic, stamp))
      <3>1. Len(q) + 1 \in 1 .. Len(v.sensors[stamp]) /\ v.sensors[stamp][Len(q) + 1] = topic
        BY <1>2, <1>5
      <3> QED BY <2>1, <3>1 DEF IsPending
    <2>3. ASSUME NEW f \in shown, IsPending(w, f)
          PROVE  IsPending(v, f)
      <3>1. f \in Frames
        BY <1>1 DEF ShownOK
      <3>2. StampOf(f) \in Stamps
        BY <3>1, FrameFacts
      <3>3. CASE StampOf(f) # stamp
        <4>1. v.sensors[StampOf(f)] = w.sensors[StampOf(f)]
          BY <1>2, <3>2, <3>3
        <4> QED BY <2>3, <4>1 DEF IsPending
      <3>4. CASE StampOf(f) = stamp
        <4>1. PICK i \in 1 .. Len(q) : q[i] = TopicOf(f)
          BY <2>3, <3>4 DEF IsPending, q
        <4>2. i \in 1 .. Len(v.sensors[stamp]) /\ v.sensors[stamp][i] = TopicOf(f)
          BY <1>2, <1>5, <4>1
        <4> QED BY <3>4, <4>2 DEF IsPending
      <3> QED BY <3>3, <3>4
    <2>4. \A f \in shown : OfSensor(f) => IsCommitted(log, f) \/ IsPending(v, f) \/ CameBefore(v, log, f)
      <3> TAKE f \in shown
      <3>1. OfSensor(f) => IsCommitted(log, f) \/ IsPending(w, f) \/ CameBefore(w, log, f)
        BY <1>1 DEF ShownOK
      <3>2. CameBefore(w, log, f) => CameBefore(v, log, f)
        BY <1>2 DEF CameBefore
      <3> QED BY <2>3, <3>1, <3>2
    <2>5. shown \subseteq Frames
      BY <1>1 DEF ShownOK
    <2> QED BY <2>1, <2>2, <2>4, <2>5 DEF ShownOK
  <1> QED BY <1>2, <1>7, <1>8, <1>9 DEF WindowOK, v

(* What lies before the very first boundary is let go.                     *)
Opening(w, n) == [w EXCEPT !.sensors = [s \in Stamps |-> IF s < n THEN <<>> ELSE @[s]]]

LEMMA OpeningIs ==
  ASSUME NEW w, WindowShape(w), Pending(w), NEW n \in Stamps
  PROVE  /\ WindowShape(Opening(w, n)) /\ Pending(Opening(w, n))
         /\ Opening(w, n).last = w.last /\ Opening(w, n).state = w.state
         /\ \A s \in Stamps : Opening(w, n).sensors[s] = IF s < n THEN <<>> ELSE w.sensors[s]
  <1> DEFINE c == [s \in Stamps |-> IF s < n THEN <<>> ELSE w.sensors[s]]
             v == Opening(w, n)
  <1>1. v = [w EXCEPT !.sensors = c]
    BY DEF Opening
  <1>2. <<>> \in Seq(SensorTopics)
    OBVIOUS
  <1>3. c \in [Stamps -> Seq(SensorTopics)] /\ \A s \in Stamps : c[s] = IF s < n THEN <<>> ELSE w.sensors[s]
    BY <1>2 DEF WindowShape
  <1> HIDE DEF c, v
  <1>4. v = [state |-> w.state, last |-> w.last, sensors |-> c, wheels |-> w.wheels]
    BY <1>1, WindowExcept
  <1>5. v.state = w.state /\ v.last = w.last /\ v.sensors = c /\ v.wheels = w.wheels
    BY <1>4
  <1>6. v = [state |-> v.state, last |-> v.last, sensors |-> v.sensors, wheels |-> v.wheels]
    BY <1>4
  <1>7. WindowShape(v)
    BY <1>3, <1>5, <1>6 DEF WindowShape
  <1>8. \A s \in Stamps : \A i, j \in 1 .. Len(v.sensors[s]) : v.sensors[s][i] = v.sensors[s][j] => i = j
    <2> SUFFICES ASSUME NEW s \in Stamps, NEW i \in 1 .. Len(v.sensors[s]), NEW j \in 1 .. Len(v.sensors[s]),
                        v.sensors[s][i] = v.sensors[s][j]
                 PROVE  i = j
      OBVIOUS
    <2>1. CASE s < n
      <3>1. v.sensors[s] = <<>>
        BY <1>3, <1>5, <2>1
      <3>2. Len(v.sensors[s]) = 0
        BY <3>1
      <3> QED BY <3>2
    <2>2. CASE ~(s < n)
      <3>1. v.sensors[s] = w.sensors[s]
        BY <1>3, <1>5, <2>2
      <3> QED BY <3>1 DEF Pending
    <2> QED BY <2>1, <2>2
  <1>9. Pending(v)
    BY <1>3, <1>5, <1>8 DEF Pending
  <1> QED BY <1>3, <1>5, <1>7, <1>9 DEF v

(* The first boundary of all: what is still pending stays, what is not is let go. *)
LEMMA OpeningShown ==
  ASSUME NEW w, NEW log, NEW shown, NEW n \in Stamps, WindowOK(w, log, shown), w.last = 0
  PROVE  \A f \in shown : OfSensor(f) =>
           \/ IsCommitted(log, f) \/ IsPending(Opening(w, n), f)
           \/ CameBefore(Opening(w, n), log, f) \/ LetGo(Opening(w, n), log, n, f)
  <1> DEFINE v == Opening(w, n)
  <1>1. WindowShape(w) /\ Pending(w) /\ LogOK(w, log) /\ ShownOK(w, log, shown)
    BY DEF WindowOK
  <1>2. v.last = w.last /\ \A s \in Stamps : v.sensors[s] = IF s < n THEN <<>> ELSE w.sensors[s]
    BY <1>1, OpeningIs
  <1> HIDE DEF v
  <1>3. \A i \in 1 .. Len(log) : ~OfSensor(log[i])
    <2> SUFFICES ASSUME NEW i \in 1 .. Len(log), OfSensor(log[i]) PROVE FALSE
      OBVIOUS
    <2>1. log[i] \in Frames /\ TopicOf(log[i]) # "command"
      BY <1>1, SensorTopicFacts DEF LogOK, OfSensor
    <2>2. StampOf(log[i]) <= 0
      BY <1>1, <2>1 DEF LogOK
    <2>3. StampOf(log[i]) \in Stamps /\ StampOf(log[i]) \in Nat
      BY <2>1, FrameFacts
    <2> QED BY <2>2, <2>3, StampsAreNat
  <1>4. SUFFICES ASSUME NEW f \in shown, OfSensor(f)
                 PROVE  IsCommitted(log, f) \/ IsPending(v, f) \/ CameBefore(v, log, f) \/ LetGo(v, log, n, f)
    BY DEF v
  <1>5. f \in Frames
    BY <1>1 DEF ShownOK
  <1>6. StampOf(f) \in Stamps /\ StampOf(f) \in Nat
    BY <1>5, FrameFacts
  <1>7. IsCommitted(log, f) \/ IsPending(w, f) \/ CameBefore(w, log, f)
    BY <1>1, <1>4 DEF ShownOK
  <1>8. CASE IsPending(w, f) /\ StampOf(f) < n
    BY <1>2, <1>3, <1>8 DEF LetGo
  <1>9. CASE IsPending(w, f) /\ ~(StampOf(f) < n)
    <2>1. v.sensors[StampOf(f)] = w.sensors[StampOf(f)]
      BY <1>2, <1>6, <1>9
    <2> QED BY <1>9, <2>1 DEF IsPending
  <1>10. CASE CameBefore(w, log, f)
    BY <1>2, <1>10 DEF CameBefore
  <1> QED BY <1>7, <1>8, <1>9, <1>10

-----------------------------------------------------------------------------
(* Observe.  Kept(o, f): if the window goes on, it is in order with the    *)
(* frames it commits now and with the frame it has just been shown.        *)
Kept(o, f) ==
  /\ WindowRecord(o.window)
  /\ o.window.state # "SafeStopRequired" =>
       /\ o.frames \in Seq(Frames)
       /\ WindowOK(o.window, trace.committed \o o.frames, trace.received \cup {f})

LEMMA NoFrames ==
  ASSUME NEW log \in Seq(Frames)
  PROVE  <<>> \in Seq(Frames) /\ log \o <<>> = log
  OBVIOUS

LEMMA OfShape ==
  ASSUME NEW w, WindowShape(w)
  PROVE  WindowRecord(w)
  BY DEF WindowShape, WindowRecord

LEMMA OfOK ==
  ASSUME NEW w, NEW log, NEW shown, WindowOK(w, log, shown)
  PROVE  WindowRecord(w)
  BY OfShape DEF WindowOK

LEMMA SafeStoppedState ==
  ASSUME WindowRecord(window)
  PROVE  SafeStopped.state = "SafeStopRequired" /\ WindowRecord(SafeStopped)
  <1> DEFINE a == window.state
             b == window.last
             d == window.sensors
             e == window.wheels
  <1>1. window = [state |-> a, last |-> b, sensors |-> d, wheels |-> e]
    BY DEF WindowRecord
  <1> HIDE DEF a, b, d, e
  <1>2. SafeStopped.state = "SafeStopRequired"
    BY <1>1 DEF SafeStopped
  <1> DEFINE k == [window EXCEPT !.state = "SafeStopRequired"]
             l == [k EXCEPT !.sensors = NoBoundaries]
  <1>3. SafeStopped = [l EXCEPT !.wheels = {}]
    BY DEF SafeStopped
  <1>4. k = [state |-> "SafeStopRequired", last |-> b, sensors |-> d, wheels |-> e]
    BY <1>1
  <1> HIDE DEF k
  <1>5. l = [state |-> "SafeStopRequired", last |-> b, sensors |-> NoBoundaries, wheels |-> e]
    BY <1>4
  <1> HIDE DEF l
  <1>6. SafeStopped = [state |-> "SafeStopRequired", last |-> b, sensors |-> NoBoundaries, wheels |-> {}]
    BY <1>3, <1>5
  <1>7. WindowRecord(SafeStopped)
    BY <1>6 DEF WindowRecord
  <1> QED BY <1>2, <1>7

LEMMA SensorObserved ==
  ASSUME NEW topic \in SensorTopics, NEW stamp \in Stamps,
         WindowOK(window, trace.committed, trace.received)
  PROVE  Kept(ObserveSensor(topic, stamp), FrameOf(topic, stamp))
  <1> DEFINE o == ObserveSensor(topic, stamp)
             f == FrameOf(topic, stamp)
             log == trace.committed
             shown == trace.received
             added == Adding(window, topic, stamp)
             complete == {s \in OpenBoundaries(added) : IsComplete(added, s)}
             n == Min(complete)
             opened == IF window.last = 0 THEN Opening(added, n) ELSE added
             x == AfterBoundary(CommitThrough(opened, n).window.state)
             y == [CommitThrough(opened, n).window EXCEPT !.state = x]
  <1>1. WindowShape(window) /\ log \in Seq(Frames)
    BY DEF WindowOK, LogOK
  <1>2. o = CASE AddIsRefused(topic, stamp) -> Nothing(SafeStopped)
              [] ~AddIsRefused(topic, stamp) /\ complete = {} -> Nothing(added)
              [] OTHER -> [frames |-> CommitThrough(opened, n).frames, window |-> y]
    BY DEF ObserveSensor, Adding, Opening
  <1>3. CASE AddIsRefused(topic, stamp)
    <2>1. o = Nothing(SafeStopped)
      BY <1>2, <1>3
    <2> HIDE DEF o
    <2>2. o.window = SafeStopped
      BY <2>1 DEF Nothing
    <2> QED BY <1>1, <2>2, SafeStoppedState, OfShape DEF Kept, o
  <1>4. ASSUME ~AddIsRefused(topic, stamp)
        PROVE  WindowOK(added, log, shown \cup {f}) /\ added.last = window.last
    <2>1. ~(stamp <= window.last) /\ topic \notin ToSet(window.sensors[stamp])
      BY <1>4 DEF AddIsRefused
    <2>2. stamp > window.last
      BY <1>1, <2>1, StampsAreNat DEF WindowShape
    <2>3. WindowOK(added, log, shown \cup {f})
      BY <2>1, <2>2, AddOK
    <2>4. added.last = window.last
      BY <1>1, AddingIs
    <2> QED BY <2>3, <2>4
  <1>5. CASE ~AddIsRefused(topic, stamp) /\ complete = {}
    <2>1. o = Nothing(added)
      BY <1>2, <1>5
    <2>2. WindowOK(added, log, shown \cup {f})
      BY <1>4, <1>5
    <2> HIDE DEF o, added, log, shown, f
    <2>3. o.window = added /\ o.frames = <<>>
      BY <2>1 DEF Nothing
    <2> QED BY <1>1, <2>2, <2>3, NoFrames, OfOK DEF Kept, o, log, shown, f
  <1>6. CASE ~AddIsRefused(topic, stamp) /\ complete # {}
    <2>1. o = [frames |-> CommitThrough(opened, n).frames, window |-> y]
      BY <1>2, <1>6
    <2>2. WindowOK(added, log, shown \cup {f}) /\ added.last = window.last
      BY <1>4, <1>6
    <2>3. WindowShape(added) /\ Pending(added) /\ LogOK(added, log) /\ shown \cup {f} \subseteq Frames
      BY <2>2 DEF WindowOK, ShownOK
    <2>4. n \in complete
      <3>1. complete \subseteq Nat
        BY StampsAreNat DEF OpenBoundaries
      <3> HIDE DEF complete
      <3>2. \E z \in complete : \A s \in complete : z <= s
        BY <1>6, <3>1, LeastOf
      <3> QED BY <3>2 DEF Min
    <2>5. n \in Stamps /\ added.sensors[n] # <<>>
      BY <2>4 DEF OpenBoundaries
    <2> HIDE DEF added, complete, n, log, shown, f, o
    <2>6. n > added.last /\ n \in Nat /\ ~(n < n)
      <3>1. n \in Nat /\ added.last \in Nat /\ ~(n <= added.last)
        BY <2>3, <2>5, StampsAreNat DEF Pending, WindowShape
      <3> QED BY <3>1
    <2>7. /\ WindowShape(opened) /\ Pending(opened) /\ LogOK(opened, log) /\ n > opened.last
          /\ \A g \in shown \cup {f} : OfSensor(g) =>
               \/ IsCommitted(log, g) \/ IsPending(opened, g)
               \/ CameBefore(opened, log, g) \/ LetGo(opened, log, n, g)
      <3>1. CASE window.last = 0
        <4>1. opened = Opening(added, n) /\ added.last = 0
          BY <2>2, <3>1
        <4>2. WindowShape(opened) /\ Pending(opened) /\ opened.last = added.last
          BY <2>3, <2>5, <4>1, OpeningIs
        <4>3. LogOK(opened, log)
          BY <2>3, <4>2 DEF LogOK
        <4>4. \A g \in shown \cup {f} : OfSensor(g) =>
                \/ IsCommitted(log, g) \/ IsPending(opened, g)
                \/ CameBefore(opened, log, g) \/ LetGo(opened, log, n, g)
          BY <2>2, <2>5, <4>1, OpeningShown
        <4> QED BY <2>6, <4>2, <4>3, <4>4
      <3>2. CASE window.last # 0
        <4>1. opened = added
          BY <3>2
        <4>2. \A g \in shown \cup {f} : OfSensor(g) =>
                IsCommitted(log, g) \/ IsPending(added, g) \/ CameBefore(added, log, g)
          BY <2>2 DEF WindowOK, ShownOK
        <4> QED BY <2>3, <2>6, <4>1, <4>2
      <3> QED BY <3>1, <3>2
    <2> HIDE DEF opened, x
    <2>8. CommitThrough(opened, n).frames = Committed(opened, n) /\ CommitThrough(opened, n).window = After(opened, n)
      BY <2>5, <2>7, CommitIs DEF Committed
    <2>9. y = [After(opened, n) EXCEPT !.state = x]
      BY <2>8
    <2>10. WindowOK(y, log \o Committed(opened, n), shown \cup {f})
      BY <2>3, <2>5, <2>7, <2>9, CommitOK
    <2>11. Committed(opened, n) \in Seq(Frames)
      BY <2>5, <2>7, CommittedIs
    <2> HIDE DEF y
    <2>12. o.frames = Committed(opened, n) /\ o.window = y
      BY <2>1, <2>8
    <2> QED BY <2>10, <2>11, <2>12, OfOK DEF Kept, o, log, shown, f
  <1> QED BY <1>3, <1>5, <1>6

LEMMA ShownMore ==
  ASSUME NEW w, NEW log, NEW shown, WindowOK(w, log, shown), NEW f \in Frames, ~OfSensor(f)
  PROVE  WindowOK(w, log, shown \cup {f})
  BY DEF WindowOK, ShownOK

LEMMA CommandLogged ==
  ASSUME NEW w, NEW log, NEW shown, WindowOK(w, log, shown), NEW stamp \in Stamps
  PROVE  WindowOK(w, log \o <<FrameOf("command", stamp)>>, shown)
  <1> DEFINE f == FrameOf("command", stamp)
             r == <<f>>
             z == log \o r
  <1>1. log \in Seq(Frames) /\ Ascending(log) /\ \A i \in 1 .. Len(log) :
          TopicOf(log[i]) # "command" => StampOf(log[i]) <= w.last
    BY DEF WindowOK, LogOK
  <1>2. f \in Frames /\ TopicOf(f) = "command" /\ ~OfSensor(f)
    BY FrameFacts, SensorTopicFacts DEF OfSensor
  <1> HIDE DEF f
  <1>3. r \in Seq(Frames) /\ \A i \in 1 .. Len(r) : r[i] = f
    BY <1>2
  <1>4. Ascending(r)
    BY <1>2, <1>3 DEF Ascending
  <1> HIDE DEF r
  <1>5. \A i \in 1 .. Len(log) : \A j \in 1 .. Len(r) :
          TopicOf(log[i]) = TopicOf(r[j]) => TopicOf(log[i]) = "command"
    BY <1>2, <1>3
  <1>6. Ascending(z)
    BY <1>1, <1>3, <1>4, <1>5, AscendingJoin
  <1>7. /\ z \in Seq(Frames)
        /\ \A i \in 1 .. Len(log) : i \in 1 .. Len(z) /\ z[i] = log[i]
        /\ \A i \in 1 .. Len(z) :
             \/ i \in 1 .. Len(log) /\ z[i] = log[i]
             \/ i > Len(log) /\ i - Len(log) \in 1 .. Len(r) /\ z[i] = r[i - Len(log)]
    BY <1>1, <1>3, ConcatIs
  <1> HIDE DEF z
  <1>8. \A i \in 1 .. Len(z) : (i \in 1 .. Len(log) /\ z[i] = log[i]) \/ z[i] = f
    BY <1>3, <1>7
  <1>9. LogOK(w, z)
    BY <1>1, <1>2, <1>6, <1>7, <1>8 DEF LogOK
  <1>10. \A g : IsCommitted(log, g) => IsCommitted(z, g)
    BY <1>7 DEF IsCommitted
  <1>11. \A g : CameBefore(w, log, g) => CameBefore(w, z, g)
    BY <1>2, <1>8 DEF CameBefore, Precedes
  <1>12. ShownOK(w, z, shown)
    BY <1>10, <1>11 DEF WindowOK, ShownOK
  <1> QED BY <1>9, <1>12 DEF WindowOK, z, r, f

LEMMA WheelAdded ==
  ASSUME NEW w, NEW log, NEW shown, WindowOK(w, log, shown), NEW stamp \in Stamps, stamp > w.last
  PROVE  WindowOK([w EXCEPT !.wheels = @ \cup {stamp}], log, shown)
  <1> DEFINE c == w.wheels \cup {stamp}
             v == [w EXCEPT !.wheels = @ \cup {stamp}]
  <1>1. v = [w EXCEPT !.wheels = c]
    OBVIOUS
  <1>2. WindowShape(w) /\ Pending(w)
    BY DEF WindowOK
  <1>3. IsFiniteSet(c) /\ c \subseteq Stamps
    BY <1>2, FS_AddElement DEF WindowShape
  <1>4. \A t \in c : t > w.last
    BY <1>2 DEF Pending
  <1> HIDE DEF c, v
  <1>5. v = [state |-> w.state, last |-> w.last, sensors |-> w.sensors, wheels |-> c]
    BY <1>1, <1>2, WindowExcept
  <1>6. v.state = w.state /\ v.last = w.last /\ v.sensors = w.sensors /\ v.wheels = c
    BY <1>5
  <1>7. v = [state |-> v.state, last |-> v.last, sensors |-> v.sensors, wheels |-> v.wheels]
    BY <1>5
  <1>8. WindowShape(v)
    BY <1>2, <1>3, <1>6, <1>7 DEF WindowShape
  <1>9. Pending(v)
    BY <1>2, <1>4, <1>6 DEF Pending
  <1>10. LogOK(v, log)
    BY <1>6 DEF WindowOK, LogOK
  <1>11. ShownOK(v, log, shown)
    BY <1>6 DEF WindowOK, ShownOK, IsPending, CameBefore
  <1> QED BY <1>8, <1>9, <1>10, <1>11 DEF WindowOK, v

LEMMA HighRateObserved ==
  ASSUME NEW topic \in {"command", "wheel"}, NEW stamp \in Stamps,
         WindowOK(window, trace.committed, trace.received)
  PROVE  Kept(ObserveHighRate(topic, stamp), FrameOf(topic, stamp))
  <1> DEFINE o == ObserveHighRate(topic, stamp)
             f == FrameOf(topic, stamp)
             log == trace.committed
             shown == trace.received
             wheeled == [window EXCEPT !.wheels = @ \cup {stamp}]
  <1>1. WindowShape(window) /\ log \in Seq(Frames) /\ window.last \in Nat /\ stamp \in Nat
    BY StampsAreNat DEF WindowOK, LogOK, WindowShape
  <1>2. f \in Frames /\ ~OfSensor(f)
    BY FrameFacts, SensorTopicFacts DEF OfSensor
  <1>3. WindowOK(window, log, shown \cup {f})
    BY <1>2, ShownMore
  <1>4. ASSUME NEW w, WindowOK(w, log, shown \cup {f}), o = Nothing(w)
        PROVE  Kept(o, f)
    <2> HIDE DEF o, f, log, shown
    <2>1. o.window = w /\ o.frames = <<>>
      BY <1>4 DEF Nothing
    <2> QED BY <1>1, <1>4, <2>1, NoFrames, OfOK DEF Kept, log, shown
  <1>5. CASE window.state = "AwaitingStartBoundary"
    <2>1. o = Nothing(window)
      BY <1>5 DEF ObserveHighRate
    <2> QED BY <1>3, <1>4, <2>1
  <1>6. CASE window.state # "AwaitingStartBoundary" /\ topic = "command"
    <2>1. o = [frames |-> <<f>>, window |-> window]
      BY <1>6 DEF ObserveHighRate
    <2>2. WindowOK(window, log \o <<f>>, shown \cup {f})
      BY <1>3, <1>6, CommandLogged
    <2> HIDE DEF o, f, log, shown
    <2>3. o.window = window /\ o.frames = <<f>> /\ <<f>> \in Seq(Frames)
      BY <1>2, <2>1
    <2> QED BY <2>2, <2>3, OfOK DEF Kept, o, f, log, shown
  <1>7. CASE window.state # "AwaitingStartBoundary" /\ topic = "wheel"
    <2>1. o = Nothing(CASE stamp <= window.last -> window
                        [] stamp > window.last /\ (stamp \in window.wheels
                             \/ Cardinality(window.wheels) >= MaxPendingWheels) -> SafeStopped
                        [] OTHER -> wheeled)
      BY <1>7 DEF ObserveHighRate
    <2>2. CASE stamp <= window.last
      <3>1. o = Nothing(window)
        BY <1>1, <2>1, <2>2
      <3> QED BY <1>3, <1>4, <3>1
    <2>3. CASE stamp > window.last
      <3>1. ~(stamp <= window.last)
        BY <1>1, <2>3
      <3>2. o = Nothing(SafeStopped) \/ o = Nothing(wheeled)
        BY <2>1, <3>1
      <3>3. CASE o = Nothing(SafeStopped)
        <4> HIDE DEF o
        <4>1. o.window = SafeStopped
          BY <3>3 DEF Nothing
        <4> QED BY <1>1, <4>1, SafeStoppedState, OfShape DEF Kept, o
      <3>4. CASE o = Nothing(wheeled)
        <4>1. WindowOK(wheeled, log, shown \cup {f})
          BY <1>3, <2>3, WheelAdded
        <4> QED BY <1>4, <3>4, <4>1
      <3> QED BY <3>2, <3>3, <3>4
    <2> QED BY <1>1, <2>2, <2>3
  <1> QED BY <1>5, <1>6, <1>7

LEMMA Observed ==
  ASSUME NEW topic \in Topics, NEW stamp \in Stamps,
         window.state \notin {"AwaitingStart", "ReadyToFinalize", "SafeStopRequired"},
         WindowOK(window, trace.committed, trace.received)
  PROVE  Kept(Observe(topic, stamp), FrameOf(topic, stamp))
  <1>1. CASE topic \in SensorTopics
    <2>1. Observe(topic, stamp) = ObserveSensor(topic, stamp)
      BY <1>1 DEF Observe
    <2> QED BY <1>1, <2>1, SensorObserved
  <1>2. CASE topic \notin SensorTopics
    <2>1. Observe(topic, stamp) = ObserveHighRate(topic, stamp)
      BY <1>2 DEF Observe
    <2>2. topic \in {"command", "wheel"}
      BY <1>2 DEF Topics
    <2> QED BY <2>1, <2>2, HighRateObserved
  <1> QED BY <1>1, <1>2

-----------------------------------------------------------------------------
(* The records of the recorder, and what an assignment to one field leaves. *)
MainRecord(m) == m = [plan |-> m.plan, at |-> m.at, held |-> m.held, exit |-> m.exit]
SessionRecord(s) == s = [state |-> s.state, queue |-> s.queue, finalizing |-> s.finalizing]
TraceRecord(h) == h = [received |-> h.received, committed |-> h.committed, accepted |-> h.accepted]
SegmentRecord(g) ==
  g = [entry |-> g.entry, frames |-> g.frames, sealed |-> g.sealed, durable |-> g.durable, clean |-> g.clean]

LEMMA GotoIs ==
  ASSUME NEW m, MainRecord(m), NEW p
  PROVE  /\ MainRecord([m EXCEPT !.at = p])
         /\ [m EXCEPT !.at = p].plan = m.plan /\ [m EXCEPT !.at = p].at = p
         /\ [m EXCEPT !.at = p].held = m.held /\ [m EXCEPT !.at = p].exit = m.exit
  <1> DEFINE a == m.plan
             b == m.at
             c == m.held
             d == m.exit
             v == [m EXCEPT !.at = p]
  <1>1. m = [plan |-> a, at |-> b, held |-> c, exit |-> d]
    BY DEF MainRecord
  <1> HIDE DEF a, b, c, d
  <1>2. v = [plan |-> a, at |-> p, held |-> c, exit |-> d]
    BY <1>1
  <1> HIDE DEF v
  <1>3. v.plan = a /\ v.at = p /\ v.held = c /\ v.exit = d
    BY <1>2
  <1>4. MainRecord(v)
    BY <1>2 DEF MainRecord
  <1> QED BY <1>3, <1>4 DEF v, a, b, c, d

LEMMA HeldIs ==
  ASSUME NEW m, MainRecord(m), NEW h
  PROVE  /\ MainRecord([m EXCEPT !.held = h])
         /\ [m EXCEPT !.held = h].plan = m.plan /\ [m EXCEPT !.held = h].at = m.at
         /\ [m EXCEPT !.held = h].held = h /\ [m EXCEPT !.held = h].exit = m.exit
  <1> DEFINE a == m.plan
             b == m.at
             c == m.held
             d == m.exit
             v == [m EXCEPT !.held = h]
  <1>1. m = [plan |-> a, at |-> b, held |-> c, exit |-> d]
    BY DEF MainRecord
  <1> HIDE DEF a, b, c, d
  <1>2. v = [plan |-> a, at |-> b, held |-> h, exit |-> d]
    BY <1>1
  <1> HIDE DEF v
  <1>3. v.plan = a /\ v.at = b /\ v.held = h /\ v.exit = d
    BY <1>2
  <1>4. MainRecord(v)
    BY <1>2 DEF MainRecord
  <1> QED BY <1>3, <1>4 DEF v, a, b, c, d

LEMMA ExitIs ==
  ASSUME NEW m, MainRecord(m), NEW x
  PROVE  /\ MainRecord([m EXCEPT !.exit = x])
         /\ [m EXCEPT !.exit = x].plan = m.plan /\ [m EXCEPT !.exit = x].at = m.at
         /\ [m EXCEPT !.exit = x].held = m.held /\ [m EXCEPT !.exit = x].exit = x
  <1> DEFINE a == m.plan
             b == m.at
             c == m.held
             d == m.exit
             v == [m EXCEPT !.exit = x]
  <1>1. m = [plan |-> a, at |-> b, held |-> c, exit |-> d]
    BY DEF MainRecord
  <1> HIDE DEF a, b, c, d
  <1>2. v = [plan |-> a, at |-> b, held |-> c, exit |-> x]
    BY <1>1
  <1> HIDE DEF v
  <1>3. v.plan = a /\ v.at = b /\ v.held = c /\ v.exit = x
    BY <1>2
  <1>4. MainRecord(v)
    BY <1>2 DEF MainRecord
  <1> QED BY <1>3, <1>4 DEF v, a, b, c, d

LEMMA MainStep ==
  ASSUME NEW m, MainRecord(m), NEW p, NEW h
  PROVE  \A v : v = [m EXCEPT !.held = h, !.at = p] \/ v = [m EXCEPT !.at = p, !.held = h] =>
           /\ MainRecord(v) /\ v.plan = m.plan /\ v.at = p /\ v.held = h /\ v.exit = m.exit
  <1> TAKE v
  <1> DEFINE k == [m EXCEPT !.held = h]
             l == [m EXCEPT !.at = p]
  <1>1. [m EXCEPT !.held = h, !.at = p] = [k EXCEPT !.at = p]
    OBVIOUS
  <1>2. [m EXCEPT !.at = p, !.held = h] = [l EXCEPT !.held = h]
    OBVIOUS
  <1>3. MainRecord(k) /\ k.plan = m.plan /\ k.held = h /\ k.exit = m.exit
    BY HeldIs
  <1>4. MainRecord(l) /\ l.plan = m.plan /\ l.at = p /\ l.exit = m.exit
    BY GotoIs
  <1> HIDE DEF k, l
  <1>5. CASE v = [k EXCEPT !.at = p]
    BY <1>3, <1>5, GotoIs
  <1>6. CASE v = [l EXCEPT !.held = h]
    BY <1>4, <1>6, HeldIs
  <1> QED BY <1>1, <1>2, <1>5, <1>6

LEMMA MainKilled ==
  ASSUME NEW m, MainRecord(m)
  PROVE  \A v : v = [m EXCEPT !.exit = "killed", !.at = "poll", !.held = <<>>] =>
           /\ MainRecord(v) /\ v.plan = m.plan /\ v.at = "poll"
           /\ v.held = <<>> /\ v.exit = "killed"
  <1> TAKE v
  <1> DEFINE k == [m EXCEPT !.exit = "killed"]
             l == [k EXCEPT !.at = "poll"]
  <1>1. [m EXCEPT !.exit = "killed", !.at = "poll", !.held = <<>>] = [l EXCEPT !.held = <<>>]
    OBVIOUS
  <1>2. MainRecord(k) /\ k.plan = m.plan /\ k.exit = "killed"
    BY ExitIs
  <1> HIDE DEF k
  <1>3. MainRecord(l) /\ l.plan = m.plan /\ l.exit = "killed" /\ l.at = "poll"
    BY <1>2, GotoIs
  <1> HIDE DEF l
  <1>4. ASSUME v = [l EXCEPT !.held = <<>>]
        PROVE  /\ MainRecord(v) /\ v.plan = m.plan /\ v.at = "poll"
               /\ v.held = <<>> /\ v.exit = "killed"
    BY <1>3, <1>4, HeldIs
  <1> QED BY <1>1, <1>4

LEMMA SessionIs ==
  ASSUME NEW s, SessionRecord(s), NEW t
  PROVE  /\ [s EXCEPT !.state = t] = [state |-> t, queue |-> s.queue, finalizing |-> s.finalizing]
         /\ [s EXCEPT !.queue = t] = [state |-> s.state, queue |-> t, finalizing |-> s.finalizing]
         /\ [s EXCEPT !.finalizing = t] = [state |-> s.state, queue |-> s.queue, finalizing |-> t]
  <1> DEFINE a == s.state
             b == s.queue
             c == s.finalizing
  <1>1. s = [state |-> a, queue |-> b, finalizing |-> c]
    BY DEF SessionRecord
  <1> HIDE DEF a, b, c
  <1>2. [s EXCEPT !.state = t] = [state |-> t, queue |-> b, finalizing |-> c]
    BY <1>1
  <1>3. [s EXCEPT !.queue = t] = [state |-> a, queue |-> t, finalizing |-> c]
    BY <1>1
  <1>4. [s EXCEPT !.finalizing = t] = [state |-> a, queue |-> b, finalizing |-> t]
    BY <1>1
  <1> QED BY <1>2, <1>3, <1>4 DEF a, b, c

LEMMA SegmentIs ==
  ASSUME NEW g, SegmentRecord(g), NEW t
  PROVE  /\ [g EXCEPT !.entry = t] =
              [entry |-> t, frames |-> g.frames, sealed |-> g.sealed, durable |-> g.durable, clean |-> g.clean]
         /\ [g EXCEPT !.frames = t] =
              [entry |-> g.entry, frames |-> t, sealed |-> g.sealed, durable |-> g.durable, clean |-> g.clean]
         /\ [g EXCEPT !.sealed = t] =
              [entry |-> g.entry, frames |-> g.frames, sealed |-> t, durable |-> g.durable, clean |-> g.clean]
         /\ [g EXCEPT !.durable = t] =
              [entry |-> g.entry, frames |-> g.frames, sealed |-> g.sealed, durable |-> t, clean |-> g.clean]
         /\ [g EXCEPT !.clean = t] =
              [entry |-> g.entry, frames |-> g.frames, sealed |-> g.sealed, durable |-> g.durable, clean |-> t]
  <1> DEFINE a == g.entry
             b == g.frames
             c == g.sealed
             d == g.durable
             e == g.clean
  <1>1. g = [entry |-> a, frames |-> b, sealed |-> c, durable |-> d, clean |-> e]
    BY DEF SegmentRecord
  <1> HIDE DEF a, b, c, d, e
  <1>2. [g EXCEPT !.entry = t] = [entry |-> t, frames |-> b, sealed |-> c, durable |-> d, clean |-> e]
    BY <1>1
  <1>3. [g EXCEPT !.frames = t] = [entry |-> a, frames |-> t, sealed |-> c, durable |-> d, clean |-> e]
    BY <1>1
  <1>4. [g EXCEPT !.sealed = t] = [entry |-> a, frames |-> b, sealed |-> t, durable |-> d, clean |-> e]
    BY <1>1
  <1>5. [g EXCEPT !.durable = t] = [entry |-> a, frames |-> b, sealed |-> c, durable |-> t, clean |-> e]
    BY <1>1
  <1>6. [g EXCEPT !.clean = t] = [entry |-> a, frames |-> b, sealed |-> c, durable |-> d, clean |-> t]
    BY <1>1
  <1> QED BY <1>2, <1>3, <1>4, <1>5, <1>6 DEF a, b, c, d, e

(* A segment made of five given values.                                    *)
SegmentOf(a, b, c, d, e) == [entry |-> a, frames |-> b, sealed |-> c, durable |-> d, clean |-> e]

LEMMA SegmentOfIs ==
  ASSUME NEW a, NEW b, NEW c, NEW d, NEW e
  PROVE  /\ SegmentRecord(SegmentOf(a, b, c, d, e))
         /\ SegmentOf(a, b, c, d, e).entry = a /\ SegmentOf(a, b, c, d, e).frames = b
         /\ SegmentOf(a, b, c, d, e).sealed = c /\ SegmentOf(a, b, c, d, e).durable = d
         /\ SegmentOf(a, b, c, d, e).clean = e
  BY DEF SegmentRecord, SegmentOf

LEMMA SegmentSteps ==
  ASSUME NEW g, SegmentRecord(g)
  PROVE  /\ Renamed(g) = SegmentOf("final", g.frames, g.sealed, g.durable, g.clean)
         /\ Unlinked(g) = SegmentOf("none", g.frames, g.sealed, g.durable, g.clean)
         /\ Synced(g) = SegmentOf(g.entry, g.frames, g.sealed, TRUE, g.clean)
         /\ [g EXCEPT !.sealed = TRUE] = SegmentOf(g.entry, g.frames, TRUE, g.durable, g.clean)
         /\ \A q : [g EXCEPT !.frames = q] = SegmentOf(g.entry, q, g.sealed, g.durable, g.clean)
  <1>1. Renamed(g) = SegmentOf("final", g.frames, g.sealed, g.durable, g.clean)
    BY SegmentIs DEF SegmentOf, Renamed
  <1>2. Unlinked(g) = SegmentOf("none", g.frames, g.sealed, g.durable, g.clean)
    BY SegmentIs DEF SegmentOf, Unlinked
  <1>3. ASSUME NEW t
        PROVE  /\ [g EXCEPT !.durable = t] = SegmentOf(g.entry, g.frames, g.sealed, t, g.clean)
               /\ [g EXCEPT !.sealed = t] = SegmentOf(g.entry, g.frames, t, g.durable, g.clean)
               /\ [g EXCEPT !.frames = t] = SegmentOf(g.entry, t, g.sealed, g.durable, g.clean)
    BY SegmentIs DEF SegmentOf
  <1>4. Synced(g) = SegmentOf(g.entry, g.frames, g.sealed, TRUE, g.clean)
    BY <1>3 DEF Synced
  <1>5. [g EXCEPT !.sealed = TRUE] = SegmentOf(g.entry, g.frames, TRUE, g.durable, g.clean)
    BY <1>3
  <1> QED BY <1>1, <1>2, <1>3, <1>4, <1>5

LEMMA StateSet ==
  ASSUME NEW s, SessionRecord(s), NEW t
  PROVE  /\ SessionRecord([s EXCEPT !.state = t])
         /\ [s EXCEPT !.state = t].state = t
         /\ [s EXCEPT !.state = t].queue = s.queue
         /\ [s EXCEPT !.state = t].finalizing = s.finalizing
  <1> DEFINE a == s.state
             b == s.queue
             c == s.finalizing
             u == [s EXCEPT !.state = t]
  <1>1. u = [state |-> t, queue |-> b, finalizing |-> c]
    BY SessionIs
  <1> HIDE DEF a, b, c, u
  <1>2. SessionRecord(u) /\ u.state = t /\ u.queue = b /\ u.finalizing = c
    BY <1>1 DEF SessionRecord
  <1> QED BY <1>2 DEF a, b, c, u

LEMMA QueueSet ==
  ASSUME NEW s, SessionRecord(s), NEW t
  PROVE  /\ SessionRecord([s EXCEPT !.queue = t])
         /\ [s EXCEPT !.queue = t].state = s.state
         /\ [s EXCEPT !.queue = t].queue = t
         /\ [s EXCEPT !.queue = t].finalizing = s.finalizing
  <1> DEFINE a == s.state
             b == s.queue
             c == s.finalizing
             u == [s EXCEPT !.queue = t]
  <1>1. u = [state |-> a, queue |-> t, finalizing |-> c]
    BY SessionIs
  <1> HIDE DEF a, b, c, u
  <1>2. SessionRecord(u) /\ u.state = a /\ u.queue = t /\ u.finalizing = c
    BY <1>1 DEF SessionRecord
  <1> QED BY <1>2 DEF a, b, c, u

LEMMA FinalizingSet ==
  ASSUME NEW s, SessionRecord(s), NEW t
  PROVE  /\ SessionRecord([s EXCEPT !.finalizing = t])
         /\ [s EXCEPT !.finalizing = t].state = s.state
         /\ [s EXCEPT !.finalizing = t].queue = s.queue
         /\ [s EXCEPT !.finalizing = t].finalizing = t
  <1> DEFINE a == s.state
             b == s.queue
             c == s.finalizing
             u == [s EXCEPT !.finalizing = t]
  <1>1. u = [state |-> a, queue |-> b, finalizing |-> t]
    BY SessionIs
  <1> HIDE DEF a, b, c, u
  <1>2. SessionRecord(u) /\ u.state = a /\ u.queue = b /\ u.finalizing = t
    BY <1>1 DEF SessionRecord
  <1> QED BY <1>2 DEF a, b, c, u

-----------------------------------------------------------------------------
(* The invariant of the recorder.                                          *)
(* The frames accepted are written, held by the main loop or still queued, *)
(* until the session is over; what is sealed was complete.                 *)
CaptureRuns(m, s, acc, g, r) ==
    /\ s.state = "Recording" => acc = g.frames \o m.held \o s.queue
    /\ m.at \notin {"write", "final_write"} => m.held = <<>>
    /\ s.finalizing => s.queue = <<>>
    /\ m.at \in {"seal", "rename", "sync_directory"} => s.finalizing /\ s.state = "Recording"
    /\ m.at \in {"rename", "sync_directory"} => g.sealed
    /\ m.at = "sync_directory" => g.entry = "final"
    /\ g.entry = "final"
         => s.finalizing /\ m.at \in {"sync_directory", "unwind", "write_result", "destroy"}
    /\ s.state = "Finalized" => g.entry = "final" /\ g.durable
    /\ r.clean => m.at \in {"write_result", "destroy"}

CaptureStands(acc, g, r) ==
    /\ g.entry = "final" => g.sealed /\ g.frames = acc
    /\ r.clean => g.entry = "final" /\ g.durable

Capture(m, s, acc, g, r) ==
  (m.exit = "running" => CaptureRuns(m, s, acc, g, r)) /\ CaptureStands(acc, g, r)

RecShapes ==
    /\ MainRecord(main) /\ SessionRecord(session) /\ TraceRecord(trace) /\ WindowRecord(window)
    /\ SegmentRecord(mcap) /\ SegmentRecord(result)
    /\ session.queue \in Seq(Frames) /\ main.held \in Seq(Frames)
    /\ mcap.frames \in Seq(Frames) /\ trace.accepted \in Seq(Frames)

CallbackOK == callback.batch \in Seq(Frames) /\ (callback.busy => callback.batch # <<>>)

WindowInv ==
  Interactive /\ window.state # "SafeStopRequired" => WindowOK(window, trace.committed, trace.received)

CaptureInv == Capture(main, session, trace.accepted, mcap, result)

RecInv == RecShapes /\ CallbackOK /\ WindowInv /\ CaptureInv

LEMMA RecInvHolds == RecInit => RecInv
  <1> SUFFICES ASSUME RecInit PROVE RecInv
    OBVIOUS
  <1>1. PICK plan \in Plans : main = [plan |-> plan, at |-> "poll", held |-> <<>>, exit |-> "running"]
    BY DEF RecInit
  <1>2. MainRecord(main) /\ main.at = "poll" /\ main.held = <<>> /\ main.exit = "running"
    BY <1>1 DEF MainRecord
  <1>3. session = [state |-> "Recording", queue |-> <<>>, finalizing |-> FALSE]
    BY DEF RecInit
  <1>4. SessionRecord(session) /\ session.state = "Recording" /\ session.queue = <<>> /\ session.finalizing = FALSE
    BY <1>3 DEF SessionRecord
  <1>5. trace = [received |-> {}, committed |-> <<>>, accepted |-> <<>>]
    BY DEF RecInit
  <1>6. TraceRecord(trace) /\ trace.received = {} /\ trace.committed = <<>> /\ trace.accepted = <<>>
    BY <1>5 DEF TraceRecord
  <1>7. mcap = NewSegment
    BY DEF RecInit
  <1>8. SegmentRecord(mcap) /\ mcap.entry = "temporary" /\ mcap.frames = <<>>
    BY <1>7 DEF NewSegment, SegmentRecord
  <1>9. SegmentRecord(result) /\ result.clean = FALSE
    <2>1. SegmentRecord(NewSegment) /\ NewSegment.clean = FALSE
      BY DEF NewSegment, SegmentRecord
    <2>2. result = [NewSegment EXCEPT !.entry = "none"]
      BY DEF RecInit, NoSegment
    <2>3. result = SegmentOf("none", NewSegment.frames, NewSegment.sealed, NewSegment.durable, NewSegment.clean)
      BY <2>1, <2>2, SegmentIs DEF SegmentOf
    <2> QED BY <2>1, <2>3, SegmentOfIs
  <1>10. window = [state |-> "AwaitingStart", last |-> 0, sensors |-> [s \in Stamps |-> <<>>], wheels |-> {}]
    BY DEF RecInit
  <1>11. WindowRecord(window)
    BY <1>10 DEF WindowRecord
  <1>12. <<>> \in Seq(Frames) /\ <<>> \in Seq(SensorTopics) /\ Len(<<>>) = 0 /\ <<>> \o <<>> \o <<>> = <<>>
    OBVIOUS
  <1>13. CallbackOK
    BY <1>12 DEF RecInit, CallbackOK
  <1>14. WindowOK(window, trace.committed, trace.received)
    <2> DEFINE z == [s \in Stamps |-> <<>>]
    <2>1. window.last = 0 /\ window.sensors = z /\ window.wheels = {}
      BY <1>10
    <2>2. z \in [Stamps -> Seq(SensorTopics)] /\ \A s \in Stamps : z[s] = <<>>
      BY <1>12
    <2> HIDE DEF z
    <2>3. WindowShape(window)
      BY <1>11, <2>1, <2>2, FS_EmptySet DEF WindowShape, WindowRecord
    <2>4. Pending(window)
      <3>1. \A s \in Stamps : Len(window.sensors[s]) = 0
        BY <1>12, <2>1, <2>2
      <3> QED BY <2>1, <2>2, <3>1 DEF Pending
    <2>5. LogOK(window, trace.committed)
      BY <1>6, <1>12 DEF LogOK, Ascending
    <2>6. ShownOK(window, trace.committed, trace.received)
      BY <1>6 DEF ShownOK
    <2> QED BY <2>3, <2>4, <2>5, <2>6 DEF WindowOK
  <1>15. CaptureInv
    <2>1. mcap.frames \o main.held \o session.queue = <<>>
      BY <1>2, <1>4, <1>8, <1>12
    <2>2. CaptureRuns(main, session, trace.accepted, mcap, result)
      BY <1>2, <1>4, <1>6, <1>8, <1>9, <2>1 DEF CaptureRuns
    <2>3. CaptureStands(trace.accepted, mcap, result)
      BY <1>8, <1>9 DEF CaptureStands
    <2> QED BY <2>2, <2>3 DEF CaptureInv, Capture
  <1>16. RecShapes
    BY <1>2, <1>4, <1>6, <1>8, <1>9, <1>11, <1>12 DEF RecShapes
  <1> QED BY <1>13, <1>14, <1>15, <1>16 DEF RecInv, WindowInv

-----------------------------------------------------------------------------
(* The steps of the callbacks.                                             *)
LEMMA ReceivedSet ==
  ASSUME NEW h, TraceRecord(h), NEW a
  PROVE  /\ TraceRecord([h EXCEPT !.received = a])
         /\ [h EXCEPT !.received = a].received = a
         /\ [h EXCEPT !.received = a].committed = h.committed
         /\ [h EXCEPT !.received = a].accepted = h.accepted
  <1> DEFINE x == h.received
             y == h.committed
             z == h.accepted
             u == [h EXCEPT !.received = a]
  <1>1. h = [received |-> x, committed |-> y, accepted |-> z]
    BY DEF TraceRecord
  <1> HIDE DEF x, y, z
  <1>2. u = [received |-> a, committed |-> y, accepted |-> z]
    BY <1>1
  <1> HIDE DEF u
  <1>3. TraceRecord(u) /\ u.received = a /\ u.committed = y /\ u.accepted = z
    BY <1>2 DEF TraceRecord
  <1> QED BY <1>3 DEF u, x, y, z

LEMMA CommittedSet ==
  ASSUME NEW h, TraceRecord(h), NEW a
  PROVE  /\ TraceRecord([h EXCEPT !.committed = a])
         /\ [h EXCEPT !.committed = a].received = h.received
         /\ [h EXCEPT !.committed = a].committed = a
         /\ [h EXCEPT !.committed = a].accepted = h.accepted
  <1> DEFINE x == h.received
             y == h.committed
             z == h.accepted
             u == [h EXCEPT !.committed = a]
  <1>1. h = [received |-> x, committed |-> y, accepted |-> z]
    BY DEF TraceRecord
  <1> HIDE DEF x, y, z
  <1>2. u = [received |-> x, committed |-> a, accepted |-> z]
    BY <1>1
  <1> HIDE DEF u
  <1>3. TraceRecord(u) /\ u.received = x /\ u.committed = a /\ u.accepted = z
    BY <1>2 DEF TraceRecord
  <1> QED BY <1>3 DEF u, x, y, z

LEMMA AcceptedSet ==
  ASSUME NEW h, TraceRecord(h), NEW a
  PROVE  /\ TraceRecord([h EXCEPT !.accepted = a])
         /\ [h EXCEPT !.accepted = a].received = h.received
         /\ [h EXCEPT !.accepted = a].committed = h.committed
         /\ [h EXCEPT !.accepted = a].accepted = a
  <1> DEFINE x == h.received
             y == h.committed
             z == h.accepted
             u == [h EXCEPT !.accepted = a]
  <1>1. h = [received |-> x, committed |-> y, accepted |-> z]
    BY DEF TraceRecord
  <1> HIDE DEF x, y, z
  <1>2. u = [received |-> x, committed |-> y, accepted |-> a]
    BY <1>1
  <1> HIDE DEF u
  <1>3. TraceRecord(u) /\ u.received = x /\ u.committed = y /\ u.accepted = a
    BY <1>2 DEF TraceRecord
  <1> QED BY <1>3 DEF u, x, y, z

LEMMA RefusePreserves ==
  ASSUME RecInv, RefuseFrame
  PROVE  RecInv'
  BY DEF RecInv, RecShapes, CallbackOK, WindowInv, CaptureInv, RefuseFrame, Interactive

LEMMA StuttersPreserve ==
  ASSUME RecInv, UNCHANGED recVars
  PROVE  RecInv'
  BY DEF RecInv, RecShapes, CallbackOK, WindowInv, CaptureInv, recVars, Interactive

LEMMA ReceivePreserves ==
  ASSUME RecInv, NEW topic \in Topics, NEW stamp \in 1 .. MaxStamp[topic], ReceiveFrame(topic, stamp)
  PROVE  RecInv'
  <1> DEFINE f == FrameOf(topic, stamp)
             seen == IF Interactive THEN Observe(topic, stamp) ELSE [frames |-> <<f>>, window |-> window]
             stopped == Interactive /\ seen.window.state = "SafeStopRequired"
             shown == IF window.state \in {"AwaitingStart", "ReadyToFinalize"} THEN trace.received
                      ELSE trace.received \cup {f}
  <1>1. /\ window' = seen.window
        /\ callback' = [busy |-> ~stopped /\ seen.frames # <<>>, batch |-> IF stopped THEN <<>> ELSE seen.frames]
        /\ trace' = [trace EXCEPT !.received = shown, !.committed = trace.committed \o seen.frames]
        /\ UNCHANGED <<session, main, mcap, result>>
    BY DEF ReceiveFrame
  <1>2. stamp \in Stamps
    BY DEF Stamps
  <1>3. f \in Frames
    BY <1>2, FrameFacts
  <1>4. RecShapes /\ WindowInv /\ CaptureInv /\ CallbackOK
    BY DEF RecInv
  <1>5. TraceRecord(trace') /\ trace'.received = shown
        /\ trace'.committed = trace.committed \o seen.frames /\ trace'.accepted = trace.accepted
    <2> DEFINE c == trace.committed \o seen.frames
    <2>1. trace' = [trace EXCEPT !.received = shown, !.committed = c] /\ TraceRecord(trace)
      BY <1>1, <1>4 DEF RecShapes
    <2> HIDE DEF c, shown
    <2> DEFINE v == [trace EXCEPT !.received = shown]
    <2>2. trace' = [v EXCEPT !.committed = c]
      BY <2>1
    <2>3. TraceRecord(v) /\ v.received = shown /\ v.accepted = trace.accepted
      BY <2>1, ReceivedSet
    <2> HIDE DEF v
    <2> DEFINE w == [v EXCEPT !.committed = c]
    <2>4. TraceRecord(w) /\ w.received = v.received /\ w.committed = c /\ w.accepted = v.accepted
      BY <2>3, CommittedSet
    <2>5. trace' = w
      BY <2>2
    <2> HIDE DEF w
    <2> QED BY <2>3, <2>4, <2>5 DEF c
  <1>6. Interactive' <=> Interactive
    BY <1>1 DEF Interactive
  <1>7. CASE ~Interactive
    <2>1. seen = [frames |-> <<f>>, window |-> window] /\ ~stopped
      BY <1>7
    <2> HIDE DEF seen, stopped, f
    <2>2. seen.frames = <<f>> /\ seen.window = window /\ <<f>> \in Seq(Frames) /\ <<f>> # <<>>
      BY <1>3, <2>1
    <2> DEFINE b == ~stopped /\ seen.frames # <<>>
    <2>3. callback' = [busy |-> b, batch |-> <<f>>]
      BY <1>1, <2>1, <2>2
    <2> HIDE DEF b
    <2>4. CallbackOK'
      BY <2>2, <2>3 DEF CallbackOK
    <2> QED BY <1>1, <1>4, <1>5, <1>6, <1>7, <2>2, <2>4 DEF RecInv, RecShapes, WindowInv, CaptureInv
  <1>8. ASSUME Interactive
        PROVE  /\ WindowRecord(seen.window)
               /\ ~stopped => seen.frames \in Seq(Frames)
                              /\ WindowOK(seen.window, trace.committed \o seen.frames, shown)
    <2>1. seen = Observe(topic, stamp)
      BY <1>8
    <2>2. CASE window.state = "SafeStopRequired"
      <3>1. seen = Nothing(window)
        BY <2>1, <2>2 DEF Observe
      <3> HIDE DEF seen
      <3>2. seen.window = window
        BY <3>1 DEF Nothing
      <3> QED BY <1>4, <1>8, <2>2, <3>2 DEF RecShapes
    <2>3. CASE window.state \in {"AwaitingStart", "ReadyToFinalize"}
      <3>1. seen = Nothing(window)
        BY <2>1, <2>3 DEF Observe
      <3>2. WindowOK(window, trace.committed, trace.received)
        BY <1>4, <1>8, <2>3 DEF WindowInv
      <3>3. shown = trace.received /\ trace.committed \in Seq(Frames)
        BY <2>3, <3>2 DEF WindowOK, LogOK
      <3> HIDE DEF seen, shown
      <3>4. seen.window = window /\ seen.frames = <<>>
        BY <3>1 DEF Nothing
      <3>5. <<>> \in Seq(Frames) /\ trace.committed \o <<>> = trace.committed
        BY <3>3, NoFrames
      <3> QED BY <1>4, <3>2, <3>3, <3>4, <3>5 DEF RecShapes
    <2>4. CASE window.state \notin {"AwaitingStart", "ReadyToFinalize", "SafeStopRequired"}
      <3>1. WindowOK(window, trace.committed, trace.received)
        BY <1>4, <1>8, <2>4 DEF WindowInv
      <3>2. Kept(Observe(topic, stamp), f)
        BY <1>2, <2>4, <3>1, Observed
      <3>3. shown = trace.received \cup {f}
        BY <2>4
      <3> HIDE DEF seen, shown, f
      <3> QED BY <1>8, <2>1, <3>2, <3>3 DEF Kept
    <2> QED BY <2>2, <2>3, <2>4
  <1>9. CASE Interactive
    <2> HIDE DEF seen, stopped, shown
    <2> DEFINE b == ~stopped /\ seen.frames # <<>>
               q == IF stopped THEN <<>> ELSE seen.frames
    <2>1. callback' = [busy |-> b, batch |-> q]
      BY <1>1
    <2>2. q \in Seq(Frames) /\ (b => q # <<>>)
      <3>1. CASE stopped
        <4>1. q = <<>> /\ ~b
          BY <3>1
        <4>2. <<>> \in Seq(Frames)
          OBVIOUS
        <4> QED BY <4>1, <4>2
      <3>2. CASE ~stopped
        <4>1. q = seen.frames
          BY <3>2
        <4> QED BY <1>8, <1>9, <3>2, <4>1
      <3> QED BY <3>1, <3>2
    <2> HIDE DEF q
    <2>3. callback'.batch = q /\ (callback'.busy => b)
      <3> HIDE DEF b
      <3>1. callback'.batch = q /\ callback'.busy = b
        BY <2>1
      <3> QED BY <3>1
    <2> HIDE DEF b
    <2>4. CallbackOK'
      BY <2>2, <2>3 DEF CallbackOK
    <2>5. WindowInv'
      <3>1. window'.state # "SafeStopRequired" => ~stopped
        BY <1>1 DEF stopped
      <3> QED BY <1>1, <1>5, <1>8, <1>9, <3>1 DEF WindowInv
    <2>6. RecShapes'
      BY <1>1, <1>4, <1>5, <1>8, <1>9 DEF RecShapes
    <2>7. CaptureInv'
      BY <1>1, <1>4, <1>5 DEF CaptureInv
    <2> QED BY <2>4, <2>5, <2>6, <2>7 DEF RecInv
  <1> QED BY <1>7, <1>9

LEMMA WindowKept ==
  ASSUME RecInv, window' = window, trace' = trace, main'.plan = main.plan
  PROVE  WindowInv'
  BY DEF RecInv, WindowInv, Interactive

LEMMA Ended == EndCallback => CallbackOK'
  <1> SUFFICES ASSUME EndCallback PROVE CallbackOK'
    OBVIOUS
  <1>1. callback'.batch = <<>> /\ callback'.busy = FALSE
    BY DEF EndCallback
  <1>2. <<>> \in Seq(Frames)
    OBVIOUS
  <1> QED BY <1>1, <1>2 DEF CallbackOK

LEMMA QueueGrows ==
  ASSUME NEW f \in Seq(Frames), NEW h \in Seq(Frames), NEW q \in Seq(Frames), NEW e \in Frames
  PROVE  Append(f \o h \o q, e) = f \o h \o Append(q, e)
  <1> DEFINE l == f \o h
  <1>1. l \in Seq(Frames)
    BY ConcatProperties
  <1> HIDE DEF l
  <1>2. l \o q \in Seq(Frames) /\ <<e>> \in Seq(Frames)
    BY <1>1, ConcatProperties
  <1>3. Append(l \o q, e) = (l \o q) \o <<e>>
    BY <1>2, AppendIsConcat
  <1>4. (l \o q) \o <<e>> = l \o (q \o <<e>>)
    BY SMTT(30), <1>1, <1>2, ConcatAssociative
  <1>5. Append(q, e) = q \o <<e>>
    BY AppendIsConcat
  <1>6. Append(l \o q, e) = l \o Append(q, e)
    BY <1>3, <1>4, <1>5
  <1> QED BY <1>6 DEF l

LEMMA HeadTailConcat ==
  ASSUME NEW q \in Seq(Frames), q # <<>>
  PROVE  <<Head(q)>> \in Seq(Frames) /\ Tail(q) \in Seq(Frames) /\ <<Head(q)>> \o Tail(q) = q
  <1> DEFINE n == Len(q)
             l == <<Head(q)>> \o Tail(q)
  <1>1. /\ Head(q) \in Frames /\ Tail(q) \in Seq(Frames) /\ Len(Tail(q)) = n - 1
        /\ \A i \in 1 .. Len(Tail(q)) : Tail(q)[i] = q[i + 1]
    BY HeadTailProperties
  <1>2. Head(q) = q[1] /\ n \in Nat /\ n # 0
    OBVIOUS
  <1>3. <<Head(q)>> \in Seq(Frames) /\ Len(<<Head(q)>>) = 1 /\ <<Head(q)>>[1] = Head(q)
    BY <1>1
  <1>4. /\ l \in Seq(Frames) /\ Len(l) = 1 + (n - 1)
        /\ \A i \in 1 .. 1 + (n - 1) : l[i] = IF i <= 1 THEN <<Head(q)>>[i] ELSE Tail(q)[i - 1]
    BY <1>1, <1>3, ConcatProperties
  <1> HIDE DEF l
  <1>5. Len(l) = n
    BY <1>2, <1>4
  <1>6. \A i \in 1 .. n : l[i] = q[i]
    <2> SUFFICES ASSUME NEW i \in 1 .. n PROVE l[i] = q[i]
      OBVIOUS
    <2>1. l[i] = IF i <= 1 THEN <<Head(q)>>[i] ELSE Tail(q)[i - 1]
      BY <1>2, <1>4
    <2>2. CASE i = 1
      BY <1>2, <1>3, <2>1, <2>2
    <2>3. CASE i # 1
      <3>1. i - 1 \in 1 .. Len(Tail(q)) /\ ~(i <= 1)
        BY <1>1, <1>2, <2>3
      <3>2. Tail(q)[i - 1] = q[(i - 1) + 1]
        BY <1>1, <3>1
      <3>3. (i - 1) + 1 = i
        OBVIOUS
      <3> QED BY <2>1, <3>1, <3>2, <3>3
    <2> QED BY <2>2, <2>3
  <1>7. l = q
    BY <1>4, <1>5, <1>6, SeqEqual
  <1> QED BY <1>1, <1>3, <1>7 DEF l

LEMMA TailLeft ==
  ASSUME NEW q \in Seq(Frames), q # <<>>
  PROVE  Head(q) \in Frames /\ Tail(q) \in Seq(Frames) /\ (Len(q) > 1 => Tail(q) # <<>>)
  <1>1. /\ Head(q) \in Frames /\ Tail(q) \in Seq(Frames)
        /\ Len(Tail(q)) = Len(q) - 1 /\ Len(q) \in Nat
    BY HeadTailProperties
  <1>2. ASSUME Tail(q) = <<>> PROVE ~(Len(q) > 1)
    <2>1. Len(<<>>) = 0
      OBVIOUS
    <2>2. Len(Tail(q)) = 0
      BY <1>2, <2>1
    <2> DEFINE n == Len(q)
               k == Len(Tail(q))
    <2>3. k = 0 /\ k = n - 1 /\ n \in Nat
      BY <1>1, <2>2
    <2> HIDE DEF n, k
    <2>4. ~(n > 1)
      BY <2>3
    <2> QED BY <2>4 DEF n
  <1> QED BY <1>1, <1>2

LEMMA EnqueuePreserves ==
  ASSUME RecInv, EnqueueFrame, main.exit = "running"
  PROVE  RecInv'
  <1> DEFINE frame == Head(callback.batch)
             closed == session.state # "Recording" \/ session.finalizing
             full == Len(session.queue) = QueueCapacity
  <1>1. RecShapes /\ CallbackOK /\ WindowInv /\ CaptureInv /\ callback.busy
    BY DEF RecInv, EnqueueFrame
  <1>s. SessionRecord(session) /\ TraceRecord(trace)
    BY <1>1 DEF RecShapes
  <1>2. window' = window /\ main' = main /\ mcap' = mcap /\ result' = result
    BY DEF EnqueueFrame
  <1>3. \/ EndCallback /\ UNCHANGED <<session, trace>>
        \/ /\ EndCallback /\ UNCHANGED trace
           /\ session' = IF closed THEN session ELSE [session EXCEPT !.state = "SafeStopRequired"]
        \/ /\ ~closed
           /\ session' = [session EXCEPT !.queue = Append(session.queue, frame)]
           /\ trace' = [trace EXCEPT !.accepted = Append(trace.accepted, frame)]
           /\ callback' = [busy |-> Len(callback.batch) > 1, batch |-> Tail(callback.batch)]
    BY DEF EnqueueFrame
  <1>4. CASE EndCallback /\ UNCHANGED <<session, trace>>
    <2>1. RecShapes' /\ CaptureInv'
      BY <1>1, <1>2, <1>4 DEF RecShapes, CaptureInv
    <2>2. WindowInv'
      BY <1>2, <1>4, WindowKept
    <2> QED BY <1>4, <2>1, <2>2, Ended DEF RecInv
  <1>5. CASE EndCallback /\ UNCHANGED trace /\ ~closed
               /\ session' = [session EXCEPT !.state = "SafeStopRequired"]
    <2>1. SessionRecord(session') /\ session'.state = "SafeStopRequired"
          /\ session'.queue = session.queue /\ session'.finalizing = session.finalizing
      <3> DEFINE v == [session EXCEPT !.state = "SafeStopRequired"]
      <3>1. SessionRecord(v) /\ v.state = "SafeStopRequired" /\ v.queue = session.queue
            /\ v.finalizing = session.finalizing
        BY <1>s, StateSet
      <3>2. session' = v
        BY <1>5
      <3> HIDE DEF v
      <3> QED BY <3>1, <3>2
    <2>2. RecShapes'
      BY <1>1, <1>2, <1>5, <2>1 DEF RecShapes
    <2>3. WindowInv'
      BY <1>2, <1>5, WindowKept
    <2>4. ~session.finalizing /\ ~session'.finalizing /\ session'.state # "Recording" /\ session'.state # "Finalized"
      BY <1>5, <2>1
    <2>5. CaptureInv'
      BY <1>1, <1>2, <1>5, <2>4 DEF CaptureInv, Capture, CaptureRuns, CaptureStands
    <2> QED BY <1>5, <2>2, <2>3, <2>5, Ended DEF RecInv
  <1>6. ASSUME ~closed,
               session' = [session EXCEPT !.queue = Append(session.queue, frame)],
               trace' = [trace EXCEPT !.accepted = Append(trace.accepted, frame)],
               callback' = [busy |-> Len(callback.batch) > 1, batch |-> Tail(callback.batch)]
        PROVE  RecInv'
    <2>1. callback.batch \in Seq(Frames) /\ callback.batch # <<>>
      BY <1>1 DEF CallbackOK
    <2>2. frame \in Frames /\ Tail(callback.batch) \in Seq(Frames)
          /\ (Len(callback.batch) > 1 => Tail(callback.batch) # <<>>)
      BY <2>1, TailLeft
    <2> DEFINE b == Len(callback.batch) > 1
               q == Append(session.queue, frame)
               acc == Append(trace.accepted, frame)
    <2>3. CallbackOK'
      <3>1. callback' = [busy |-> b, batch |-> Tail(callback.batch)]
        BY <1>6
      <3>2. callback'.batch = Tail(callback.batch) /\ (callback'.busy => b)
        <4> HIDE DEF b
        <4>1. callback'.batch = Tail(callback.batch) /\ callback'.busy = b
          BY <3>1
        <4> QED BY <4>1
      <3> QED BY <2>2, <3>2 DEF CallbackOK
    <2>4. /\ session.queue \in Seq(Frames) /\ main.held \in Seq(Frames)
          /\ mcap.frames \in Seq(Frames) /\ trace.accepted \in Seq(Frames)
      BY <1>1 DEF RecShapes
    <2> HIDE DEF frame
    <2>5. q \in Seq(Frames) /\ acc \in Seq(Frames)
      BY <2>2, <2>4
    <2>6. acc = mcap.frames \o main.held \o q
      <3>1. trace.accepted = mcap.frames \o main.held \o session.queue
        BY <1>1, <1>6 DEF CaptureInv, Capture, CaptureRuns
      <3>2. Append(mcap.frames \o main.held \o session.queue, frame)
              = mcap.frames \o main.held \o Append(session.queue, frame)
        <4> DEFINE x == mcap.frames
                   y == main.held
                   z == session.queue
        <4>1. x \in Seq(Frames) /\ y \in Seq(Frames) /\ z \in Seq(Frames)
          BY <2>4
        <4> HIDE DEF x, y, z
        <4>2. Append(x \o y \o z, frame) = x \o y \o Append(z, frame)
          BY ZenonT(60), <2>2, <4>1, QueueGrows
        <4> QED BY <4>2 DEF x, y, z
      <3> QED BY <3>1, <3>2
    <2> HIDE DEF q, acc
    <2>7. SessionRecord(session') /\ session'.state = session.state
          /\ session'.queue = q /\ session'.finalizing = session.finalizing
      <3>1. session' = [session EXCEPT !.queue = q]
        BY <1>6 DEF q
      <3> DEFINE v == [session EXCEPT !.queue = q]
      <3>2. SessionRecord(v) /\ v.state = session.state /\ v.queue = q /\ v.finalizing = session.finalizing
        BY <1>s, QueueSet
      <3> HIDE DEF v
      <3>3. session' = v
        BY <3>1 DEF v
      <3> QED BY <3>2, <3>3
    <2>8. TraceRecord(trace') /\ trace'.received = trace.received
          /\ trace'.committed = trace.committed /\ trace'.accepted = acc
      <3>1. trace' = [trace EXCEPT !.accepted = acc]
        BY <1>6 DEF acc
      <3> DEFINE v == [trace EXCEPT !.accepted = acc]
      <3>2. TraceRecord(v) /\ v.received = trace.received /\ v.committed = trace.committed /\ v.accepted = acc
        BY <1>s, AcceptedSet
      <3> HIDE DEF v
      <3>3. trace' = v
        BY <3>1 DEF v
      <3> QED BY <3>2, <3>3
    <2>9. RecShapes'
      BY <1>1, <1>2, <2>5, <2>7, <2>8 DEF RecShapes
    <2>10. WindowInv'
      BY <1>1, <1>2, <2>8 DEF WindowInv, Interactive
    <2>11. ~session.finalizing /\ ~session'.finalizing /\ session.state = "Recording"
      BY <1>6, <2>7
    <2>12. mcap.entry # "final"
      BY <1>1, <2>11 DEF CaptureInv, Capture, CaptureRuns
    <2>13. CaptureRuns(main', session', trace'.accepted, mcap', result')
      BY <1>1, <1>2, <2>6, <2>7, <2>8, <2>11, <2>12 DEF CaptureInv, Capture, CaptureRuns
    <2>14. CaptureStands(trace'.accepted, mcap', result')
      BY <1>1, <1>2, <2>12 DEF CaptureInv, Capture, CaptureStands
    <2>15. CaptureInv'
      BY <2>13, <2>14 DEF CaptureInv, Capture
    <2> QED BY <2>3, <2>9, <2>10, <2>15 DEF RecInv
  <1>7. CASE EndCallback /\ UNCHANGED trace /\ session' = session
    BY <1>4, <1>7
  <1> QED BY <1>3, <1>4, <1>5, <1>6, <1>7

-----------------------------------------------------------------------------
(* The steps of the main loop.                                             *)
LEMMA Went ==
  ASSUME RecShapes, NEW p, Goto(p)
  PROVE  /\ MainRecord(main') /\ main'.plan = main.plan /\ main'.at = p
         /\ main'.held = main.held /\ main'.exit = main.exit
  <1> DEFINE v == [main EXCEPT !.at = p]
  <1>1. MainRecord(v) /\ v.plan = main.plan /\ v.at = p /\ v.held = main.held /\ v.exit = main.exit
    BY GotoIs DEF RecShapes
  <1>2. main' = v
    BY DEF Goto
  <1> HIDE DEF v
  <1> QED BY <1>1, <1>2

LEMMA Failed ==
  ASSUME RecShapes, FinalizeFails
  PROVE  /\ MainRecord(main') /\ main'.plan = main.plan /\ main'.at = "unwind"
         /\ main'.held = main.held /\ main'.exit = main.exit
         /\ SessionRecord(session') /\ session'.state = "SafeStopRequired"
         /\ session'.queue = session.queue /\ session'.finalizing = session.finalizing
  <1>1. Goto("unwind")
    BY DEF FinalizeFails
  <1> DEFINE v == [session EXCEPT !.state = "SafeStopRequired"]
  <1>2. SessionRecord(v) /\ v.state = "SafeStopRequired" /\ v.queue = session.queue
        /\ v.finalizing = session.finalizing
    <2>1. SessionRecord(session)
      BY DEF RecShapes
    <2> QED BY <2>1, StateSet
  <1>3. session' = v
    BY DEF FinalizeFails
  <1> HIDE DEF v
  <1> QED BY <1>1, <1>2, <1>3, Went

(* A step that only moves the main loop on, past the places it must not skip. *)
LEMMA MoveKeepsCapture ==
  ASSUME RecInv, main.exit = "running", main'.exit = "running",
         session' = session, trace' = trace, mcap' = mcap, result' = result, main'.held = <<>>,
         main.held = <<>>, mcap.entry # "final",
         main'.at \in {"poll", "drain", "check", "final_drain", "seal_check", "unwind"},
         main.at \notin {"write_result", "destroy"}
  PROVE  CaptureInv'
  <1>1. CaptureRuns(main, session, trace.accepted, mcap, result) /\ CaptureStands(trace.accepted, mcap, result)
    BY DEF RecInv, CaptureInv, Capture
  <1>2. CaptureRuns(main', session', trace'.accepted, mcap', result')
    BY <1>1 DEF CaptureRuns
  <1>3. CaptureStands(trace'.accepted, mcap', result')
    BY <1>1 DEF CaptureStands
  <1> QED BY <1>2, <1>3 DEF CaptureInv, Capture

LEMMA PollPreserves ==
  ASSUME RecInv, main.exit = "running", NEW event, PollControl(event)
  PROVE  RecInv'
  <1>1. RecShapes /\ CallbackOK /\ WindowInv /\ CaptureInv
    BY DEF RecInv
  <1>2. /\ Goto("drain") /\ main.at = "poll"
        /\ UNCHANGED <<session, callback, mcap, result, trace>>
    BY DEF PollControl
  <1>3. MainRecord(main') /\ main'.plan = main.plan /\ main'.at = "drain"
        /\ main'.held = main.held /\ main'.exit = main.exit
    BY <1>1, <1>2, Went
  <1>4. CaptureRuns(main, session, trace.accepted, mcap, result)
    BY <1>1 DEF CaptureInv, Capture
  <1>5. main.held = <<>> /\ mcap.entry # "final"
    BY <1>2, <1>4 DEF CaptureRuns
  <1>6. CaptureInv'
    BY <1>2, <1>3, <1>5, MoveKeepsCapture
  <1>7. PICK x : window' = window \/ (window' = [window EXCEPT !.state = x] /\ window.state # "SafeStopRequired")
    <2> DEFINE granted == \/ event = "start" /\ window.state = "AwaitingStart"
                          \/ event = "stop" /\ window.state = "Recording"
               y == IF event = "start" THEN "AwaitingStartBoundary" ELSE "AwaitingFinalBoundary"
    <2>1. window' = IF ~granted THEN window ELSE [window EXCEPT !.state = y]
      BY DEF PollControl
    <2>2. granted => window.state # "SafeStopRequired"
      OBVIOUS
    <2> HIDE DEF granted, y
    <2>3. window' = window \/ (window' = [window EXCEPT !.state = y] /\ window.state # "SafeStopRequired")
      BY <2>1, <2>2
    <2> QED BY <2>3
  <1>8. CASE window' = window
    <2>1. WindowInv'
      BY <1>2, <1>3, <1>8, WindowKept
    <2>2. RecShapes' /\ CallbackOK'
      BY <1>1, <1>2, <1>3, <1>8 DEF RecShapes, CallbackOK
    <2> QED BY <1>6, <2>1, <2>2 DEF RecInv
  <1>9. CASE window' = [window EXCEPT !.state = x] /\ window.state # "SafeStopRequired"
    <2> DEFINE v == [window EXCEPT !.state = x]
    <2>1. WindowRecord(v)
      <3> DEFINE a == window.state
                 b == window.last
                 d == window.sensors
                 e == window.wheels
      <3>1. window = [state |-> a, last |-> b, sensors |-> d, wheels |-> e]
        BY <1>1 DEF RecShapes, WindowRecord
      <3> HIDE DEF a, b, d, e
      <3>2. v = [state |-> x, last |-> b, sensors |-> d, wheels |-> e]
        BY <3>1
      <3> HIDE DEF v
      <3> QED BY <3>2 DEF WindowRecord
    <2>2. Interactive => WindowOK(v, trace.committed, trace.received)
      <3>1. Interactive => WindowOK(window, trace.committed, trace.received)
        BY <1>1, <1>9 DEF WindowInv
      <3> QED BY <3>1, StateChange
    <2>3. window' = v
      BY <1>9
    <2> HIDE DEF v
    <2>4. WindowInv'
      BY <1>2, <1>3, <2>2, <2>3 DEF WindowInv, Interactive
    <2>5. RecShapes' /\ CallbackOK'
      BY <1>1, <1>2, <1>3, <2>1, <2>3 DEF RecShapes, CallbackOK
    <2> QED BY <1>6, <2>4, <2>5 DEF RecInv
  <1> QED BY <1>7, <1>8, <1>9

LEMMA LoopEndsPreserves ==
  ASSUME RecInv, main.exit = "running", LoopEnds
  PROVE  RecInv'
  <1>1. RecShapes /\ CallbackOK /\ WindowInv /\ CaptureInv
    BY DEF RecInv
  <1>2. /\ Goto("unwind") /\ main.at = "poll"
        /\ UNCHANGED <<window, session, callback, mcap, result, trace>>
    BY DEF LoopEnds
  <1>3. MainRecord(main') /\ main'.plan = main.plan /\ main'.at = "unwind"
        /\ main'.held = main.held /\ main'.exit = main.exit
    BY <1>1, <1>2, Went
  <1>4. CaptureRuns(main, session, trace.accepted, mcap, result)
    BY <1>1 DEF CaptureInv, Capture
  <1>5. main.held = <<>> /\ mcap.entry # "final"
    BY <1>2, <1>4 DEF CaptureRuns
  <1>6. CaptureInv'
    BY <1>2, <1>3, <1>5, MoveKeepsCapture
  <1>7. WindowInv'
    BY <1>2, <1>3, WindowKept
  <1>8. RecShapes' /\ CallbackOK'
    BY <1>1, <1>2, <1>3 DEF RecShapes, CallbackOK
  <1> QED BY <1>6, <1>7, <1>8 DEF RecInv

LEMMA CheckPreserves ==
  ASSUME RecInv, main.exit = "running", NEW silent, CheckProgress(silent)
  PROVE  RecInv'
  <1>1. RecShapes /\ CallbackOK /\ WindowInv /\ CaptureInv
    BY DEF RecInv
  <1>2. PICK p \in {"unwind", "final_drain", "poll"} : Goto(p)
    BY DEF CheckProgress
  <1>3. /\ main.at = "check" /\ UNCHANGED <<session, callback, mcap, result, trace>>
        /\ window' = window \/ window' = SafeStopped
    BY DEF CheckProgress
  <1>4. MainRecord(main') /\ main'.plan = main.plan /\ main'.at = p
        /\ main'.held = main.held /\ main'.exit = main.exit
    BY <1>1, <1>2, Went
  <1>5. CaptureRuns(main, session, trace.accepted, mcap, result)
    BY <1>1 DEF CaptureInv, Capture
  <1>6. main.held = <<>> /\ mcap.entry # "final"
    BY <1>3, <1>5 DEF CaptureRuns
  <1>7. CaptureInv'
    BY <1>2, <1>3, <1>4, <1>6, MoveKeepsCapture
  <1>8. CallbackOK'
    BY <1>1, <1>3 DEF CallbackOK
  <1>9. CASE window' = window
    <2>1. WindowInv'
      BY <1>3, <1>4, <1>9, WindowKept
    <2>2. RecShapes'
      BY <1>1, <1>3, <1>4, <1>9 DEF RecShapes
    <2> QED BY <1>7, <1>8, <2>1, <2>2 DEF RecInv
  <1>10. CASE window' = SafeStopped
    <2>1. WindowRecord(window') /\ window'.state = "SafeStopRequired"
      BY <1>1, <1>10, SafeStoppedState DEF RecShapes
    <2>2. WindowInv'
      BY <2>1 DEF WindowInv
    <2>3. RecShapes'
      BY <1>1, <1>3, <1>4, <2>1 DEF RecShapes
    <2> QED BY <1>7, <1>8, <2>2, <2>3 DEF RecInv
  <1> QED BY <1>3, <1>9, <1>10

LEMMA PopPreserves ==
  ASSUME RecInv, main.exit = "running", DrainPop
  PROVE  RecInv'
  <1>1. RecShapes /\ CallbackOK /\ WindowInv /\ CaptureInv
    BY DEF RecInv
  <1>2. main.at \in {"drain", "final_drain"} /\ UNCHANGED <<window, callback, mcap, result, trace>>
    BY DEF DrainPop
  <1>3. CaptureRuns(main, session, trace.accepted, mcap, result) /\ CaptureStands(trace.accepted, mcap, result)
    BY <1>1 DEF CaptureInv, Capture
  <1>4. main.held = <<>> /\ mcap.entry # "final" /\ ~result.clean
    BY <1>2, <1>3 DEF CaptureRuns
  <1>5. CallbackOK'
    BY <1>1, <1>2 DEF CallbackOK
  <1>6. MainRecord(main) /\ SessionRecord(session)
    BY <1>1 DEF RecShapes
  <1>7. ASSUME session.state = "Recording", ~session.finalizing, session.queue # <<>>
        PROVE  RecInv'
    <2> DEFINE q == Tail(session.queue)
               e == <<Head(session.queue)>>
               p == IF main.at = "drain" THEN "write" ELSE "final_write"
               v == [session EXCEPT !.queue = Tail(@)]
    <2>1. /\ session' = v
          /\ main' = [main EXCEPT !.at = IF @ = "drain" THEN "write" ELSE "final_write",
                                  !.held = <<Head(session.queue)>>]
      BY <1>7 DEF DrainPop
    <2>2. main' = [main EXCEPT !.at = p, !.held = e]
      BY <2>1
    <2>3. v = [session EXCEPT !.queue = q]
      OBVIOUS
    <2>4. session.queue \in Seq(Frames) /\ mcap.frames \in Seq(Frames)
      BY <1>1 DEF RecShapes
    <2>5. e \in Seq(Frames) /\ q \in Seq(Frames) /\ e \o q = session.queue
      BY <1>7, <2>4, HeadTailConcat
    <2>6. p \in {"write", "final_write"}
      OBVIOUS
    <2> HIDE DEF v, q, e, p
    <2>7. SessionRecord(v) /\ v.state = session.state /\ v.queue = q /\ v.finalizing = session.finalizing
      <3> DEFINE u == [session EXCEPT !.queue = q]
      <3>1. SessionRecord(u) /\ u.state = session.state /\ u.queue = q /\ u.finalizing = session.finalizing
        BY <1>6, QueueSet
      <3> HIDE DEF u
      <3>2. v = u
        BY <2>3 DEF u
      <3> QED BY <3>1, <3>2
    <2>8. MainRecord(main') /\ main'.plan = main.plan /\ main'.at = p /\ main'.held = e /\ main'.exit = main.exit
      <3> DEFINE l == [main EXCEPT !.at = p]
                 u == [l EXCEPT !.held = e]
      <3>1. MainRecord(l) /\ l.plan = main.plan /\ l.at = p /\ l.exit = main.exit
        BY <1>6, GotoIs
      <3>2. main' = u
        BY <2>2
      <3> HIDE DEF l
      <3>3. MainRecord(u) /\ u.plan = l.plan /\ u.at = l.at /\ u.held = e /\ u.exit = l.exit
        BY <3>1, HeldIs
      <3> HIDE DEF u
      <3> QED BY <3>1, <3>2, <3>3
    <2>9. trace.accepted = mcap.frames \o e \o q
      <3> DEFINE x == mcap.frames
      <3>1. trace.accepted = mcap.frames \o main.held \o session.queue
        BY <1>3, <1>7 DEF CaptureRuns
      <3>2. x \in Seq(Frames)
        BY <2>4
      <3>3. x \o <<>> = x
        BY <3>2, ConcatEmptySeq
      <3>4. trace.accepted = x \o (e \o q)
        BY <1>4, <2>5, <3>1, <3>3
      <3> HIDE DEF x
      <3>5. e \in Seq(Frames) /\ q \in Seq(Frames)
        BY <2>5
      <3>6. (x \o e) \o q = x \o (e \o q)
        BY <3>2, <3>5, ConcatAssociative
      <3> QED BY <3>4, <3>6 DEF x
    <2>10. RecShapes'
      BY <1>1, <1>2, <2>1, <2>5, <2>7, <2>8 DEF RecShapes
    <2>11. WindowInv'
      BY <1>2, <2>8, WindowKept
    <2>12. CaptureRuns(main', session', trace'.accepted, mcap', result')
      BY <1>2, <1>4, <1>7, <2>1, <2>6, <2>7, <2>8, <2>9 DEF CaptureRuns
    <2>13. CaptureInv'
      BY <1>2, <1>3, <2>12 DEF CaptureInv, Capture, CaptureStands
    <2> QED BY <1>5, <2>10, <2>11, <2>13 DEF RecInv
  <1>8. ASSUME ~(session.state = "Recording" /\ ~session.finalizing /\ session.queue # <<>>)
        PROVE  RecInv'
    <2>1. PICK p \in {"check", "seal_check"} : Goto(p)
      BY <1>8 DEF DrainPop
    <2>2. session' = session
      BY <1>8 DEF DrainPop
    <2>3. MainRecord(main') /\ main'.plan = main.plan /\ main'.at = p
          /\ main'.held = main.held /\ main'.exit = main.exit
      BY <1>1, <2>1, Went
    <2>4. CaptureInv'
      BY <1>2, <1>4, <2>1, <2>2, <2>3, MoveKeepsCapture
    <2>5. WindowInv'
      BY <1>2, <2>3, WindowKept
    <2>6. RecShapes'
      BY <1>1, <1>2, <2>2, <2>3 DEF RecShapes
    <2> QED BY <1>5, <2>4, <2>5, <2>6 DEF RecInv
  <1> QED BY <1>7, <1>8

LEMMA WritePreserves ==
  ASSUME RecInv, main.exit = "running", NEW ok \in BOOLEAN, DrainWrite(ok)
  PROVE  RecInv'
  <1> DEFINE p == IF main.at = "write" THEN IF ok THEN "drain" ELSE "check"
                  ELSE IF ok THEN "final_drain" ELSE "seal_check"
  <1>1. RecShapes /\ CallbackOK /\ WindowInv /\ CaptureInv
    BY DEF RecInv
  <1>2. /\ main.at \in {"write", "final_write"} /\ UNCHANGED <<window, callback, result, trace>>
        /\ main' = [main EXCEPT !.held = <<>>, !.at = p]
    BY DEF DrainWrite
  <1>3. CaptureRuns(main, session, trace.accepted, mcap, result) /\ CaptureStands(trace.accepted, mcap, result)
    BY <1>1 DEF CaptureInv, Capture
  <1>4. mcap.entry # "final" /\ ~result.clean /\ session.state # "Finalized"
    BY <1>2, <1>3 DEF CaptureRuns
  <1>5. CallbackOK'
    BY <1>1, <1>2 DEF CallbackOK
  <1>6. MainRecord(main) /\ SessionRecord(session) /\ SegmentRecord(mcap)
    BY <1>1 DEF RecShapes
  <1>7. p \in {"drain", "check", "final_drain", "seal_check"}
    OBVIOUS
  <1> HIDE DEF p
  <1>8. MainRecord(main') /\ main'.plan = main.plan /\ main'.at = p /\ main'.held = <<>> /\ main'.exit = main.exit
    <2> DEFINE l == [main EXCEPT !.held = <<>>]
               u == [l EXCEPT !.at = p]
    <2>1. MainRecord(l) /\ l.plan = main.plan /\ l.held = <<>> /\ l.exit = main.exit
      BY <1>6, HeldIs
    <2>2. main' = u
      BY <1>2
    <2> HIDE DEF l
    <2>3. MainRecord(u) /\ u.plan = l.plan /\ u.at = p /\ u.held = l.held /\ u.exit = l.exit
      BY ZenonT(60), <2>1, GotoIs
    <2> HIDE DEF u
    <2> QED BY <2>1, <2>2, <2>3
  <1>9. WindowInv'
    BY <1>2, <1>8, WindowKept
  <1>10. <<>> \in Seq(Frames)
    OBVIOUS
  <1>11. CASE ok
    <2> DEFINE q == mcap.frames \o main.held
               v == [mcap EXCEPT !.frames = @ \o main.held]
    <2>1. mcap' = v /\ session' = session
      BY <1>11 DEF DrainWrite
    <2>2. v = [mcap EXCEPT !.frames = q]
      OBVIOUS
    <2>3. mcap.frames \in Seq(Frames) /\ main.held \in Seq(Frames) /\ session.queue \in Seq(Frames)
      BY <1>1 DEF RecShapes
    <2>4. q \in Seq(Frames) /\ q \o <<>> = q
      <3>1. q \in Seq(Frames)
        BY <2>3, ConcatProperties
      <3> HIDE DEF q
      <3> QED BY <3>1, ConcatEmptySeq
    <2>5. session.state = "Recording" => trace.accepted = q \o <<>> \o session.queue
      <3>1. session.state = "Recording" => trace.accepted = q \o session.queue
        BY <1>3 DEF CaptureRuns
      <3> HIDE DEF q
      <3> QED BY <2>4, <3>1
    <2> HIDE DEF q, v
    <2>6. SegmentRecord(v) /\ v.entry = mcap.entry /\ v.frames = q
      <3>1. v = SegmentOf(mcap.entry, q, mcap.sealed, mcap.durable, mcap.clean)
        BY <1>6, <2>2, SegmentSteps
      <3> QED BY <3>1, SegmentOfIs
    <2>7. RecShapes'
      BY <1>1, <1>2, <1>8, <1>10, <2>1, <2>4, <2>6 DEF RecShapes
    <2>8. CaptureRuns(main', session', trace'.accepted, mcap', result')
      <3>1. session'.state = "Recording" => trace'.accepted = mcap'.frames \o main'.held \o session'.queue
        BY <1>2, <1>8, <2>1, <2>5, <2>6
      <3> QED BY <1>2, <1>3, <1>4, <1>7, <1>8, <2>1, <2>6, <3>1 DEF CaptureRuns
    <2>9. CaptureStands(trace'.accepted, mcap', result')
      BY <1>2, <1>4, <2>1, <2>6 DEF CaptureStands
    <2>10. CaptureInv'
      BY <2>8, <2>9 DEF CaptureInv, Capture
    <2> QED BY <1>5, <1>9, <2>7, <2>10 DEF RecInv
  <1>12. CASE ~ok
    <2> DEFINE v == [session EXCEPT !.state = "SafeStopRequired"]
    <2>1. mcap' = mcap /\ session' = v
      BY <1>12 DEF DrainWrite
    <2>2. SessionRecord(v) /\ v.state = "SafeStopRequired" /\ v.queue = session.queue
          /\ v.finalizing = session.finalizing
      BY <1>6, StateSet
    <2> HIDE DEF v
    <2>3. RecShapes'
      BY <1>1, <1>2, <1>8, <1>10, <2>1, <2>2 DEF RecShapes
    <2>4. CaptureRuns(main', session', trace'.accepted, mcap', result')
      BY <1>2, <1>3, <1>4, <1>7, <1>8, <2>1, <2>2 DEF CaptureRuns
    <2>5. CaptureInv'
      BY <1>2, <1>3, <2>1, <2>4 DEF CaptureInv, Capture, CaptureStands
    <2> QED BY <1>5, <1>9, <2>3, <2>5 DEF RecInv
  <1> QED BY <1>11, <1>12

LEMMA SealCheckPreserves ==
  ASSUME RecInv, main.exit = "running", SealCheck
  PROVE  RecInv'
  <1>1. RecShapes /\ CallbackOK /\ WindowInv /\ CaptureInv
    BY DEF RecInv
  <1>2. main.at = "seal_check" /\ UNCHANGED <<window, callback, mcap, result, trace>>
    BY DEF SealCheck
  <1>3. CaptureRuns(main, session, trace.accepted, mcap, result) /\ CaptureStands(trace.accepted, mcap, result)
    BY <1>1 DEF CaptureInv, Capture
  <1>4. main.held = <<>> /\ mcap.entry # "final" /\ ~result.clean
    BY <1>2, <1>3 DEF CaptureRuns
  <1>5. CallbackOK' /\ SessionRecord(session)
    BY <1>1, <1>2 DEF CallbackOK, RecShapes
  <1>6. ASSUME session.state = "Recording", session.queue = <<>>
        PROVE  RecInv'
    <2> DEFINE v == [session EXCEPT !.finalizing = TRUE]
    <2>1. session' = v /\ Goto("seal")
      BY <1>6 DEF SealCheck
    <2>2. SessionRecord(v) /\ v.state = session.state /\ v.queue = session.queue /\ v.finalizing = TRUE
      BY <1>5, FinalizingSet
    <2> HIDE DEF v
    <2>3. MainRecord(main') /\ main'.plan = main.plan /\ main'.at = "seal"
          /\ main'.held = main.held /\ main'.exit = main.exit
      BY <1>1, <2>1, Went
    <2>4. RecShapes'
      BY <1>1, <1>2, <2>1, <2>2, <2>3 DEF RecShapes
    <2>5. WindowInv'
      BY <1>2, <2>3, WindowKept
    <2>6. CaptureRuns(main', session', trace'.accepted, mcap', result')
      BY <1>2, <1>3, <1>4, <1>6, <2>1, <2>2, <2>3 DEF CaptureRuns
    <2>7. CaptureInv'
      BY <1>2, <1>3, <2>6 DEF CaptureInv, Capture, CaptureStands
    <2> QED BY <1>5, <2>4, <2>5, <2>7 DEF RecInv
  <1>7. ASSUME ~(session.state = "Recording" /\ session.queue = <<>>)
        PROVE  RecInv'
    <2>1. session' = session /\ Goto("unwind")
      BY <1>7 DEF SealCheck
    <2>2. MainRecord(main') /\ main'.plan = main.plan /\ main'.at = "unwind"
          /\ main'.held = main.held /\ main'.exit = main.exit
      BY <1>1, <2>1, Went
    <2>3. CaptureInv'
      BY <1>2, <1>4, <2>1, <2>2, MoveKeepsCapture
    <2>4. WindowInv'
      BY <1>2, <2>2, WindowKept
    <2>5. RecShapes'
      BY <1>1, <1>2, <2>1, <2>2 DEF RecShapes
    <2> QED BY <1>5, <2>3, <2>4, <2>5 DEF RecInv
  <1> QED BY <1>6, <1>7

LEMMA SealPreserves ==
  ASSUME RecInv, main.exit = "running", NEW ok \in BOOLEAN, SealMcap(ok)
  PROVE  RecInv'
  <1>1. RecShapes /\ CallbackOK /\ WindowInv /\ CaptureInv
    BY DEF RecInv
  <1>2. main.at = "seal" /\ UNCHANGED <<window, callback, result, trace>>
    BY DEF SealMcap
  <1>3. CaptureRuns(main, session, trace.accepted, mcap, result) /\ CaptureStands(trace.accepted, mcap, result)
    BY <1>1 DEF CaptureInv, Capture
  <1>4. main.held = <<>> /\ mcap.entry # "final" /\ ~result.clean
    BY <1>2, <1>3 DEF CaptureRuns
  <1>5. CallbackOK' /\ SegmentRecord(mcap)
    BY <1>1, <1>2 DEF CallbackOK, RecShapes
  <1>6. CASE ok
    <2> DEFINE v == [mcap EXCEPT !.sealed = TRUE]
    <2>1. mcap' = v /\ Goto("rename") /\ session' = session
      BY <1>6 DEF SealMcap
    <2>2. SegmentRecord(v) /\ v.entry = mcap.entry /\ v.frames = mcap.frames /\ v.sealed = TRUE
          /\ v.durable = mcap.durable
      <3>1. v = SegmentOf(mcap.entry, mcap.frames, TRUE, mcap.durable, mcap.clean)
        BY <1>5, SegmentSteps
      <3> HIDE DEF v
      <3> QED BY <3>1 DEF SegmentOf, SegmentRecord
    <2> HIDE DEF v
    <2>3. MainRecord(main') /\ main'.plan = main.plan /\ main'.at = "rename"
          /\ main'.held = main.held /\ main'.exit = main.exit
      BY <1>1, <2>1, Went
    <2>4. RecShapes'
      BY <1>1, <1>2, <2>1, <2>2, <2>3 DEF RecShapes
    <2>5. WindowInv'
      BY <1>2, <2>3, WindowKept
    <2>6. CaptureRuns(main', session', trace'.accepted, mcap', result')
      BY <1>2, <1>3, <1>4, <2>1, <2>2, <2>3 DEF CaptureRuns
    <2>7. CaptureInv'
      BY <1>2, <1>4, <2>1, <2>2, <2>6 DEF CaptureInv, Capture, CaptureStands
    <2> QED BY <1>5, <2>4, <2>5, <2>7 DEF RecInv
  <1>7. CASE ~ok
    <2>1. FinalizeFails /\ mcap' = mcap
      BY <1>7 DEF SealMcap
    <2>2. /\ MainRecord(main') /\ main'.plan = main.plan /\ main'.at = "unwind"
          /\ main'.held = main.held /\ main'.exit = main.exit
          /\ SessionRecord(session') /\ session'.state = "SafeStopRequired"
          /\ session'.queue = session.queue /\ session'.finalizing = session.finalizing
      BY <1>1, <2>1, Failed
    <2>3. RecShapes'
      BY <1>1, <1>2, <2>1, <2>2 DEF RecShapes
    <2>4. WindowInv'
      BY <1>2, <2>2, WindowKept
    <2>5. CaptureRuns(main', session', trace'.accepted, mcap', result')
      BY <1>2, <1>3, <1>4, <2>1, <2>2 DEF CaptureRuns
    <2>6. CaptureInv'
      BY <1>2, <1>3, <2>1, <2>5 DEF CaptureInv, Capture, CaptureStands
    <2> QED BY <1>5, <2>3, <2>4, <2>6 DEF RecInv
  <1> QED BY <1>6, <1>7

LEMMA RenamePreserves ==
  ASSUME RecInv, main.exit = "running", NEW ok \in BOOLEAN, RenameMcap(ok)
  PROVE  RecInv'
  <1>1. RecShapes /\ CallbackOK /\ WindowInv /\ CaptureInv
    BY DEF RecInv
  <1>2. main.at = "rename" /\ UNCHANGED <<window, callback, result, trace>>
    BY DEF RenameMcap
  <1>3. CaptureRuns(main, session, trace.accepted, mcap, result) /\ CaptureStands(trace.accepted, mcap, result)
    BY <1>1 DEF CaptureInv, Capture
  <1>4. /\ main.held = <<>> /\ mcap.entry # "final" /\ ~result.clean /\ mcap.sealed
        /\ session.finalizing /\ session.queue = <<>> /\ session.state = "Recording"
        /\ trace.accepted = mcap.frames \o main.held \o session.queue
    BY <1>2, <1>3 DEF CaptureRuns
  <1>5. CallbackOK' /\ SegmentRecord(mcap) /\ mcap.frames \in Seq(Frames)
    BY <1>1, <1>2 DEF CallbackOK, RecShapes
  <1>6. trace.accepted = mcap.frames
    <2> DEFINE x == mcap.frames
    <2>1. x \in Seq(Frames) /\ trace.accepted = x \o <<>> \o <<>>
      BY <1>4, <1>5
    <2> HIDE DEF x
    <2>2. x \o <<>> = x
      BY <2>1, ConcatEmptySeq
    <2> QED BY <2>1, <2>2 DEF x
  <1>7. CASE ok
    <2>1. mcap' = Renamed(mcap) /\ Goto("sync_directory") /\ session' = session
      BY <1>7 DEF RenameMcap
    <2>2. SegmentRecord(mcap') /\ mcap'.entry = "final" /\ mcap'.frames = mcap.frames
          /\ mcap'.sealed = mcap.sealed /\ mcap'.durable = mcap.durable
      <3>1. mcap' = SegmentOf("final", mcap.frames, mcap.sealed, mcap.durable, mcap.clean)
        BY <1>5, <2>1, SegmentSteps
      <3> QED BY <3>1 DEF SegmentOf, SegmentRecord
    <2>3. MainRecord(main') /\ main'.plan = main.plan /\ main'.at = "sync_directory"
          /\ main'.held = main.held /\ main'.exit = main.exit
      BY <1>1, <2>1, Went
    <2>4. RecShapes'
      BY <1>1, <1>2, <2>1, <2>2, <2>3 DEF RecShapes
    <2>5. WindowInv'
      BY <1>2, <2>3, WindowKept
    <2>6. CaptureRuns(main', session', trace'.accepted, mcap', result')
      BY <1>2, <1>4, <2>1, <2>2, <2>3 DEF CaptureRuns
    <2>7. CaptureStands(trace'.accepted, mcap', result')
      BY <1>2, <1>4, <1>6, <2>2 DEF CaptureStands
    <2>8. CaptureInv'
      BY <2>6, <2>7 DEF CaptureInv, Capture
    <2> QED BY <1>5, <2>4, <2>5, <2>8 DEF RecInv
  <1>8. CASE ~ok
    <2>1. FinalizeFails /\ mcap' = mcap
      BY <1>8 DEF RenameMcap
    <2>2. /\ MainRecord(main') /\ main'.plan = main.plan /\ main'.at = "unwind"
          /\ main'.held = main.held /\ main'.exit = main.exit
          /\ SessionRecord(session') /\ session'.state = "SafeStopRequired"
          /\ session'.queue = session.queue /\ session'.finalizing = session.finalizing
      BY <1>1, <2>1, Failed
    <2>3. RecShapes'
      BY <1>1, <1>2, <2>1, <2>2 DEF RecShapes
    <2>4. WindowInv'
      BY <1>2, <2>2, WindowKept
    <2>5. CaptureRuns(main', session', trace'.accepted, mcap', result')
      BY <1>2, <1>3, <1>4, <2>1, <2>2 DEF CaptureRuns
    <2>6. CaptureInv'
      BY <1>2, <1>3, <2>1, <2>5 DEF CaptureInv, Capture, CaptureStands
    <2> QED BY <1>5, <2>3, <2>4, <2>6 DEF RecInv
  <1> QED BY <1>7, <1>8

LEMMA SyncPreserves ==
  ASSUME RecInv, main.exit = "running", NEW ok \in BOOLEAN, SyncDirectory(ok)
  PROVE  RecInv'
  <1>1. RecShapes /\ CallbackOK /\ WindowInv /\ CaptureInv
    BY DEF RecInv
  <1>2. main.at = "sync_directory" /\ UNCHANGED <<window, callback, result, trace>>
    BY DEF SyncDirectory
  <1>3. CaptureRuns(main, session, trace.accepted, mcap, result) /\ CaptureStands(trace.accepted, mcap, result)
    BY <1>1 DEF CaptureInv, Capture
  <1>4. /\ main.held = <<>> /\ mcap.entry = "final" /\ ~result.clean
        /\ session.finalizing /\ session.queue = <<>>
    BY <1>2, <1>3 DEF CaptureRuns
  <1>5. CallbackOK' /\ SegmentRecord(mcap) /\ SessionRecord(session)
    BY <1>1, <1>2 DEF CallbackOK, RecShapes
  <1>6. CASE ok
    <2> DEFINE v == [session EXCEPT !.state = "Finalized"]
    <2>1. mcap' = Synced(mcap) /\ Goto("unwind") /\ session' = v
      BY <1>6 DEF SyncDirectory
    <2>2. SegmentRecord(mcap') /\ mcap'.entry = mcap.entry /\ mcap'.frames = mcap.frames
          /\ mcap'.sealed = mcap.sealed /\ mcap'.durable = TRUE
      <3>1. mcap' = SegmentOf(mcap.entry, mcap.frames, mcap.sealed, TRUE, mcap.clean)
        BY <1>5, <2>1, SegmentSteps
      <3> QED BY <3>1 DEF SegmentOf, SegmentRecord
    <2>3. SessionRecord(v) /\ v.state = "Finalized" /\ v.queue = session.queue
          /\ v.finalizing = session.finalizing
      BY <1>5, StateSet
    <2> HIDE DEF v
    <2>4. MainRecord(main') /\ main'.plan = main.plan /\ main'.at = "unwind"
          /\ main'.held = main.held /\ main'.exit = main.exit
      BY <1>1, <2>1, Went
    <2>5. RecShapes'
      BY <1>1, <1>2, <2>1, <2>2, <2>3, <2>4 DEF RecShapes
    <2>6. WindowInv'
      BY <1>2, <2>4, WindowKept
    <2>7. CaptureRuns(main', session', trace'.accepted, mcap', result')
      BY <1>2, <1>4, <2>1, <2>2, <2>3, <2>4 DEF CaptureRuns
    <2>8. CaptureStands(trace'.accepted, mcap', result')
      BY <1>2, <1>3, <1>4, <2>2 DEF CaptureStands
    <2>9. CaptureInv'
      BY <2>7, <2>8 DEF CaptureInv, Capture
    <2> QED BY <1>5, <2>5, <2>6, <2>9 DEF RecInv
  <1>7. CASE ~ok
    <2>1. FinalizeFails /\ mcap' = Unlinked(mcap)
      BY <1>7 DEF SyncDirectory
    <2>2. /\ MainRecord(main') /\ main'.plan = main.plan /\ main'.at = "unwind"
          /\ main'.held = main.held /\ main'.exit = main.exit
          /\ SessionRecord(session') /\ session'.state = "SafeStopRequired"
          /\ session'.queue = session.queue /\ session'.finalizing = session.finalizing
      BY <1>1, <2>1, Failed
    <2>3. SegmentRecord(mcap') /\ mcap'.entry = "none" /\ mcap'.frames = mcap.frames
      <3>1. mcap' = SegmentOf("none", mcap.frames, mcap.sealed, mcap.durable, mcap.clean)
        BY <1>5, <2>1, SegmentSteps
      <3> QED BY <3>1 DEF SegmentOf, SegmentRecord
    <2>4. RecShapes'
      BY <1>1, <1>2, <2>1, <2>2, <2>3 DEF RecShapes
    <2>5. WindowInv'
      BY <1>2, <2>2, WindowKept
    <2>6. CaptureRuns(main', session', trace'.accepted, mcap', result')
      BY <1>2, <1>4, <2>2, <2>3 DEF CaptureRuns
    <2>7. CaptureStands(trace'.accepted, mcap', result')
      BY <1>2, <1>4, <2>3 DEF CaptureStands
    <2>8. CaptureInv'
      BY <2>6, <2>7 DEF CaptureInv, Capture
    <2> QED BY <1>5, <2>4, <2>5, <2>8 DEF RecInv
  <1> QED BY <1>6, <1>7

-----------------------------------------------------------------------------
(* The result document, the end of the process and its death.              *)
LEMMA FreshSegments ==
  /\ SegmentRecord(NewSegment) /\ NewSegment.clean = FALSE
  /\ SegmentRecord(NoSegment) /\ NoSegment.clean = FALSE
  /\ \A b : SegmentRecord([NewSegment EXCEPT !.clean = b]) /\ [NewSegment EXCEPT !.clean = b].clean = b
  <1>1. SegmentRecord(NewSegment) /\ NewSegment.clean = FALSE
    BY DEF NewSegment, SegmentRecord
  <1>2. SegmentRecord(NoSegment) /\ NoSegment.clean = FALSE
    <2> DEFINE v == [NewSegment EXCEPT !.entry = "none"]
    <2>1. v = SegmentOf("none", NewSegment.frames, NewSegment.sealed, NewSegment.durable, NewSegment.clean)
      BY <1>1, SegmentIs DEF SegmentOf
    <2> HIDE DEF v
    <2>2. SegmentRecord(v) /\ v.clean = NewSegment.clean
      BY <2>1, SegmentOfIs
    <2> QED BY <1>1, <2>2 DEF v, NoSegment
  <1>3. ASSUME NEW b
        PROVE  SegmentRecord([NewSegment EXCEPT !.clean = b]) /\ [NewSegment EXCEPT !.clean = b].clean = b
    <2> DEFINE v == [NewSegment EXCEPT !.clean = b]
    <2>1. v = SegmentOf(NewSegment.entry, NewSegment.frames, NewSegment.sealed, NewSegment.durable, b)
      BY <1>1, SegmentIs DEF SegmentOf
    <2> HIDE DEF v
    <2>2. SegmentRecord(v) /\ v.clean = b
      BY <2>1, SegmentOfIs
    <2> QED BY <2>2 DEF v
  <1> QED BY <1>1, <1>2, <1>3

LEMMA UnsubscribePreserves ==
  ASSUME RecInv, main.exit = "running", Unsubscribe
  PROVE  RecInv'
  <1>1. RecShapes /\ CallbackOK /\ WindowInv /\ CaptureInv
    BY DEF RecInv
  <1>2. /\ main.at = "unwind" /\ Goto("write_result")
        /\ UNCHANGED <<window, session, callback, mcap, trace>>
    BY DEF Unsubscribe
  <1>3. CaptureRuns(main, session, trace.accepted, mcap, result) /\ CaptureStands(trace.accepted, mcap, result)
    BY <1>1 DEF CaptureInv, Capture
  <1>4. SegmentRecord(result') /\ (result'.clean => session.state = "Finalized")
    <2> DEFINE b == session.state = "Finalized"
               v == [NewSegment EXCEPT !.clean = b]
    <2>1. result' = v
      BY DEF Unsubscribe
    <2>2. SegmentRecord(v) /\ v.clean = b
      <3> HIDE DEF b
      <3> QED BY FreshSegments
    <2> HIDE DEF v
    <2>3. SegmentRecord(result') /\ (result'.clean => b)
      <3> HIDE DEF b
      <3> QED BY <2>1, <2>2
    <2> QED BY <2>3
  <1>5. MainRecord(main') /\ main'.plan = main.plan /\ main'.at = "write_result"
        /\ main'.held = main.held /\ main'.exit = main.exit
    BY <1>1, <1>2, Went
  <1>6. RecShapes' /\ CallbackOK'
    BY <1>1, <1>2, <1>4, <1>5 DEF RecShapes, CallbackOK
  <1>7. WindowInv'
    BY <1>2, <1>5, WindowKept
  <1>8. CaptureRuns(main', session', trace'.accepted, mcap', result')
    BY <1>2, <1>3, <1>5 DEF CaptureRuns
  <1>9. CaptureStands(trace'.accepted, mcap', result')
    BY <1>2, <1>3, <1>4 DEF CaptureRuns, CaptureStands
  <1>10. CaptureInv'
    BY <1>8, <1>9 DEF CaptureInv, Capture
  <1> QED BY <1>6, <1>7, <1>10 DEF RecInv

LEMMA ResultPreserves ==
  ASSUME RecInv, main.exit = "running", NEW outcome, WriteSessionResult(outcome)
  PROVE  RecInv'
  <1>1. RecShapes /\ CallbackOK /\ WindowInv /\ CaptureInv
    BY DEF RecInv
  <1>2. main.at = "write_result" /\ UNCHANGED <<window, session, callback, mcap, trace>>
    BY DEF WriteSessionResult
  <1>3. CaptureRuns(main, session, trace.accepted, mcap, result) /\ CaptureStands(trace.accepted, mcap, result)
    BY <1>1 DEF CaptureInv, Capture
  <1>4. main' = main \/ Goto("destroy")
    BY DEF WriteSessionResult
  <1>5. MainRecord(main') /\ main'.plan = main.plan /\ main'.at \in {"write_result", "destroy"}
        /\ main'.held = main.held /\ main'.exit = main.exit
    <2>1. CASE main' = main
      BY <1>1, <1>2, <2>1 DEF RecShapes
    <2>2. CASE Goto("destroy")
      BY <1>1, <2>2, Went
    <2> QED BY <1>4, <2>1, <2>2
  <1>6. SegmentRecord(result') /\ (result'.clean => result.clean)
    <2>1. SegmentRecord(result)
      BY <1>1 DEF RecShapes
    <2>2. CASE result' = [Renamed(result) EXCEPT !.sealed = TRUE]
      <3> DEFINE g == Renamed(result)
                 v == [g EXCEPT !.sealed = TRUE]
      <3>1. g = SegmentOf("final", result.frames, result.sealed, result.durable, result.clean)
        BY <2>1, SegmentSteps
      <3>2. result' = v
        BY <2>2
      <3> HIDE DEF g
      <3>3. SegmentRecord(g) /\ g.clean = result.clean
        BY <3>1, SegmentOfIs
      <3>4. v = SegmentOf(g.entry, g.frames, TRUE, g.durable, g.clean)
        BY <3>3, SegmentSteps
      <3> HIDE DEF v
      <3>5. SegmentRecord(v) /\ v.clean = g.clean
        BY <3>4 DEF SegmentOf, SegmentRecord
      <3> QED BY <3>2, <3>3, <3>5
    <2>3. CASE result' = Synced(result)
      <3>1. result' = SegmentOf(result.entry, result.frames, result.sealed, TRUE, result.clean)
        BY <2>1, <2>3, SegmentSteps
      <3>2. SegmentRecord(result') /\ result'.clean = result.clean
        BY <3>1 DEF SegmentOf, SegmentRecord
      <3> QED BY <3>2
    <2>4. CASE result' = NewSegment \/ result' = NoSegment
      BY <2>4, FreshSegments
    <2> QED BY <2>2, <2>3, <2>4 DEF WriteSessionResult
  <1>7. RecShapes' /\ CallbackOK'
    BY <1>1, <1>2, <1>5, <1>6 DEF RecShapes, CallbackOK
  <1>8. WindowInv'
    BY <1>2, <1>5, WindowKept
  <1>9. CaptureRuns(main', session', trace'.accepted, mcap', result')
    BY <1>2, <1>3, <1>5 DEF CaptureRuns
  <1>10. CaptureStands(trace'.accepted, mcap', result')
    BY <1>2, <1>3, <1>6 DEF CaptureStands
  <1>11. CaptureInv'
    BY <1>9, <1>10 DEF CaptureInv, Capture
  <1> QED BY <1>7, <1>8, <1>11 DEF RecInv

LEMMA ExitPreserves ==
  ASSUME RecInv, main.exit = "running", Exit
  PROVE  RecInv'
  <1> DEFINE x == IF result.clean /\ result.durable THEN "zero" ELSE "nonzero"
             v == [main EXCEPT !.exit = x]
  <1>1. RecShapes /\ CallbackOK /\ WindowInv /\ CaptureInv
    BY DEF RecInv
  <1>2. /\ mcap' = Discarded(mcap) /\ main' = v
        /\ UNCHANGED <<window, session, callback, result, trace>>
    BY DEF Exit
  <1>3. CaptureStands(trace.accepted, mcap, result)
    BY <1>1 DEF CaptureInv, Capture
  <1>4. MainRecord(main) /\ SegmentRecord(mcap) /\ x # "running"
    BY <1>1 DEF RecShapes
  <1> HIDE DEF x
  <1>5. MainRecord(v) /\ v.plan = main.plan /\ v.at = main.at /\ v.held = main.held /\ v.exit = x
    BY <1>4, ExitIs
  <1> HIDE DEF v
  <1>6. SegmentRecord(mcap') /\ mcap'.frames = mcap.frames /\ mcap'.sealed = mcap.sealed
        /\ mcap'.durable = mcap.durable /\ (mcap'.entry = "final" <=> mcap.entry = "final")
    <2>1. CASE mcap.entry = "temporary"
      <3>1. mcap' = SegmentOf("none", mcap.frames, mcap.sealed, mcap.durable, mcap.clean)
        BY <1>2, <1>4, <2>1, SegmentSteps DEF Discarded
      <3>2. SegmentRecord(mcap') /\ mcap'.entry = "none" /\ mcap'.frames = mcap.frames
            /\ mcap'.sealed = mcap.sealed /\ mcap'.durable = mcap.durable
        BY <3>1, SegmentOfIs
      <3> QED BY <2>1, <3>2
    <2>2. CASE mcap.entry # "temporary"
      BY <1>2, <1>4, <2>2 DEF Discarded
    <2> QED BY <2>1, <2>2
  <1>7. RecShapes' /\ CallbackOK'
    BY <1>1, <1>2, <1>5, <1>6 DEF RecShapes, CallbackOK
  <1>8. WindowInv'
    BY <1>2, <1>5, WindowKept
  <1>9. CaptureStands(trace'.accepted, mcap', result')
    BY <1>2, <1>3, <1>6 DEF CaptureStands
  <1>10. CaptureInv'
    BY <1>2, <1>4, <1>5, <1>9 DEF CaptureInv, Capture
  <1> QED BY <1>7, <1>8, <1>10 DEF RecInv

(* A crash takes away no more than a name that was not yet durable.        *)
Survives(g, h) ==
    /\ SegmentRecord(h) /\ h.frames = g.frames /\ h.sealed = g.sealed /\ h.clean = g.clean
    /\ h.durable = g.durable
    /\ h.entry = "final" => g.entry = "final"
    /\ g.entry = "final" /\ g.durable => h.entry = "final"

LEMMA CrashLeaves ==
  ASSUME NEW g, SegmentRecord(g), NEW power, NEW h,
         h \in IF power /\ g.entry = "final" /\ ~g.durable THEN {g, Unlinked(g)} ELSE {g}
  PROVE  Survives(g, h)
  <1>1. CASE h = g
    BY <1>1 DEF Survives
  <1>2. CASE h = Unlinked(g) /\ ~g.durable
    <2>1. h = SegmentOf("none", g.frames, g.sealed, g.durable, g.clean)
      BY <1>2, SegmentSteps
    <2>2. SegmentRecord(h) /\ h.entry = "none" /\ h.frames = g.frames /\ h.sealed = g.sealed
          /\ h.durable = g.durable /\ h.clean = g.clean
      BY <2>1, SegmentOfIs
    <2> QED BY <1>2, <2>2 DEF Survives
  <1> QED BY <1>1, <1>2

LEMMA CrashPreserves ==
  ASSUME RecInv, NEW power \in BOOLEAN, Crash(power)
  PROVE  RecInv'
  <1>1. RecShapes /\ CaptureInv
    BY DEF RecInv
  <1>2. /\ main' = [main EXCEPT !.exit = "killed", !.at = "poll", !.held = <<>>]
        /\ window' = SafeStopped /\ EndCallback
        /\ session' = [state |-> "SafeStopRequired", queue |-> <<>>, finalizing |-> FALSE]
        /\ trace' = trace
    BY DEF Crash
  <1>3. CaptureStands(trace.accepted, mcap, result)
    BY <1>1 DEF CaptureInv, Capture
  <1>4. MainRecord(main) /\ SegmentRecord(mcap) /\ SegmentRecord(result) /\ WindowRecord(window)
    BY <1>1 DEF RecShapes
  <1>5. Survives(mcap, mcap')
    BY <1>4, CrashLeaves DEF Crash
  <1>6. Survives(result, result')
    <2>1. SegmentRecord(result)
      BY <1>4
    <2>2. result' \in IF power /\ result.entry = "final" /\ ~result.durable
                      THEN {result, Unlinked(result)} ELSE {result}
      BY DEF Crash
    <2> QED BY ONLY <2>1, <2>2, CrashLeaves
  <1>7. MainRecord(main') /\ main'.held = <<>> /\ main'.exit = "killed"
    <2>1. MainRecord(main)
      BY <1>4
    <2>2. main' = [main EXCEPT !.exit = "killed", !.at = "poll", !.held = <<>>]
      BY <1>2
    <2> QED BY ONLY <2>1, <2>2, MainKilled
  <1>8. SessionRecord(session') /\ session'.queue = <<>>
    BY <1>2 DEF SessionRecord
  <1>9. WindowRecord(window') /\ window'.state = "SafeStopRequired"
    BY <1>2, <1>4, SafeStoppedState
  <1>10. <<>> \in Seq(Frames)
    OBVIOUS
  <1>11. RecShapes'
    BY <1>1, <1>2, <1>5, <1>6, <1>7, <1>8, <1>9, <1>10 DEF RecShapes, Survives
  <1>12. CallbackOK'
    BY <1>2, Ended
  <1>13. WindowInv'
    BY <1>9 DEF WindowInv
  <1>14. CaptureStands(trace'.accepted, mcap', result')
    BY <1>2, <1>3, <1>5, <1>6 DEF CaptureStands, Survives
  <1>15. CaptureInv'
    BY <1>7, <1>14 DEF CaptureInv, Capture
  <1> QED BY <1>11, <1>12, <1>13, <1>15 DEF RecInv

LEMMA RecStep ==
  ASSUME RecInv, [RecNext]_recVars
  PROVE  RecInv'
  <1>1. CASE RefuseFrame
    BY <1>1, RefusePreserves
  <1>2. CASE \E topic \in Topics : \E stamp \in 1 .. MaxStamp[topic] : ReceiveFrame(topic, stamp)
    <2>1. PICK topic \in Topics : \E stamp \in 1 .. MaxStamp[topic] : ReceiveFrame(topic, stamp)
      BY <1>2
    <2>2. PICK stamp \in 1 .. MaxStamp[topic] : ReceiveFrame(topic, stamp)
      BY <2>1
    <2> QED BY <2>2, ReceivePreserves
  <1>3. CASE main.exit = "running" /\ EnqueueFrame
    BY <1>3, EnqueuePreserves
  <1>4. CASE main.exit = "running" /\ RecordingLoop
    <2>1. CASE \E event \in {"none", "start", "stop", "invalid"} : PollControl(event)
      BY <1>4, <2>1, PollPreserves
    <2>2. CASE LoopEnds
      BY <1>4, <2>2, LoopEndsPreserves
    <2>3. CASE DrainPop
      BY <1>4, <2>3, PopPreserves
    <2>4. CASE \E ok \in BOOLEAN : DrainWrite(ok)
      BY <1>4, <2>4, WritePreserves
    <2>5. CASE \E silent \in BOOLEAN : CheckProgress(silent)
      BY <1>4, <2>5, CheckPreserves
    <2>6. CASE SealCheck
      BY <1>4, <2>6, SealCheckPreserves
    <2>7. CASE \E ok \in BOOLEAN : SealMcap(ok)
      BY <1>4, <2>7, SealPreserves
    <2>8. CASE \E ok \in BOOLEAN : RenameMcap(ok)
      BY <1>4, <2>8, RenamePreserves
    <2>9. CASE \E ok \in BOOLEAN : SyncDirectory(ok)
      BY <1>4, <2>9, SyncPreserves
    <2>10. CASE Unsubscribe
      BY <1>4, <2>10, UnsubscribePreserves
    <2>11. CASE \E outcome \in {"rename", "sync", "fail"} : WriteSessionResult(outcome)
      BY <1>4, <2>11, ResultPreserves
    <2>12. CASE Exit
      BY <1>4, <2>12, ExitPreserves
    <2> QED BY <1>4, <2>1, <2>2, <2>3, <2>4, <2>5, <2>6, <2>7, <2>8, <2>9, <2>10, <2>11, <2>12
            DEF RecordingLoop
  <1>5. CASE \E power \in BOOLEAN : Crash(power)
    BY <1>5, CrashPreserves
  <1>6. CASE UNCHANGED recVars
    BY <1>6, StuttersPreserve
  <1> QED BY <1>1, <1>2, <1>3, <1>4, <1>5, <1>6 DEF RecNext

LEMMA RecInvIsEnough == RecInv => RecordingSound
  <1> SUFFICES ASSUME RecInv PROVE RecordingSound
    OBVIOUS
  <1>1. PublishedCaptureIsWhole
    BY DEF RecInv, CaptureInv, Capture, CaptureStands, PublishedCaptureIsWhole
  <1>2. WindowIsLossless
    <2> DEFINE log == trace.committed
    <2> SUFFICES ASSUME Interactive, window.state # "SafeStopRequired"
                 PROVE  /\ \A f \in trace.received, g \in ToSet(log) :
                             OfSensor(f) /\ OfSensor(g) /\ StampOf(g) <= StampOf(f) /\ StampOf(f) <= window.last
                               => f \in ToSet(log)
                        /\ \A i, j \in DOMAIN log :
                             i < j /\ TopicOf(log[i]) = TopicOf(log[j]) /\ TopicOf(log[i]) # "command"
                               => StampOf(log[i]) < StampOf(log[j])
      BY DEF WindowIsLossless
    <2>1. WindowShape(window) /\ Pending(window) /\ LogOK(window, log) /\ ShownOK(window, log, trace.received)
      BY DEF RecInv, WindowInv, WindowOK
    <2>2. log \in Seq(Frames) /\ Ascending(log)
      BY <2>1 DEF LogOK
    <2>3. DOMAIN log = 1 .. Len(log) /\ ToSet(log) = {log[i] : i \in 1 .. Len(log)}
      BY <2>2 DEF ToSet
    <2> HIDE DEF log
    <2>4. ASSUME NEW f \in trace.received, NEW g \in ToSet(log), OfSensor(f), OfSensor(g),
                 StampOf(g) <= StampOf(f), StampOf(f) <= window.last
          PROVE  f \in ToSet(log)
      <3>1. PICK k \in 1 .. Len(log) : g = log[k]
        BY <2>3
      <3>2. log[k] \in Frames
        BY <2>2
      <3>3. f \in Frames
        BY <2>1 DEF ShownOK
      <3>4. StampOf(f) \in Stamps /\ StampOf(f) \in Nat /\ StampOf(g) \in Nat
        BY <3>1, <3>2, <3>3, FrameFacts
      <3>5. IsCommitted(log, f) \/ IsPending(window, f) \/ CameBefore(window, log, f)
        BY <2>1, <2>4 DEF ShownOK
      <3>6. ~IsPending(window, f)
        <4>1. window.sensors[StampOf(f)] = <<>>
          BY <2>1, <2>4, <3>4 DEF Pending
        <4>2. Len(window.sensors[StampOf(f)]) = 0
          BY <4>1
        <4> QED BY <4>2 DEF IsPending
      <3>7. ~CameBefore(window, log, f)
        <4>1. ~(StampOf(f) < StampOf(g))
          BY <2>4, <3>4
        <4> QED BY <2>4, <3>1, <4>1 DEF CameBefore, Precedes
      <3> QED BY <2>3, <3>5, <3>6, <3>7 DEF IsCommitted
    <2>5. \A i, j \in DOMAIN log :
            i < j /\ TopicOf(log[i]) = TopicOf(log[j]) /\ TopicOf(log[i]) # "command"
              => StampOf(log[i]) < StampOf(log[j])
      BY <2>2, <2>3 DEF Ascending
    <2> QED BY <2>4, <2>5 DEF log
  <1> QED BY <1>1, <1>2 DEF RecordingSound

(* What the recorder publishes is whole: a capture that carries its final  *)
(* name is a closed file of exactly the frames accepted, whatever failed   *)
(* or crashed, a clean result only stands beside a durable one, and the    *)
(* interactive window loses no sensor frame between its boundaries.        *)
THEOREM TheRecordingIsWhole == RecSpec => []RecordingSound
  <1>1. RecInit => RecInv
    BY RecInvHolds
  <1>2. RecInv /\ [RecNext]_recVars => RecInv'
    BY RecStep
  <1>3. RecInv => RecordingSound
    BY RecInvIsEnough
  <1> QED BY <1>1, <1>2, <1>3, PTL DEF RecSpec
=============================================================================
