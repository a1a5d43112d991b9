---------------------- MODULE V2RuntimeProtocolProofs ----------------------
(***************************************************************************)
(* Proofs about the v2 controller, for any set of sources, models and      *)
(* callbacks and any bounds.                                               *)
(***************************************************************************)
EXTENDS V2RuntimeProtocol, TLAPS

(* What the typing proofs need of the constants. *)
LEMMA Bounds == GenMax \in Nat \ {0} /\ SeqMax \in Nat /\ MaxPeers \in Nat
  BY SessionAssumption, AuthorityAssumption

(* Without an owner the authority is in one of the three unowned states. *)
LEMMA UnownedStates ==
    \A n \in Nat : UnownedState(n) \in {"WAITING", "CLAIMABLE", "CONFLICT"}
  BY DEF UnownedState

LEMMA InitTypeOK == Init => TypeOK
<1> SUFFICES ASSUME Init PROVE TypeOK
  OBVIOUS
<1>1. FlagsOK
  BY Zenon DEF Init, FlagsOK, SessionInit, AuthorityInit
<1>2. DataOK
  BY Bounds DEF Init, DataOK, SessionInit, AuthorityInit, MailboxInit, NoSeq, Never
<1> QED BY <1>1, <1>2 DEF TypeOK

(* Flags are only ever set to TRUE or FALSE. *)
LEMMA NextFlagsOK == FlagsOK /\ [Next]_vars => FlagsOK'
<1> SUFFICES ASSUME FlagsOK, [Next]_vars PROVE FlagsOK'
  OBVIOUS
<1> USE DEF sessionVars, authorityVars, mailboxVars, controllerVars, FlagsOK
<1>1. CASE RefreshPoll
  BY <1>1, Zenon DEF RefreshPoll
<1>2. CASE RefreshApply
  BY <1>2, Zenon DEF RefreshApply, ApplyVerified, ApplyUnverified, ObservePeerEdge,
       ObservePeerCount, SuspendProtocol, EnterFatal, AuthorityFatal
<1>3. ASSUME NEW c \in Callbacks, Capture(c) PROVE FlagsOK'
  BY <1>3, Zenon DEF Capture
<1>4. ASSUME NEW c \in Callbacks, Accept(c) PROVE FlagsOK'
  BY <1>4, Zenon DEF Accept, AcceptCommit, AcceptRevoke, AcceptReject, ClaimOwner,
       ContinueOwner, RevokeOnOwnerChange, EnterFatal, AuthorityFatal
<1>5. CASE PrepareWorldRebuild
  BY <1>5, Zenon DEF PrepareWorldRebuild, AuthorityPrepare, SessionPrepare,
       EnterFatal, AuthorityFatal
<1>6. CASE CommitWorldRebuild
  BY <1>6, Zenon DEF CommitWorldRebuild, AuthorityCommit, SessionCommit
<1>7. CASE EndWorldRebuild
  BY <1>7, Zenon DEF EndWorldRebuild, AuthorityEndRebuild, SessionEndRebuild
<1>8. CASE ReserveOutputs
  BY <1>8, Zenon DEF ReserveOutputs, ReserveOutput
<1>9. CASE Close
  BY <1>9, Zenon DEF Close, SuspendProtocol, EnterFatal, AuthorityFatal
<1>10. ASSUME NEW t \in 0..now, Decide(t) PROVE FlagsOK'
  BY <1>10, Zenon DEF Decide
<1>11. CASE Tick
  BY <1>11, Zenon DEF Tick
<1>12. CASE UNCHANGED vars
  BY <1>12, Zenon DEF vars
<1> QED
  BY <1>1, <1>2, <1>3, <1>4, <1>5, <1>6, <1>7, <1>8, <1>9, <1>10, <1>11, <1>12
  DEF Next

(* Reserving a frame only hands out natural sequence numbers of its topics. *)
LEMMA ReserveTypes ==
    ASSUME DataOK, NEW f \in Frames, ReserveOutput(f)
    PROVE  /\ nextSeq' \in [Topics -> 0..(SeqMax + 1)]
           /\ issued' \subseteq Topics \X Nat \X Nat
<1>1. Consumed(f) \subseteq {t \in Topics : nextSeq[t] <= SeqMax}
  <2>1. SUFFICES ASSUME NEW k \in DOMAIN f, \A j \in 1..k : nextSeq[f[j]] <= SeqMax
                 PROVE  f[k] \in Topics /\ nextSeq[f[k]] <= SeqMax
    BY DEF Consumed
  <2>2. f \in Seq(Topics)
    BY SessionAssumption
  <2>3. k \in 1..k
    BY <2>2
  <2> QED BY <2>1, <2>2, <2>3
<1>2. \A t \in Consumed(f) : nextSeq[t] \in Nat /\ nextSeq[t] + 1 \in 0..(SeqMax + 1)
  BY <1>1, SessionAssumption DEF DataOK
<1>3. nextSeq' \in [Topics -> 0..(SeqMax + 1)]
  BY <1>2 DEF DataOK, ReserveOutput
<1>4. worldGen \in Nat
  BY SessionAssumption DEF DataOK
<1>5. {<<t, worldGen, nextSeq[t]>> : t \in Consumed(f)} \subseteq Topics \X Nat \X Nat
  BY <1>1, <1>2, <1>4
<1> QED BY <1>3, <1>5 DEF DataOK, ReserveOutput

LEMMA NextDataOK == DataOK /\ [Next]_vars => DataOK'
<1> SUFFICES ASSUME DataOK, [Next]_vars PROVE DataOK'
  OBVIOUS
<1> USE Bounds, UnownedStates
<1> USE DEF sessionVars, authorityVars, mailboxVars, controllerVars
<1>1. CASE RefreshPoll
  BY <1>1 DEF DataOK, RefreshPoll
<1>2. ASSUME NEW n \in 0..MaxPeers, ApplyVerified(n), refreshing' = FALSE,
             UNCHANGED <<ingress, now, driving>>
      PROVE  DataOK'
  BY <1>2 DEF DataOK, ApplyVerified, ObservePeerEdge, ObservePeerCount, EnterFatal,
       AuthorityFatal, MailboxClear, Disown, ClearOwner, UnownedState,
       CanAdvance, AdvanceCommandGeneration, NoSeq, Never
<1>3. ASSUME NEW n \in 0..MaxPeers, ApplyUnverified(n), refreshing' = FALSE,
             UNCHANGED <<ingress, now, driving>>
      PROVE  DataOK'
  BY <1>3 DEF DataOK, ApplyUnverified, ObservePeerEdge, ObservePeerCount,
       SuspendProtocol, EnterFatal, AuthorityFatal, MailboxClear, Disown,
       ClearOwner, CanAdvance, AdvanceCommandGeneration, NoSeq, Never
<1>4. CASE RefreshApply
  BY <1>2, <1>3, <1>4 DEF RefreshApply
<1>5. ASSUME NEW c \in Callbacks, Capture(c) PROVE DataOK'
  <2>1. PICK cmd \in Arriving :
          ingress' = [ingress EXCEPT ![c] =
                        [life |-> lifecycle, tok |-> token, mb |-> mbGen,
                         cmd |-> cmd, at |-> now]]
    BY <1>5 DEF Capture
  <2>2. cmd \in Command
    BY DEF Arriving, Command, DataOK
  <2>3. ingress' \in [Callbacks -> Ingress \cup {Idle}]
    BY <2>1, <2>2 DEF DataOK, Ingress
  <2> QED BY <1>5, <2>3 DEF Capture, DataOK
<1>6. ASSUME NEW c \in Callbacks, Accept(c) PROVE DataOK'
  <2> DEFINE i == ingress[c]
  <2>1. i \in Ingress
    BY <1>6 DEF Accept, DataOK
  <2>2. i.cmd \in Command /\ i.cmd.src \in Sources /\ i.cmd.seq \in Nat /\ i.at \in Nat
    BY <2>1 DEF Ingress, Command
  <2>3. ingress' \in [Callbacks -> Ingress \cup {Idle}]
    BY <1>6 DEF Accept, DataOK
  <2>4. CASE AcceptCommit(i)
    BY <1>6, <2>2, <2>3, <2>4 DEF Accept, DataOK, AcceptCommit, ClaimOwner,
         ContinueOwner, MailboxAccept
  <2>5. CASE AcceptRevoke(i)
    BY <1>6, <2>3, <2>5 DEF Accept, DataOK, AcceptRevoke, RevokeOnOwnerChange,
         EnterFatal, AuthorityFatal, MailboxClear, Disown, ClearOwner,
         CanAdvance, AdvanceCommandGeneration, NoSeq, Never
  <2>6. CASE AcceptReject(i)
    BY <1>6, <2>3, <2>6 DEF Accept, DataOK, AcceptReject
  <2> QED BY <1>6, <2>4, <2>5, <2>6 DEF Accept
<1>7. CASE PrepareWorldRebuild
  BY <1>7 DEF DataOK, PrepareWorldRebuild, AuthorityPrepare, SessionPrepare,
       EnterFatal, AuthorityFatal, MailboxClear, Disown, ClearOwner,
       CanAdvance, AdvanceCommandGeneration, NoSeq, Never
<1>8. CASE CommitWorldRebuild
  BY <1>8 DEF DataOK, CommitWorldRebuild, AuthorityCommit, SessionCommit,
       MailboxNew, Disown, ClearOwner, NoSeq, Never
<1>9. CASE EndWorldRebuild
  BY <1>9 DEF DataOK, EndWorldRebuild, AuthorityEndRebuild, SessionEndRebuild,
       Disown, ClearOwner, NoSeq
<1>10. CASE ReserveOutputs
  <2>1. PICK f \in Frames : ReserveOutput(f)
    BY <1>10 DEF ReserveOutputs
  <2>2. /\ nextSeq' \in [Topics -> 0..(SeqMax + 1)]
        /\ issued' \subseteq Topics \X Nat \X Nat
    BY <2>1, ReserveTypes
  <2> QED BY <1>10, <2>1, <2>2 DEF ReserveOutputs, ReserveOutput, DataOK
<1>11. CASE Close
  BY <1>11 DEF DataOK, Close, SuspendProtocol, EnterFatal, AuthorityFatal,
       MailboxClear, Disown, ClearOwner, CanAdvance,
       AdvanceCommandGeneration, NoSeq, Never
<1>12. ASSUME NEW t \in 0..now, Decide(t) PROVE DataOK'
  BY <1>12 DEF DataOK, Decide, MailboxDecision, DecisionCommand, RefreshedState
<1>13. CASE Tick
  BY <1>13 DEF DataOK, Tick
<1>14. CASE UNCHANGED vars
  BY <1>14 DEF DataOK, vars
<1> QED
  BY <1>1, <1>4, <1>5, <1>6, <1>7, <1>8, <1>9, <1>10, <1>11, <1>12, <1>13, <1>14
  DEF Next

(* The controller's variables keep their types in every behaviour. *)
THEOREM TypeCorrect == Spec => []TypeOK
<1>1. TypeOK /\ [Next]_vars => TypeOK'
  BY NextFlagsOK, NextDataOK DEF TypeOK
<1> QED BY InitTypeOK, <1>1, PTL DEF Spec

-----------------------------------------------------------------------------
(* The inductive invariant.  The properties the runs check are inductive   *)
(* only together with two more facts: the two prepared flags agree and a   *)
(* prepared rebuild has pushed the command generation past the world's,    *)
(* and every payload a callback holds carries a generation that had been   *)
(* issued when it was captured.                                            *)

RebuildInv ==
    /\ authPrepared <=> sessPrepared
    /\ worldGen <= cmdGen
    /\ sessPrepared => worldGen < cmdGen

IngressInv ==
    \A c \in Callbacks : ingress[c] # Idle =>
        /\ ingress[c].cmd.cg <= ingress[c].cmd.capGen
        /\ ingress[c].cmd.capGen <= cmdGen

AuthorityInv ==
    AuthorityTable /\ MailboxHoldsOwnersCommand /\ NoCommitAcrossRevocation

IInv == TypeOK /\ RebuildInv /\ IngressInv /\ AuthorityInv

(* A step that ends with no owner and an empty mailbox establishes the     *)
(* authority part whatever the state before it.                            *)
LEMMA DisownedInv ==
    ASSUME owner' = NoOwner, latest' = NoCommand, authState' = UnownedState(peerCount')
    PROVE  AuthorityInv'
  BY DEF AuthorityInv, AuthorityTable, MailboxHoldsOwnersCommand, NoCommitAcrossRevocation

(* A step that touches none of the state it speaks about preserves it. *)
LEMMA FramedInv ==
    ASSUME AuthorityInv,
           UNCHANGED <<worldGen, cmdGen, authorityVars, latest, verified, closed, fatal, model>>
    PROVE  AuthorityInv'
  BY DEF AuthorityInv, AuthorityTable, MailboxHoldsOwnersCommand, NoCommitAcrossRevocation,
         authorityVars, UnownedState

(* Generations only grow, so held payloads stay behind. *)
LEMMA HeldPayloads ==
    ASSUME IngressInv, TypeOK, cmdGen' \in {cmdGen, cmdGen + 1}, ingress' = ingress
    PROVE  IngressInv'
<1>1. cmdGen \in Int /\ cmdGen <= cmdGen'
  BY Bounds DEF TypeOK, DataOK
<1>2. SUFFICES ASSUME NEW c \in Callbacks, ingress[c] # Idle
               PROVE  /\ ingress[c].cmd.cg <= ingress[c].cmd.capGen
                      /\ ingress[c].cmd.capGen <= cmdGen'
  BY DEF IngressInv
<1>3. ingress[c].cmd.capGen \in Int
  BY <1>2 DEF TypeOK, DataOK, Ingress, Command
<1>4. cmdGen' \in Int
  BY <1>1
<1> QED BY <1>1, <1>2, <1>3, <1>4 DEF IngressInv

LEMMA InitIInv == Init => IInv
<1> SUFFICES ASSUME Init PROVE IInv
  OBVIOUS
<1>1. TypeOK
  BY InitTypeOK
<1>2. RebuildInv
  BY DEF Init, RebuildInv, SessionInit, AuthorityInit
<1>3. IngressInv
  BY DEF Init, IngressInv
<1>4. AuthorityInv
  BY DEF Init, AuthorityInv, AuthorityTable, MailboxHoldsOwnersCommand,
         NoCommitAcrossRevocation, AuthorityInit, MailboxInit, UnownedState
<1> QED BY <1>1, <1>2, <1>3, <1>4 DEF IInv

(* Applying a transport snapshot. *)
LEMMA RefreshInv ==
    ASSUME IInv, TypeOK', RefreshApply PROVE RebuildInv' /\ IngressInv' /\ AuthorityInv'
<1> USE DEF sessionVars, authorityVars, mailboxVars, controllerVars
<1>1. PICK n \in 0..MaxPeers : ApplyVerified(n) \/ ApplyUnverified(n)
  BY DEF RefreshApply
<1>2. worldGen \in Int /\ cmdGen \in Int
  BY Bounds DEF IInv, TypeOK, DataOK
<1>3. cmdGen' \in {cmdGen, cmdGen + 1} /\ UNCHANGED <<worldGen, sessPrepared, authPrepared>>
  BY <1>1 DEF ApplyVerified, ApplyUnverified, ObservePeerEdge, ObservePeerCount,
       SuspendProtocol, EnterFatal, AuthorityFatal, AdvanceCommandGeneration
<1>4. RebuildInv'
  BY <1>2, <1>3 DEF IInv, RebuildInv
<1>5. IngressInv'
  BY <1>3, HeldPayloads DEF IInv, RefreshApply
<1>6. AuthorityInv'
  <2>1. CASE \E k \in {n} : ObservePeerEdge(k) /\ MailboxClear
    BY <2>1, DisownedInv DEF ObservePeerEdge, MailboxClear, Disown, ClearOwner
  <2>2. CASE SuspendProtocol(n) /\ MailboxClear
    BY <2>2, DisownedInv DEF SuspendProtocol, MailboxClear, Disown, ClearOwner
  <2>3. CASE EnterFatal(0) /\ ~fatal
    BY <2>3, DisownedInv DEF EnterFatal, AuthorityFatal, MailboxClear, Disown, ClearOwner
  <2>4. CASE EnterFatal(0) /\ fatal /\ UNCHANGED <<verified, closed, model>>
    BY <2>4, FramedInv DEF EnterFatal, IInv
  <2>5. CASE /\ ObservePeerCount(n)
             /\ UNCHANGED <<mailboxVars, fatal, closed, model>>
             /\ verified' = TRUE \/ ~verified
    <3>1. CASE n # 1
      <4>1. owner = NoOwner
        BY <2>5, <3>1 DEF ObservePeerCount, PeerEdge, IInv, AuthorityInv, AuthorityTable
      <4>2. latest = NoCommand
        BY <4>1 DEF IInv, AuthorityInv, MailboxHoldsOwnersCommand
      <4> QED BY <2>5, <3>1, <4>2, DisownedInv DEF ObservePeerCount, Disown, ClearOwner
    <3>2. CASE n = 1 /\ owner = NoOwner
      <4>1. latest = NoCommand
        BY <3>2 DEF IInv, AuthorityInv, MailboxHoldsOwnersCommand
      <4> QED BY <2>5, <3>2, <4>1, DisownedInv DEF ObservePeerCount, UnownedState
    <3>3. CASE n = 1 /\ owner # NoOwner
      <4>1. peerCount = 1 /\ authState = "ACTIVE" /\ verified
        BY <3>3 DEF IInv, AuthorityInv, AuthorityTable
      <4>2. UNCHANGED <<peerCount, authState, owner, lastSeq, authPrepared, worldGen, cmdGen,
                        latest, closed, fatal, model>>
        BY <2>5, <3>3, <4>1 DEF ObservePeerCount
      <4>3. verified'
        BY <2>5, <4>1
      <4> QED
        BY <4>1, <4>2, <4>3, <3>3 DEF IInv, AuthorityInv, AuthorityTable,
             MailboxHoldsOwnersCommand, NoCommitAcrossRevocation
    <3> QED BY <3>1, <3>2, <3>3
  <2> QED
    BY <1>1, <2>1, <2>2, <2>3, <2>4, <2>5 DEF ApplyVerified, ApplyUnverified
<1> QED BY <1>4, <1>5, <1>6

(* A callback takes its tokens and its payload. *)
LEMMA CaptureInv ==
    ASSUME IInv, TypeOK', NEW c \in Callbacks, Capture(c)
    PROVE  RebuildInv' /\ IngressInv' /\ AuthorityInv'
<1> USE DEF sessionVars, authorityVars, mailboxVars, controllerVars
<1>1. PICK cmd \in Arriving :
        ingress' = [ingress EXCEPT ![c] =
                      [life |-> lifecycle, tok |-> token, mb |-> mbGen,
                       cmd |-> cmd, at |-> now]]
  BY DEF Capture
<1>2. cmd.cg <= cmd.capGen /\ cmd.capGen <= cmdGen
  <2>1. cmd.cg \in 1..cmdGen /\ cmd.capGen = cmdGen /\ cmdGen \in Int
    BY Bounds DEF Arriving, IInv, TypeOK, DataOK
  <2> QED BY <2>1
<1>3. cmdGen' = cmdGen
  BY DEF Capture
<1>4. IngressInv'
  <2>1. SUFFICES ASSUME NEW d \in Callbacks, ingress'[d] # Idle
                 PROVE  /\ ingress'[d].cmd.cg <= ingress'[d].cmd.capGen
                        /\ ingress'[d].cmd.capGen <= cmdGen
    BY <1>3 DEF IngressInv
  <2>2. ingress \in [Callbacks -> Ingress \cup {Idle}]
    BY DEF IInv, TypeOK, DataOK
  <2>3. CASE d = c
    BY <1>1, <1>2, <2>2, <2>3
  <2>4. CASE d # c
    <3>1. ingress'[d] = ingress[d]
      BY <1>1, <2>2, <2>4
    <3> QED BY <2>1, <3>1 DEF IInv, IngressInv
  <2> QED BY <2>3, <2>4
<1>5. RebuildInv'
  BY DEF Capture, IInv, RebuildInv
<1>6. AuthorityInv'
  BY FramedInv DEF Capture, IInv
<1> QED BY <1>4, <1>5, <1>6

(* A callback comes back to commit. *)
LEMMA AcceptInv ==
    ASSUME IInv, TypeOK', NEW c \in Callbacks, Accept(c)
    PROVE  RebuildInv' /\ IngressInv' /\ AuthorityInv'
<1> USE DEF sessionVars, authorityVars, mailboxVars, controllerVars
<1> DEFINE i == ingress[c]
<1>1. i # Idle /\ i \in Ingress /\ i.cmd \in Command
  BY DEF Accept, IInv, TypeOK, DataOK, Ingress
<1>2. worldGen \in Int /\ cmdGen \in Int
  BY Bounds DEF IInv, TypeOK, DataOK
<1>3. cmdGen' \in {cmdGen, cmdGen + 1} /\ UNCHANGED <<worldGen, sessPrepared, authPrepared>>
  BY DEF Accept, AcceptCommit, AcceptRevoke, AcceptReject, ClaimOwner, ContinueOwner,
       RevokeOnOwnerChange, EnterFatal, AuthorityFatal, AdvanceCommandGeneration
<1>4. RebuildInv'
  BY <1>2, <1>3 DEF IInv, RebuildInv
<1>5. IngressInv'
  <2>1. SUFFICES ASSUME NEW d \in Callbacks, ingress'[d] # Idle
                 PROVE  /\ ingress'[d].cmd.cg <= ingress'[d].cmd.capGen
                        /\ ingress'[d].cmd.capGen <= cmdGen'
    BY DEF IngressInv
  <2>2. ingress \in [Callbacks -> Ingress \cup {Idle}]
    BY DEF IInv, TypeOK, DataOK
  <2>3. ingress'[d] = ingress[d] /\ ingress[d] # Idle
    BY <2>1, <2>2 DEF Accept
  <2>4. ingress[d].cmd.capGen \in Int
    BY <2>2, <2>3 DEF Ingress, Command
  <2>5. ingress[d].cmd.cg <= ingress[d].cmd.capGen /\ ingress[d].cmd.capGen <= cmdGen
    BY <2>3 DEF IInv, IngressInv
  <2>6. cmdGen <= cmdGen' /\ cmdGen' \in Int
    BY <1>2, <1>3
  <2> QED BY <1>2, <2>3, <2>4, <2>5, <2>6
<1>6. AuthorityInv'
  <2>1. CASE AcceptCommit(i)
    <3>1. /\ i.cmd.wg = worldGen /\ i.cmd.cg = cmdGen /\ i.cmd.model = model
          /\ ~authPrepared /\ peerCount = 1 /\ ~closed /\ ~fatal /\ verified
      BY <2>1 DEF AcceptCommit, Admissible, Current
    <3>2. i.cmd.capGen = cmdGen
      <4>1. i.cmd.cg <= i.cmd.capGen /\ i.cmd.capGen <= cmdGen
        BY <1>1 DEF IInv, IngressInv
      <4>2. i.cmd.capGen \in Int
        BY <1>1 DEF Command
      <4> QED BY <1>2, <3>1, <4>1, <4>2
    <3>3. i.cmd # NoCommand /\ i.cmd.src # NoOwner
      BY <1>1, NoCommandAssumption, AuthorityAssumption DEF Command
    <3>4. /\ latest' = i.cmd /\ owner' = i.cmd.src /\ lastSeq' = i.cmd.seq
          /\ authState' = "ACTIVE"
          /\ UNCHANGED <<worldGen, cmdGen, peerCount, authPrepared, verified, closed,
                         fatal, model>>
      BY <2>1, <3>3 DEF AcceptCommit, ClaimOwner, ContinueOwner, MailboxAccept, IInv,
           AuthorityInv, AuthorityTable
    <3> QED
      BY <3>1, <3>2, <3>3, <3>4 DEF AuthorityInv, AuthorityTable,
           MailboxHoldsOwnersCommand, NoCommitAcrossRevocation
  <2>2. CASE AcceptRevoke(i)
    BY <2>2, DisownedInv, FramedInv DEF IInv, AcceptRevoke, Current, RevokeOnOwnerChange,
         EnterFatal, AuthorityFatal, MailboxClear, Disown, ClearOwner
  <2>3. CASE AcceptReject(i)
    BY <2>3, FramedInv DEF IInv, AcceptReject
  <2> QED BY <2>1, <2>2, <2>3 DEF Accept
<1> QED BY <1>4, <1>5, <1>6

(* The rebuild transaction and the end of the session. *)
LEMMA LifecycleInv ==
    ASSUME IInv, TypeOK', PrepareWorldRebuild \/ CommitWorldRebuild \/ EndWorldRebuild \/ Close
    PROVE  RebuildInv' /\ IngressInv' /\ AuthorityInv'
<1> USE DEF sessionVars, authorityVars, mailboxVars, controllerVars
<1>1. worldGen \in Int /\ cmdGen \in Int
  BY Bounds DEF IInv, TypeOK, DataOK
<1>2. cmdGen' \in {cmdGen, cmdGen + 1} /\ ingress' = ingress
  BY DEF PrepareWorldRebuild, CommitWorldRebuild, EndWorldRebuild, Close, AuthorityPrepare,
       SessionPrepare, AuthorityCommit, SessionCommit, AuthorityEndRebuild,
       SessionEndRebuild, SuspendProtocol, EnterFatal, AuthorityFatal,
       AdvanceCommandGeneration
<1>3. IngressInv'
  BY <1>2, HeldPayloads DEF IInv
<1>4. RebuildInv'
  BY <1>1 DEF IInv, RebuildInv, PrepareWorldRebuild, CommitWorldRebuild, EndWorldRebuild,
       Close, AuthorityPrepare, SessionPrepare, AuthorityCommit, SessionCommit,
       AuthorityEndRebuild, SessionEndRebuild, SuspendProtocol, EnterFatal,
       AuthorityFatal, AdvanceCommandGeneration
<1>5. AuthorityInv'
  <2>1. CASE PrepareWorldRebuild
    BY <2>1, DisownedInv, FramedInv DEF IInv, PrepareWorldRebuild, AuthorityPrepare,
         EnterFatal, AuthorityFatal, MailboxClear, Disown, ClearOwner
  <2>2. CASE CommitWorldRebuild \/ EndWorldRebuild
    <3>1. owner = NoOwner
      BY <2>2 DEF IInv, RebuildInv, AuthorityInv, AuthorityTable, CommitWorldRebuild,
           EndWorldRebuild, AuthorityCommit, AuthorityEndRebuild, SessionCommit,
           SessionEndRebuild
    <3>2. latest' = NoCommand
      BY <2>2, <3>1 DEF IInv, AuthorityInv, MailboxHoldsOwnersCommand,
           CommitWorldRebuild, EndWorldRebuild, MailboxNew
    <3> QED
      BY <2>2, <3>2, DisownedInv DEF CommitWorldRebuild, EndWorldRebuild,
           AuthorityCommit, AuthorityEndRebuild, Disown, ClearOwner
  <2>3. CASE Close
    <3>1. CASE SuspendProtocol(0) /\ MailboxClear
      BY <3>1, DisownedInv DEF SuspendProtocol, MailboxClear, Disown, ClearOwner
    <3>2. CASE EnterFatal(1) /\ ~fatal
      BY <3>2, DisownedInv DEF EnterFatal, AuthorityFatal, MailboxClear, Disown, ClearOwner
    <3>3. CASE EnterFatal(1) /\ fatal
      <4>1. owner = NoOwner
        BY <3>3 DEF IInv, AuthorityInv, AuthorityTable
      <4>2. latest = NoCommand /\ authState = UnownedState(peerCount)
        BY <4>1 DEF IInv, AuthorityInv, AuthorityTable, MailboxHoldsOwnersCommand
      <4> QED BY <3>3, <4>1, <4>2, DisownedInv DEF EnterFatal
    <3> QED BY <2>3, <3>1, <3>2, <3>3 DEF Close
  <2> QED BY <2>1, <2>2, <2>3
<1> QED BY <1>3, <1>4, <1>5

LEMMA NextIInv == IInv /\ [Next]_vars => IInv'
<1> SUFFICES ASSUME IInv, [Next]_vars PROVE IInv'
  OBVIOUS
<1>1. TypeOK'
  BY NextFlagsOK, NextDataOK DEF IInv, TypeOK
<1>2. SUFFICES RebuildInv' /\ IngressInv' /\ AuthorityInv'
  BY <1>1 DEF IInv
<1> USE DEF sessionVars, authorityVars, mailboxVars, controllerVars
<1>3. ASSUME UNCHANGED <<worldGen, cmdGen, sessPrepared, authorityVars, latest, verified,
                         closed, fatal, model, ingress>>
      PROVE  RebuildInv' /\ IngressInv' /\ AuthorityInv'
  BY <1>3, FramedInv DEF IInv, RebuildInv, IngressInv
<1>4. CASE RefreshPoll
  BY <1>3, <1>4 DEF RefreshPoll
<1>5. CASE RefreshApply
  BY <1>1, <1>5, RefreshInv
<1>6. ASSUME NEW c \in Callbacks, Capture(c) PROVE RebuildInv' /\ IngressInv' /\ AuthorityInv'
  BY <1>1, <1>6, CaptureInv
<1>7. ASSUME NEW c \in Callbacks, Accept(c) PROVE RebuildInv' /\ IngressInv' /\ AuthorityInv'
  BY <1>1, <1>7, AcceptInv
<1>8. CASE PrepareWorldRebuild \/ CommitWorldRebuild \/ EndWorldRebuild \/ Close
  BY <1>1, <1>8, LifecycleInv
<1>9. CASE ReserveOutputs
  BY <1>3, <1>9 DEF ReserveOutputs, ReserveOutput
<1>10. ASSUME NEW t \in 0..now, Decide(t) PROVE RebuildInv' /\ IngressInv' /\ AuthorityInv'
  BY <1>3, <1>10 DEF Decide, MailboxDecision
<1>11. CASE Tick
  BY <1>3, <1>11 DEF Tick
<1>12. CASE UNCHANGED vars
  BY <1>3, <1>12 DEF vars
<1> QED
  BY <1>4, <1>5, <1>6, <1>7, <1>8, <1>9, <1>10, <1>11, <1>12 DEF Next

(* The inductive invariant holds in every behaviour. *)
THEOREM InductiveInvariant == Spec => []IInv
  BY InitIInv, NextIInv, PTL DEF Spec

(* The four-state table of the command authority holds for any number of   *)
(* sources, callbacks and rebuilds.                                        *)
THEOREM AuthorityTableHolds == Spec => []AuthorityTable
<1>1. IInv => AuthorityTable
  BY DEF IInv, AuthorityInv
<1> QED BY InductiveInvariant, <1>1, PTL

(* The mailbox only ever holds the current owner's last command. *)
THEOREM MailboxCorrect == Spec => []MailboxHoldsOwnersCommand
<1>1. IInv => MailboxHoldsOwnersCommand
  BY DEF IInv, AuthorityInv
<1> QED BY InductiveInvariant, <1>1, PTL

(* No callback commits across a revocation. *)
THEOREM NoLateCommit == Spec => []NoCommitAcrossRevocation
<1>1. IInv => NoCommitAcrossRevocation
  BY DEF IInv, AuthorityInv
<1> QED BY InductiveInvariant, <1>1, PTL

(* A prepared rebuild can always be committed without overflow. *)
THEOREM CommitAlwaysPossible == Spec => []CommitNeverExhausted
<1>1. IInv => CommitNeverExhausted
  BY DEF IInv, RebuildInv, CommitNeverExhausted
<1> QED BY InductiveInvariant, <1>1, PTL

-----------------------------------------------------------------------------
(* Steps that leave the executable command and its generation alone are    *)
(* stutters of the abstract specification.                                 *)
LEMMA StutterRefines ==
    ASSUME UNCHANGED <<cmdGen, owner, latest, closed, fatal>>
    PROVE  [Safety!Next]_<<cmdGen, owner, IF latest = NoCommand THEN 0 ELSE latest.cg,
                           closed \/ fatal>>
  OBVIOUS

(* Every step of the controller is a grant, a revocation, the end, or a    *)
(* stutter of CommandSafety.                                               *)
LEMMA StepRefines ==
    IInv /\ [Next]_vars =>
      [Safety!Next]_<<cmdGen, owner, IF latest = NoCommand THEN 0 ELSE latest.cg,
                      closed \/ fatal>>
<1> SUFFICES ASSUME IInv, [Next]_vars
             PROVE  [Safety!Next]_<<cmdGen, owner,
                       IF latest = NoCommand THEN 0 ELSE latest.cg, closed \/ fatal>>
  OBVIOUS
<1> USE DEF sessionVars, authorityVars, mailboxVars, controllerVars
<1>0. cmdGen \in Nat
  BY Bounds DEF IInv, TypeOK, DataOK
<1>1. ASSUME cmdGen' = cmdGen + 1, owner' = NoOwner, latest' = NoCommand,
             UNCHANGED <<closed, fatal>>
      PROVE  Safety!Revoke
  BY <1>1 DEF Safety!Revoke
<1>2. ASSUME cmdGen' \in {cmdGen, cmdGen + 1}, owner' = NoOwner, latest' = NoCommand,
             closed' \/ fatal'
      PROVE  Safety!End
  BY <1>2 DEF Safety!End
<1>3. ASSUME EnterFatal(0) \/ EnterFatal(1), ~fatal
      PROVE  Safety!End
  BY <1>2, <1>3 DEF EnterFatal, AuthorityFatal, MailboxClear, Disown, ClearOwner
<1>4. ASSUME fatal PROVE owner = NoOwner /\ latest = NoCommand
  BY <1>4 DEF IInv, AuthorityInv, AuthorityTable, MailboxHoldsOwnersCommand
<1>5. ASSUME NEW n \in 0..MaxPeers, ObservePeerEdge(n) \/ SuspendProtocol(n), MailboxClear,
             UNCHANGED <<closed, fatal>>
      PROVE  Safety!Revoke
  BY <1>1, <1>5 DEF ObservePeerEdge, SuspendProtocol, MailboxClear, Disown, ClearOwner,
       AdvanceCommandGeneration
<1>6. CASE RefreshApply
  <2>1. PICK n \in 0..MaxPeers : ApplyVerified(n) \/ ApplyUnverified(n)
    BY <1>6 DEF RefreshApply
  <2>2. ASSUME ObservePeerCount(n), UNCHANGED <<mailboxVars, fatal, closed>>
        PROVE  UNCHANGED <<cmdGen, owner, latest, closed, fatal>>
    <3>1. n # 1 => owner = NoOwner
      BY <2>2 DEF ObservePeerCount, PeerEdge, IInv, AuthorityInv, AuthorityTable
    <3> QED BY <2>2, <3>1 DEF ObservePeerCount, Disown, ClearOwner
  <2>3. ASSUME EnterFatal(0), fatal, UNCHANGED closed
        PROVE  cmdGen' = cmdGen /\ owner' = owner /\ latest' = latest /\ fatal'
    BY <2>3 DEF EnterFatal
  <2>4. CASE EnterFatal(0) /\ fatal /\ UNCHANGED closed
    BY <1>2, <1>4, <2>3, <2>4 DEF Safety!Next
  <2>5. CASE EnterFatal(0) /\ ~fatal
    BY <1>3, <2>5 DEF Safety!Next
  <2>6. CASE (ObservePeerEdge(n) \/ SuspendProtocol(n)) /\ MailboxClear
             /\ UNCHANGED <<closed, fatal>>
    BY <1>5, <2>6 DEF Safety!Next
  <2>7. CASE ObservePeerCount(n) /\ UNCHANGED <<mailboxVars, fatal, closed>>
    BY <2>2, <2>7, StutterRefines
  <2> QED
    BY <2>1, <2>4, <2>5, <2>6, <2>7 DEF ApplyVerified, ApplyUnverified
<1>7. ASSUME NEW c \in Callbacks, Accept(c)
      PROVE  [Safety!Next]_<<cmdGen, owner, IF latest = NoCommand THEN 0 ELSE latest.cg,
                             closed \/ fatal>>
  <2> DEFINE i == ingress[c]
  <2>1. i \in Ingress /\ i.cmd \in Command
    BY <1>7 DEF Accept, IInv, TypeOK, DataOK, Ingress
  <2>2. CASE AcceptCommit(i)
    <3>1. i.cmd # NoCommand /\ i.cmd.src # NoOwner
      BY <2>1, NoCommandAssumption, AuthorityAssumption DEF Command
    <3>2. /\ ~closed /\ ~fatal /\ i.cmd.cg = cmdGen
          /\ latest' = i.cmd /\ owner' = i.cmd.src
          /\ owner = NoOwner \/ owner' = owner
          /\ UNCHANGED <<cmdGen, closed, fatal>>
      BY <2>2 DEF AcceptCommit, Current, Admissible, ClaimOwner, ContinueOwner, MailboxAccept
    <3>3. Safety!Grant
      BY <3>1, <3>2 DEF Safety!Grant
    <3> QED BY <3>3 DEF Safety!Next
  <2>3. CASE AcceptRevoke(i)
    <3>1. ~fatal
      BY <2>3 DEF AcceptRevoke, Current
    <3>2. CASE EnterFatal(0)
      BY <1>3, <3>1, <3>2 DEF Safety!Next
    <3>3. CASE RevokeOnOwnerChange(i.cmd) /\ MailboxClear /\ UNCHANGED controllerVars
      BY <1>1, <3>3 DEF RevokeOnOwnerChange, MailboxClear, Disown, ClearOwner,
           AdvanceCommandGeneration, Safety!Next
    <3> QED BY <2>3, <3>2, <3>3 DEF AcceptRevoke
  <2>4. CASE AcceptReject(i)
    BY <2>4, StutterRefines DEF AcceptReject
  <2> QED BY <1>7, <2>2, <2>3, <2>4 DEF Accept
<1>8. CASE PrepareWorldRebuild
  <2>1. CASE AuthorityPrepare /\ MailboxClear /\ UNCHANGED <<closed, fatal>>
    BY <1>1, <2>1 DEF AuthorityPrepare, SessionPrepare, MailboxClear, Disown, ClearOwner,
         AdvanceCommandGeneration, Safety!Next
  <2>2. CASE UNCHANGED <<sessionVars, authorityVars, mailboxVars, fatal, closed>>
    BY <2>2, StutterRefines
  <2>3. CASE EnterFatal(1) /\ ~fatal
    BY <1>3, <2>3 DEF Safety!Next
  <2>4. CASE EnterFatal(1) /\ fatal
    BY <1>2, <1>4, <2>4 DEF EnterFatal, Safety!Next
  <2> QED BY <1>8, <2>1, <2>2, <2>3, <2>4 DEF PrepareWorldRebuild
<1>9. CASE CommitWorldRebuild \/ EndWorldRebuild
  <2>1. owner = NoOwner /\ latest = NoCommand
    BY <1>9 DEF IInv, RebuildInv, AuthorityInv, AuthorityTable, MailboxHoldsOwnersCommand,
         CommitWorldRebuild, EndWorldRebuild, AuthorityCommit, AuthorityEndRebuild,
         SessionCommit, SessionEndRebuild
  <2> QED
    BY <1>9, <2>1, StutterRefines DEF CommitWorldRebuild, EndWorldRebuild, AuthorityCommit,
         AuthorityEndRebuild, SessionCommit, SessionEndRebuild, MailboxNew, Disown, ClearOwner
<1>10. CASE Close
  <2>1. CASE SuspendProtocol(0) /\ MailboxClear
    BY <1>2, <1>10, <2>1 DEF Close, SuspendProtocol, MailboxClear, Disown, ClearOwner,
         AdvanceCommandGeneration, Safety!Next
  <2>2. CASE EnterFatal(1) /\ ~fatal
    BY <1>3, <2>2 DEF Safety!Next
  <2>3. CASE EnterFatal(1) /\ fatal
    BY <1>2, <1>4, <2>3 DEF EnterFatal, Safety!Next
  <2> QED BY <1>10, <2>1, <2>2, <2>3 DEF Close
<1>11. CASE RefreshPoll
  BY <1>11, StutterRefines DEF RefreshPoll
<1>12. ASSUME NEW c \in Callbacks, Capture(c)
       PROVE  UNCHANGED <<cmdGen, owner, latest, closed, fatal>>
  BY <1>12 DEF Capture
<1>13. CASE ReserveOutputs
  BY <1>13, StutterRefines DEF ReserveOutputs, ReserveOutput
<1>14. ASSUME NEW t \in 0..now, Decide(t)
       PROVE  UNCHANGED <<cmdGen, owner, latest, closed, fatal>>
  BY <1>14 DEF Decide, MailboxDecision
<1>15. CASE Tick
  BY <1>15, StutterRefines DEF Tick
<1>16. CASE UNCHANGED vars
  BY <1>16, StutterRefines DEF vars
<1> QED
  BY <1>6, <1>7, <1>8, <1>9, <1>10, <1>11, <1>12, <1>13, <1>14, <1>15, <1>16,
     StutterRefines DEF Next

(* The v2 controller implements the abstract command promise. *)
THEOREM Refinement == Spec => ImplementsCommandSafety
<1>1. Init => Safety!Init
  BY DEF Init, Safety!Init, SessionInit, AuthorityInit, MailboxInit
<1> QED
  BY <1>1, InductiveInvariant, StepRefines, PTL
  DEF Spec, ImplementsCommandSafety, Safety!Spec

-----------------------------------------------------------------------------
(* Output identities: what has been handed out lies behind the counters.   *)
IdentityInv ==
    \A x \in issued : /\ x[2] <= worldGen
                      /\ x[2] = worldGen => x[3] < nextSeq[x[1]]

LEMMA NextIdentityInv == TypeOK /\ IdentityInv /\ [Next]_vars => IdentityInv'
<1> SUFFICES ASSUME TypeOK, IdentityInv, [Next]_vars PROVE IdentityInv'
  OBVIOUS
<1> USE DEF sessionVars, authorityVars, mailboxVars, controllerVars
<1>1. /\ worldGen \in Nat
      /\ nextSeq \in [Topics -> Nat]
      /\ \A x \in issued : x[1] \in Topics /\ x[2] \in Nat /\ x[3] \in Nat
  BY Bounds DEF TypeOK, DataOK
<1>2. CASE CommitWorldRebuild
  <2>1. worldGen' = worldGen + 1 /\ issued' = issued
    BY <1>2 DEF CommitWorldRebuild, AuthorityCommit, SessionCommit
  <2> QED BY <1>1, <2>1 DEF IdentityInv
<1>3. CASE ReserveOutputs
  <2>1. PICK f \in Frames : ReserveOutput(f)
    BY <1>3 DEF ReserveOutputs
  <2>2. SUFFICES ASSUME NEW x \in issued'
                 PROVE  x[2] <= worldGen /\ (x[2] = worldGen => x[3] < nextSeq'[x[1]])
    BY <2>1 DEF ReserveOutput, IdentityInv
  <2>3. \A t \in Topics : nextSeq'[t] >= nextSeq[t]
    BY <1>1, <2>1 DEF ReserveOutput
  <2>4. CASE x \in issued
    <3>1. x[1] \in Topics /\ nextSeq'[x[1]] \in Nat
      BY <1>1, <2>1, <2>4 DEF ReserveOutput
    <3> QED BY <1>1, <2>3, <2>4, <3>1 DEF IdentityInv
  <2>5. CASE x \notin issued
    <3>1. PICK t \in Consumed(f) : x = <<t, worldGen, nextSeq[t]>>
      BY <2>1, <2>2, <2>5 DEF ReserveOutput
    <3>2. t \in Topics
      BY <3>1, SessionAssumption DEF Consumed
    <3>3. nextSeq'[t] = nextSeq[t] + 1
      BY <2>1, <3>1, <3>2 DEF ReserveOutput
    <3> QED BY <1>1, <3>1, <3>2, <3>3
  <2> QED BY <2>4, <2>5
<1>4. CASE UNCHANGED <<worldGen, nextSeq, issued>>
  BY <1>4 DEF IdentityInv
<1>5. CASE RefreshApply
  BY <1>4, <1>5 DEF RefreshApply, ApplyVerified, ApplyUnverified, ObservePeerEdge,
       ObservePeerCount, SuspendProtocol, EnterFatal, AuthorityFatal
<1>6. ASSUME NEW c \in Callbacks, Accept(c) PROVE IdentityInv'
  BY <1>4, <1>6 DEF Accept, AcceptCommit, AcceptRevoke, AcceptReject, ClaimOwner,
       ContinueOwner, RevokeOnOwnerChange, EnterFatal, AuthorityFatal
<1>7. CASE PrepareWorldRebuild \/ EndWorldRebuild \/ Close
  BY <1>4, <1>7 DEF PrepareWorldRebuild, EndWorldRebuild, Close, AuthorityPrepare,
       SessionPrepare, AuthorityEndRebuild, SessionEndRebuild, SuspendProtocol,
       EnterFatal, AuthorityFatal
<1>8. CASE \/ RefreshPoll \/ Tick \/ UNCHANGED vars
           \/ \E c \in Callbacks : Capture(c)
           \/ \E t \in 0..now : Decide(t)
  BY <1>4, <1>8 DEF RefreshPoll, Tick, vars, Capture, Decide
<1> QED
  BY <1>2, <1>3, <1>5, <1>6, <1>7, <1>8 DEF Next

(* No output identity is handed out twice, over any number of committed    *)
(* and aborted rebuilds.                                                   *)
THEOREM IdentitiesUnique == Spec => []NoIdentityReuse
<1>1. Init => IdentityInv
  BY DEF Init, SessionInit, IdentityInv
<1>2. TypeOK /\ IdentityInv => NoIdentityReuse
  <2>1. SUFFICES ASSUME TypeOK, IdentityInv, NEW t \in Topics,
                        <<t, worldGen, nextSeq[t]>> \in issued
                 PROVE  FALSE
    BY DEF NoIdentityReuse
  <2>2. nextSeq[t] \in Int
    <3>1. nextSeq \in [Topics -> 0..(SeqMax + 1)]
      BY <2>1 DEF TypeOK, DataOK
    <3> QED BY <2>1, <3>1, Bounds
  <2>3. nextSeq[t] < nextSeq[t]
    BY <2>1 DEF IdentityInv
  <2> QED BY <2>2, <2>3
<1> QED BY <1>1, <1>2, TypeCorrect, NextIdentityInv, PTL DEF Spec

(* Losing the owner and starting a new generation are one step. *)
THEOREM RevocationsAdvance == Spec => RevocationAdvancesGeneration
<1>1. IInv /\ [Next]_vars =>
        [owner # NoOwner /\ owner' # owner => cmdGen' = cmdGen + 1 \/ fatal']_vars
  <2> SUFFICES ASSUME IInv, Next, owner # NoOwner, owner' # owner
               PROVE  cmdGen' = cmdGen + 1 \/ fatal'
    BY DEF vars
  <2> USE DEF sessionVars, authorityVars, mailboxVars, controllerVars
  <2>1. peerCount = 1 /\ ~sessPrepared
    BY DEF IInv, RebuildInv, AuthorityInv, AuthorityTable
  <2>2. CASE RefreshApply
    BY <2>1, <2>2 DEF RefreshApply, ApplyVerified, ApplyUnverified, ObservePeerEdge,
         ObservePeerCount, PeerEdge, SuspendProtocol, EnterFatal, AdvanceCommandGeneration
  <2>3. ASSUME NEW c \in Callbacks, Accept(c)
        PROVE  cmdGen' = cmdGen + 1 \/ fatal'
    BY <2>3 DEF Accept, AcceptCommit, AcceptRevoke, AcceptReject, ClaimOwner,
         ContinueOwner, RevokeOnOwnerChange, EnterFatal, AdvanceCommandGeneration
  <2>4. CASE PrepareWorldRebuild \/ CommitWorldRebuild \/ EndWorldRebuild \/ Close
    BY <2>1, <2>4 DEF PrepareWorldRebuild, CommitWorldRebuild, EndWorldRebuild, Close,
         AuthorityPrepare, SessionPrepare, AuthorityCommit, SessionCommit,
         AuthorityEndRebuild, SessionEndRebuild, SuspendProtocol, EnterFatal,
         AdvanceCommandGeneration
  <2>5. CASE \/ RefreshPoll \/ Tick \/ ReserveOutputs
             \/ \E c \in Callbacks : Capture(c)
             \/ \E t \in 0..now : Decide(t)
    BY <2>5 DEF RefreshPoll, Tick, ReserveOutputs, Capture, Decide
  <2> QED BY <2>2, <2>3, <2>4, <2>5 DEF Next
<1> QED BY <1>1, InductiveInvariant, PTL DEF Spec, RevocationAdvancesGeneration

(* Within one generation executed sequence numbers strictly increase. *)
THEOREM SequencesAdvance == Spec => SequenceAdvances
<1>1. IInv /\ [Next]_vars =>
        [latest # NoCommand /\ latest' # NoCommand /\ latest' # latest =>
           latest'.seq > latest.seq /\ latest'.src = latest.src]_vars
  <2> SUFFICES ASSUME IInv, Next, latest # NoCommand, latest' # NoCommand, latest' # latest
               PROVE  latest'.seq > latest.seq /\ latest'.src = latest.src
    BY DEF vars
  <2> USE DEF sessionVars, authorityVars, mailboxVars, controllerVars
  <2>1. owner # NoOwner /\ latest.src = owner /\ latest.seq = lastSeq
    BY DEF IInv, AuthorityInv, MailboxHoldsOwnersCommand
  <2>2. ASSUME NEW c \in Callbacks, Accept(c)
        PROVE  latest'.seq > latest.seq /\ latest'.src = latest.src
    <3>1. AcceptCommit(ingress[c])
      BY <2>2 DEF Accept, AcceptRevoke, AcceptReject, EnterFatal, MailboxClear
    <3> QED BY <2>1, <3>1 DEF AcceptCommit, ClaimOwner, ContinueOwner, MailboxAccept
  <2>3. CASE RefreshApply
    BY <2>3 DEF RefreshApply, ApplyVerified, ApplyUnverified, EnterFatal, MailboxClear
  <2>4. CASE PrepareWorldRebuild \/ CommitWorldRebuild \/ EndWorldRebuild \/ Close
    BY <2>4 DEF PrepareWorldRebuild, CommitWorldRebuild, EndWorldRebuild, Close,
         EnterFatal, MailboxClear, MailboxNew
  <2>5. CASE \/ RefreshPoll \/ Tick \/ ReserveOutputs
             \/ \E c \in Callbacks : Capture(c)
             \/ \E t \in 0..now : Decide(t)
    BY <2>5 DEF RefreshPoll, Tick, ReserveOutputs, Capture, Decide, MailboxDecision
  <2> QED BY <2>2, <2>3, <2>4, <2>5 DEF Next
<1> QED BY <1>1, InductiveInvariant, PTL DEF Spec, SequenceAdvances

(* A stored command always has an arrival time. *)
ArrivalInv == latest # NoCommand => lastValid # Never

LEMMA NextArrivalInv == TypeOK /\ ArrivalInv /\ [Next]_vars => ArrivalInv'
<1> SUFFICES ASSUME TypeOK, ArrivalInv, [Next]_vars PROVE ArrivalInv'
  OBVIOUS
<1> USE DEF sessionVars, authorityVars, mailboxVars, controllerVars
<1>1. CASE UNCHANGED <<latest, lastValid>>
  BY <1>1 DEF ArrivalInv
<1>2. CASE latest' = NoCommand
  BY <1>2 DEF ArrivalInv
<1>3. ASSUME NEW c \in Callbacks, Accept(c) PROVE ArrivalInv'
  <2>1. CASE AcceptCommit(ingress[c])
    <3>1. ingress[c].at \in Nat
      BY <1>3 DEF Accept, TypeOK, DataOK, Ingress
    <3>2. lastValid' = ingress[c].at
      BY <2>1 DEF AcceptCommit, MailboxAccept
    <3> QED BY <3>1, <3>2 DEF ArrivalInv, Never
  <2>2. CASE AcceptRevoke(ingress[c])
    BY <1>1, <1>2, <2>2 DEF AcceptRevoke, EnterFatal, MailboxClear
  <2>3. CASE AcceptReject(ingress[c])
    BY <1>1, <2>3 DEF AcceptReject
  <2> QED BY <1>3, <2>1, <2>2, <2>3 DEF Accept
<1>4. CASE RefreshApply
  BY <1>1, <1>2, <1>4 DEF RefreshApply, ApplyVerified, ApplyUnverified, EnterFatal,
       MailboxClear
<1>5. CASE PrepareWorldRebuild \/ CommitWorldRebuild \/ EndWorldRebuild \/ Close
  BY <1>1, <1>2, <1>5 DEF PrepareWorldRebuild, CommitWorldRebuild, EndWorldRebuild, Close,
       EnterFatal, MailboxClear, MailboxNew
<1>6. CASE \/ RefreshPoll \/ Tick \/ ReserveOutputs \/ UNCHANGED vars
           \/ \E c \in Callbacks : Capture(c)
           \/ \E t \in 0..now : Decide(t)
  BY <1>1, <1>6 DEF RefreshPoll, Tick, ReserveOutputs, Capture, Decide, MailboxDecision, vars
<1> QED BY <1>3, <1>4, <1>5, <1>6 DEF Next

(* What the wheels start to execute is fresh and from the live generation. *)
THEOREM WheelsSafe == Spec => WheelsFollowLiveCommand
<1>1. IInv /\ ArrivalInv /\ [Next]_vars =>
        [driving' # driving /\ driving' # NoCommand =>
           /\ driving'.cg = cmdGen
           /\ ~authPrepared /\ verified /\ ~closed /\ ~fatal
           /\ queryTime' < lastValid + Timeout]_vars
  <2> SUFFICES ASSUME IInv, ArrivalInv, Next, driving' # driving, driving' # NoCommand
               PROVE  /\ driving'.cg = cmdGen
                      /\ ~authPrepared /\ verified /\ ~closed /\ ~fatal
                      /\ queryTime' < lastValid + Timeout
    BY DEF vars
  <2>1. PICK t \in 0..now : Decide(t)
    BY DEF Next, RefreshPoll, RefreshApply, Capture, Accept, PrepareWorldRebuild,
         CommitWorldRebuild, EndWorldRebuild, ReserveOutputs, Close, Tick
  <2>2. driving' = latest /\ latest # NoCommand /\ ~TimedOut(t) /\ queryTime' = t
    BY <2>1 DEF Decide, DecisionCommand, MailboxDecision
  <2>3. t \in Int /\ lastValid \in Int /\ Timeout \in Int
    BY <2>1, MailboxAssumption DEF IInv, TypeOK, DataOK, Never
  <2>4. t - lastValid < Timeout
    BY <2>2, <2>3 DEF TimedOut, ArrivalInv
  <2>5. owner # NoOwner /\ latest.cg = cmdGen
    BY <2>2 DEF IInv, AuthorityInv, MailboxHoldsOwnersCommand
  <2> QED
    BY <2>2, <2>3, <2>4, <2>5 DEF IInv, AuthorityInv, AuthorityTable
<1>2. Init => ArrivalInv
  BY DEF Init, MailboxInit, ArrivalInv
<1> QED
  BY <1>1, <1>2, InductiveInvariant, TypeCorrect, NextArrivalInv, PTL
  DEF Spec, WheelsFollowLiveCommand
=============================================================================
