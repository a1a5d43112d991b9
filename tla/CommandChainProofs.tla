------------------------- MODULE CommandChainProofs -------------------------
(***************************************************************************)
(* Proofs about the command chain, for any number of world changes, lost   *)
(* peers and messages in its buffers.  The invariant follows a generation  *)
(* message and a target through pipe, relay, socket, Command and receiver: *)
(* the epochs of generation messages grow along the chain, and a target is *)
(* never behind a generation message that is younger than itself.          *)
(***************************************************************************)
EXTENDS CommandChain, SequenceTheorems, TLAPS

Stamp == [gen : Nat, epoch : Nat]
GenerationMessage == [kind : {"generation"}, gen : Nat, epoch : Nat]
TargetMessage == [kind : {"target"}, target : Target]
Frame == [gen : Nat, seq : Nat, target : Target \cup {None}]

ChainTypes ==
    /\ cmdGen \in Nat /\ syncs \in Nat /\ genEpoch \in Int /\ genEpoch <= syncs
    /\ mailbox \in Target \cup {None} /\ driving \in Target \cup {None}
    /\ shared \in [motion : Motions, epoch : Nat, fresh : BOOLEAN]
    /\ pipe \in Seq(Stamp)
    /\ armed \in BOOLEAN /\ cutoff \in Nat
    /\ relayTarget \in Target \cup {None}
    /\ socket \in Seq(GenerationMessage \cup TargetMessage)
    /\ template \in Stamp /\ hasTarget \in BOOLEAN /\ frameSeq \in Nat
    /\ leased \in Target \cup {None}
    /\ hasTarget => leased \in Target
    /\ unread \in BOOLEAN
    /\ unread => frame \in Frame

(* A generation message is of a former generation of the simulator, or was *)
(* sent after the current one began.                                       *)
Tagged(m) == m.gen <= cmdGen /\ (m.gen = cmdGen => m.epoch > genEpoch)

PipeInv ==
    /\ \A i \in 1..Len(pipe) : /\ Tagged(pipe[i])
                               /\ cutoff <= pipe[i].epoch /\ pipe[i].epoch <= syncs
    /\ \A i, j \in 1..Len(pipe) : i < j => pipe[i].epoch <= pipe[j].epoch

RelayInv ==
    /\ cutoff <= syncs
    /\ armed => relayTarget \in Target /\ relayTarget.epoch >= cutoff

SocketInv ==
    /\ \A i \in 1..Len(socket) :
         /\ socket[i].kind = "generation" => Tagged(socket[i]) /\ socket[i].epoch <= cutoff
         /\ socket[i].kind = "target" => socket[i].target.epoch >= template.epoch
    /\ \A i, j \in 1..Len(socket) :
         i < j /\ socket[i].kind = "generation" /\ socket[j].kind = "target"
            => socket[j].target.epoch >= socket[i].epoch

TemplateInv == Tagged(template) /\ template.epoch <= cutoff

FrameInv ==
    unread => /\ frame.gen <= cmdGen
              /\ frame.gen = cmdGen /\ frame.target # None => frame.target.epoch > genEpoch

MailboxInv == mailbox # None => mailbox.epoch > genEpoch

ChainInv ==
    /\ ChainTypes /\ PipeInv /\ RelayInv /\ SocketInv /\ TemplateInv
    /\ NoTargetFromBeforeSync /\ FrameInv /\ MailboxInv /\ WheelsFollowCurrentWorld

-----------------------------------------------------------------------------
(* The elements of a sequence after Append and after Tail. *)
LEMMA Appended ==
  ASSUME NEW S, NEW s \in Seq(S), NEW x \in S
  PROVE  /\ Append(s, x) \in Seq(S)
         /\ Len(Append(s, x)) = Len(s) + 1
         /\ \A i \in 1..Len(s) : Append(s, x)[i] = s[i]
         /\ Append(s, x)[Len(s) + 1] = x
  BY AppendProperties

LEMMA TailOf ==
  ASSUME NEW S, NEW s \in Seq(S), s # <<>>
  PROVE  /\ Tail(s) \in Seq(S)
         /\ Len(Tail(s)) = Len(s) - 1
         /\ Len(s) \in Nat \ {0}
         /\ Head(s) \in S /\ Head(s) = s[1]
         /\ \A i \in 1..Len(Tail(s)) : Tail(s)[i] = s[i + 1]
  BY HeadTailProperties

(* Steps that leave the generation and its buffers alone. *)
LEMMA GenerationKept ==
  ASSUME ChainInv, UNCHANGED <<cmdGen, genEpoch, syncs, pipe, cutoff>>
  PROVE  PipeInv'
  BY DEF ChainInv, PipeInv, Tagged

LEMMA SocketKept ==
  ASSUME ChainInv, UNCHANGED <<cmdGen, genEpoch, cutoff, socket, template>>
  PROVE  SocketInv' /\ TemplateInv'
  BY DEF ChainInv, SocketInv, TemplateInv, Tagged

-----------------------------------------------------------------------------
(* A new generation is younger than everything in the buffers. *)
LEMMA GenerationAdvances ==
  ASSUME ChainInv, AdvanceGeneration,
         UNCHANGED <<syncs, pipe, relayVars, socket, commandVars, recvVars>>
  PROVE  /\ cmdGen' \in Nat /\ genEpoch' \in Int /\ genEpoch' <= syncs
         /\ mailbox' = None
         /\ PipeInv' /\ RelayInv' /\ SocketInv' /\ TemplateInv' /\ FrameInv'
  <1> USE DEF AdvanceGeneration, relayVars, commandVars, recvVars
  <1>1. /\ cmdGen' = cmdGen + 1 /\ cmdGen' \in Nat /\ genEpoch' = syncs /\ mailbox' = None
        /\ syncs \in Nat /\ cmdGen \in Nat
    BY DEF ChainInv, ChainTypes
  <1>2. ASSUME NEW m, m.gen \in Nat, Tagged(m)
        PROVE  Tagged(m)'
    BY <1>1, <1>2 DEF Tagged
  <1>3. PipeInv'
    <2>1. \A i \in 1..Len(pipe) : pipe[i] \in Stamp
      BY ElementOfSeq DEF ChainInv, ChainTypes
    <2>2. UNCHANGED <<pipe, cutoff, syncs>>
      OBVIOUS
    <2>3. ASSUME NEW i \in 1..Len(pipe)
          PROVE  Tagged(pipe[i])'
      <3>1. pipe[i].gen \in Nat /\ Tagged(pipe[i])
        BY <2>1 DEF ChainInv, PipeInv, Stamp
      <3> QED BY <3>1, <1>1, <2>2 DEF Tagged
    <2> QED BY <2>2, <2>3 DEF ChainInv, PipeInv
  <1>4. SocketInv'
    <2>1. \A i \in 1..Len(socket) : socket[i] \in GenerationMessage \cup TargetMessage
      BY ElementOfSeq DEF ChainInv, ChainTypes
    <2>2. \A i \in 1..Len(socket) : socket[i].kind = "generation" => socket[i].gen \in Nat
      BY <2>1 DEF GenerationMessage, TargetMessage
    <2> QED BY <1>1, <2>2 DEF ChainInv, SocketInv, Tagged
  <1>5. TemplateInv'
    BY <1>1 DEF ChainInv, TemplateInv, Tagged, ChainTypes, Stamp
  <1>6. FrameInv'
    BY <1>1 DEF ChainInv, FrameInv, ChainTypes, Frame
  <1>7. RelayInv'
    BY DEF ChainInv, RelayInv
  <1> QED BY <1>1, <1>3, <1>4, <1>5, <1>6, <1>7 DEF ChainInv

-----------------------------------------------------------------------------
LEMMA ChainInit == Init => ChainInv
  <1> SUFFICES ASSUME Init PROVE ChainInv
    OBVIOUS
  <1> USE DEF Init
  <1>1. ChainTypes
    <2>1. pipe \in Seq(Stamp) /\ socket \in Seq(GenerationMessage \cup TargetMessage)
      BY EmptySeq
    <2>2. shared \in [motion : Motions, epoch : Nat, fresh : BOOLEAN] /\ template \in Stamp
      BY DEF Motions, Stamp
    <2>3. cmdGen \in Nat /\ syncs \in Nat /\ genEpoch \in Int /\ genEpoch <= syncs
      OBVIOUS
    <2>4. cutoff \in Nat /\ frameSeq \in Nat
      OBVIOUS
    <2>5. armed = FALSE /\ hasTarget = FALSE /\ unread = FALSE
      OBVIOUS
    <2>6. mailbox = None /\ driving = None /\ relayTarget = None /\ leased = None
      OBVIOUS
    <2> QED BY <2>1, <2>2, <2>3, <2>4, <2>5, <2>6, Zenon DEF ChainTypes
  <1>2. Len(pipe) = 0 /\ Len(socket) = 0
    OBVIOUS
  <1>3. PipeInv /\ SocketInv
    BY <1>2 DEF PipeInv, SocketInv
  <1>4. RelayInv /\ TemplateInv
    BY DEF RelayInv, TemplateInv, Tagged
  <1>5. NoTargetFromBeforeSync /\ FrameInv /\ MailboxInv /\ WheelsFollowCurrentWorld
    BY DEF NoTargetFromBeforeSync, FrameInv, MailboxInv, WheelsFollowCurrentWorld
  <1> QED BY <1>1, <1>3, <1>4, <1>5 DEF ChainInv

(* The GUI/physics loop. *)
LEMMA PollKeeps == ChainInv /\ Poll => ChainInv'
  <1> SUFFICES ASSUME ChainInv, Poll PROVE ChainInv'
    OBVIOUS
  <1> USE DEF Poll
  <1>1. CASE UNCHANGED <<cmdGen, owned, lastSeq, mailbox, genEpoch, ops>>
    <2>1. PipeInv' /\ SocketInv' /\ TemplateInv'
      BY <1>1, GenerationKept, SocketKept DEF relayVars, commandVars
    <2> QED
      BY <1>1, <2>1 DEF ChainInv, ChainTypes, RelayInv, NoTargetFromBeforeSync, FrameInv,
            MailboxInv, WheelsFollowCurrentWorld, relayVars, commandVars, recvVars
  <1>2. CASE AdvanceGeneration
    <2>1. /\ cmdGen' \in Nat /\ genEpoch' \in Int /\ genEpoch' <= syncs /\ mailbox' = None
          /\ PipeInv' /\ RelayInv' /\ SocketInv' /\ TemplateInv' /\ FrameInv'
      BY <1>2, GenerationAdvances DEF relayVars, commandVars, recvVars
    <2> QED
      BY <2>1 DEF ChainInv, ChainTypes, NoTargetFromBeforeSync,
            MailboxInv, WheelsFollowCurrentWorld, relayVars, commandVars, recvVars
  <1> QED BY <1>1, <1>2

LEMMA SubmitKeeps == ChainInv /\ Submit => ChainInv'
  <1> SUFFICES ASSUME ChainInv, Submit PROVE ChainInv'
    OBVIOUS
  <1> USE DEF Submit
  <1>1. PipeInv' /\ SocketInv' /\ TemplateInv'
    BY GenerationKept, SocketKept DEF relayVars, commandVars, simVars
  <1>2. shared' \in [motion : Motions, epoch : Nat, fresh : BOOLEAN]
    BY DEF ChainInv, ChainTypes
  <1>3. phase' # "step"
    OBVIOUS
  <1> QED
    BY <1>1, <1>2, <1>3 DEF ChainInv, ChainTypes, RelayInv, NoTargetFromBeforeSync, FrameInv,
          MailboxInv, WheelsFollowCurrentWorld, relayVars, commandVars, recvVars, simVars

LEMMA DecideKeeps == ChainInv /\ Decide => ChainInv'
  <1> SUFFICES ASSUME ChainInv, Decide PROVE ChainInv'
    OBVIOUS
  <1> USE DEF Decide
  <1>1. PipeInv' /\ SocketInv' /\ TemplateInv'
    BY GenerationKept, SocketKept DEF relayVars, commandVars
  <1>2. /\ mailbox' \in Target \cup {None} /\ driving' \in Target \cup {None}
        /\ mailbox' # None => mailbox'.epoch > genEpoch
        /\ driving' # None => driving'.epoch > genEpoch
    <2>1. CASE Accepts
      <3>1. frame \in Frame /\ frame.gen = cmdGen
        BY <2>1 DEF Accepts, ChainInv, ChainTypes
      <3>2. frame.target \in Target \cup {None}
        BY <3>1 DEF Frame
      <3>3. frame.target # None => frame.target.epoch > genEpoch
        BY <2>1, <3>1 DEF Accepts, ChainInv, FrameInv
      <3> QED BY <2>1, <3>2, <3>3
    <2>2. CASE ~Accepts
      BY <2>2 DEF ChainInv, ChainTypes, MailboxInv
    <2> QED BY <2>1, <2>2
  <1> QED
    BY <1>1, <1>2 DEF ChainInv, ChainTypes, RelayInv, NoTargetFromBeforeSync, FrameInv,
          MailboxInv, WheelsFollowCurrentWorld, relayVars, commandVars

LEMMA StepKeeps == ChainInv /\ Step => ChainInv'
  <1> SUFFICES ASSUME ChainInv, Step PROVE ChainInv'
    OBVIOUS
  <1> USE DEF Step
  <1>0. driving' \in Target \cup {None} /\ phase' # "step"
    BY DEF ChainInv, ChainTypes
  <1>1. CASE UNCHANGED <<cmdGen, mailbox, genEpoch>>
    <2>1. PipeInv' /\ SocketInv' /\ TemplateInv'
      BY <1>1, GenerationKept, SocketKept DEF relayVars, commandVars
    <2> QED
      BY <1>0, <1>1, <2>1 DEF ChainInv, ChainTypes, RelayInv, NoTargetFromBeforeSync, FrameInv,
            MailboxInv, WheelsFollowCurrentWorld, relayVars, commandVars, recvVars
  <1>2. CASE AdvanceGeneration
    <2>1. /\ cmdGen' \in Nat /\ genEpoch' \in Int /\ genEpoch' <= syncs /\ mailbox' = None
          /\ PipeInv' /\ RelayInv' /\ SocketInv' /\ TemplateInv' /\ FrameInv'
      BY <1>2, GenerationAdvances DEF relayVars, commandVars, recvVars
    <2> QED
      BY <1>0, <2>1 DEF ChainInv, ChainTypes, NoTargetFromBeforeSync,
            MailboxInv, WheelsFollowCurrentWorld, relayVars, commandVars, recvVars
  <1> QED BY <1>1, <1>2

LEMMA SyncKeeps == ChainInv /\ Sync => ChainInv'
  <1> SUFFICES ASSUME ChainInv, Sync PROVE ChainInv'
    OBVIOUS
  <1> USE DEF Sync
  <1>1. SocketInv' /\ TemplateInv'
    BY SocketKept DEF relayVars, commandVars
  <1>2. /\ syncs' \in Nat /\ genEpoch <= syncs' /\ pipe' \in Seq(Stamp)
        /\ cutoff <= syncs' /\ PipeInv'
    <2>1. CASE ~changed
      BY <2>1, GenerationKept DEF ChainInv, ChainTypes, RelayInv, relayVars
    <2>2. CASE changed
      <3> DEFINE m == [gen |-> cmdGen, epoch |-> syncs + 1]
      <3>1. /\ m \in Stamp /\ pipe \in Seq(Stamp) /\ syncs \in Nat /\ cutoff \in Nat
            /\ cmdGen \in Nat /\ genEpoch \in Int /\ genEpoch <= syncs /\ cutoff <= syncs
        BY DEF ChainInv, ChainTypes, Stamp, RelayInv
      <3>2. pipe' = Append(pipe, m) /\ syncs' = syncs + 1
        BY <2>2
      <3>3. /\ pipe' \in Seq(Stamp) /\ Len(pipe') = Len(pipe) + 1 /\ Len(pipe) \in Nat
            /\ \A i \in 1..Len(pipe) : pipe'[i] = pipe[i]
            /\ pipe'[Len(pipe) + 1] = m
        BY <3>1, <3>2, Appended, LenProperties
      <3>4. \A i \in 1..Len(pipe) : pipe[i] \in Stamp
        BY <3>1, ElementOfSeq
      <3>5. UNCHANGED <<cmdGen, genEpoch, cutoff>>
        BY DEF relayVars
      <3>6. ASSUME NEW i \in 1..Len(pipe')
            PROVE  /\ Tagged(pipe[i])' /\ cutoff <= pipe'[i].epoch /\ pipe'[i].epoch <= syncs'
        <4>1. CASE i \in 1..Len(pipe)
          <5>1. pipe'[i] = pipe[i] /\ pipe[i].epoch \in Nat
            BY <4>1, <3>3, <3>4 DEF Stamp
          <5>2. Tagged(pipe[i]) /\ cutoff <= pipe[i].epoch /\ pipe[i].epoch <= syncs
            BY <4>1 DEF ChainInv, PipeInv
          <5> QED BY <5>1, <5>2, <3>1, <3>2, <3>5 DEF Tagged
        <4>2. CASE i = Len(pipe) + 1
          <5>1. pipe'[i].gen = cmdGen /\ pipe'[i].epoch = syncs + 1
            BY <4>2, <3>3
          <5> QED BY <5>1, <3>1, <3>2, <3>5 DEF Tagged
        <4> QED BY <4>1, <4>2, <3>3
      <3>7. ASSUME NEW i \in 1..Len(pipe'), NEW j \in 1..Len(pipe'), i < j
            PROVE  pipe'[i].epoch <= pipe'[j].epoch
        <4>1. i \in 1..Len(pipe)
          BY <3>3, <3>7
        <4>2. CASE j \in 1..Len(pipe)
          BY <4>1, <4>2, <3>3, <3>7 DEF ChainInv, PipeInv
        <4>3. CASE j = Len(pipe) + 1
          <5>1. pipe'[j].epoch = syncs + 1 /\ pipe'[i] = pipe[i] /\ pipe[i].epoch \in Nat
            BY <4>1, <4>3, <3>3, <3>4 DEF Stamp
          <5>2. pipe[i].epoch <= syncs
            BY <4>1 DEF ChainInv, PipeInv
          <5> QED BY <5>1, <5>2, <3>1
        <4> QED BY <4>2, <4>3, <3>3
      <3>8. cutoff' = cutoff
        BY <3>5
      <3>9. \A i \in 1..Len(pipe') : \A j \in 1..Len(pipe') :
              i < j => pipe'[i].epoch <= pipe'[j].epoch
        BY <3>7
      <3>10. \A i \in 1..Len(pipe') :
               Tagged(pipe[i])' /\ cutoff' <= pipe'[i].epoch /\ pipe'[i].epoch <= syncs'
        BY <3>6, <3>8
      <3>11. PipeInv'
        BY <3>9, <3>10 DEF PipeInv
      <3>12. /\ syncs' \in Nat /\ genEpoch <= syncs' /\ cutoff <= syncs'
             /\ pipe' \in Seq(Stamp)
        BY <3>1, <3>2, <3>3
      <3> QED BY <3>11, <3>12
    <2> QED BY <2>1, <2>2
  <1> QED
    BY <1>1, <1>2 DEF ChainInv, ChainTypes, RelayInv, NoTargetFromBeforeSync, FrameInv,
          MailboxInv, WheelsFollowCurrentWorld, relayVars, commandVars, recvVars

(* The relay loses its process, the run ends with zero wheels. *)
LEMMA RelayLostKeeps == ChainInv /\ RelayLost => ChainInv'
  <1> SUFFICES ASSUME ChainInv, RelayLost PROVE ChainInv'
    OBVIOUS
  <1> USE DEF RelayLost
  <1>1. PipeInv' /\ SocketInv' /\ TemplateInv'
    BY GenerationKept, SocketKept DEF relayVars, commandVars
  <1> QED
    BY <1>1 DEF ChainInv, ChainTypes, RelayInv, NoTargetFromBeforeSync, FrameInv,
          MailboxInv, WheelsFollowCurrentWorld, relayVars, commandVars, recvVars

-----------------------------------------------------------------------------
(* A message at the end of the socket: it keeps the order if it is a       *)
(* generation message of the relay's cut-off or a target behind it.        *)
LEMMA SocketAppend ==
  ASSUME ChainInv, NEW m \in GenerationMessage \cup TargetMessage,
         socket' = Append(socket, m), UNCHANGED <<cmdGen, genEpoch, template>>,
         cutoff' \in Nat, cutoff <= cutoff',
         m.kind = "generation" => Tagged(m) /\ m.epoch = cutoff',
         m.kind = "target" => m.target.epoch >= cutoff /\ cutoff' = cutoff
  PROVE  socket' \in Seq(GenerationMessage \cup TargetMessage) /\ SocketInv' /\ TemplateInv'
  <1> DEFINE n == Len(socket)
  <1>1. /\ socket \in Seq(GenerationMessage \cup TargetMessage) /\ n \in Nat
        /\ template \in Stamp /\ cutoff \in Nat
    BY LenProperties DEF ChainInv, ChainTypes
  <1>2. /\ socket' \in Seq(GenerationMessage \cup TargetMessage) /\ Len(socket') = n + 1
        /\ \A i \in 1..n : socket'[i] = socket[i]
        /\ socket'[n + 1] = m
    BY <1>1, Appended
  <1>3. \A i \in 1..n : socket[i] \in GenerationMessage \cup TargetMessage
    BY <1>1, ElementOfSeq
  <1>4. TemplateInv'
    BY <1>1 DEF ChainInv, TemplateInv, Tagged, Stamp
  <1>5. ASSUME NEW i \in 1..(n + 1)
        PROVE  /\ socket'[i].kind = "generation" => Tagged(socket[i])' /\ socket'[i].epoch <= cutoff'
               /\ socket'[i].kind = "target" => socket'[i].target.epoch >= template.epoch
    <2>1. CASE i \in 1..n
      <3>1. /\ socket[i].kind = "generation" =>
                  Tagged(socket[i]) /\ socket[i].epoch <= cutoff /\ socket[i].epoch \in Nat
            /\ socket[i].kind = "target" => socket[i].target.epoch >= template.epoch
        BY <2>1, <1>3 DEF ChainInv, SocketInv, GenerationMessage, TargetMessage
      <3> QED BY <2>1, <3>1, <1>1, <1>2 DEF Tagged
    <2>2. CASE i = n + 1
      <3>1. socket'[i] = m
        BY <2>2, <1>2
      <3>2. m.kind = "target" => m.target.epoch \in Nat
        BY DEF GenerationMessage, TargetMessage, Target
      <3>3. template.epoch <= cutoff /\ template.epoch \in Nat
        BY <1>1 DEF ChainInv, TemplateInv, Stamp
      <3> QED BY <3>1, <3>2, <3>3, <1>1 DEF Tagged
    <2> QED BY <2>1, <2>2, <1>1
  <1>6. ASSUME NEW i \in 1..(n + 1), NEW j \in 1..(n + 1), i < j,
               socket'[i].kind = "generation", socket'[j].kind = "target"
        PROVE  socket'[j].target.epoch >= socket'[i].epoch
    <2>1. i \in 1..n /\ socket'[i] = socket[i]
      BY <1>1, <1>2, <1>6
    <2>2. socket[i].epoch \in Nat /\ socket[i].epoch <= cutoff
      BY <2>1, <1>3, <1>6 DEF ChainInv, SocketInv, GenerationMessage, TargetMessage
    <2>3. CASE j \in 1..n
      BY <2>1, <2>3, <1>2, <1>6 DEF ChainInv, SocketInv
    <2>4. CASE j = n + 1
      <3>1. socket'[j] = m /\ m.kind = "target"
        BY <2>4, <1>2, <1>6
      <3>2. m.target.epoch \in Nat
        BY <3>1 DEF GenerationMessage, TargetMessage, Target
      <3> QED BY <2>1, <2>2, <3>1, <3>2, <1>1
    <2> QED BY <2>3, <2>4, <1>1
  <1> QED BY <1>1, <1>2, <1>4, <1>5, <1>6 DEF SocketInv

(* The relay. *)
LEMMA RelayGenerationKeeps == ChainInv /\ RelayGeneration => ChainInv'
  <1> SUFFICES ASSUME ChainInv, RelayGeneration PROVE ChainInv'
    OBVIOUS
  <1> USE DEF RelayGeneration
  <1> DEFINE h == Head(pipe)
             m == [kind |-> "generation", gen |-> h.gen, epoch |-> h.epoch]
  <1>1. pipe \in Seq(Stamp) /\ pipe # <<>> /\ cutoff \in Nat /\ syncs \in Nat
    BY DEF ChainInv, ChainTypes
  <1>2. /\ pipe' \in Seq(Stamp) /\ Len(pipe') = Len(pipe) - 1 /\ Len(pipe) \in Nat \ {0}
        /\ h \in Stamp /\ h = pipe[1]
        /\ \A i \in 1..Len(pipe') : pipe'[i] = pipe[i + 1]
    BY <1>1, TailOf
  <1>3. Tagged(h) /\ cutoff <= h.epoch /\ h.epoch <= syncs
    BY <1>2 DEF ChainInv, PipeInv
  <1>4. m \in GenerationMessage /\ Tagged(m)
    BY <1>2, <1>3 DEF Stamp, GenerationMessage, Tagged
  <1>5. /\ socket' = Append(socket, m) /\ cutoff' = h.epoch
        /\ UNCHANGED <<cmdGen, genEpoch, syncs, template>>
    BY DEF simVars, commandVars
  <1>6. /\ socket' \in Seq(GenerationMessage \cup TargetMessage) /\ SocketInv' /\ TemplateInv'
    <2>1. cutoff' \in Nat /\ cutoff <= cutoff' /\ m.kind = "generation" /\ m.epoch = cutoff'
      BY <1>2, <1>3, <1>5 DEF Stamp
    <2> QED BY <2>1, <1>4, <1>5, SocketAppend
  <1>7. PipeInv'
    <2>1. \A i \in 1..Len(pipe) : pipe[i] \in Stamp
      BY <1>1, ElementOfSeq
    <2>2. ASSUME NEW i \in 1..Len(pipe')
          PROVE  Tagged(pipe[i])' /\ cutoff' <= pipe'[i].epoch /\ pipe'[i].epoch <= syncs'
      <3>1. i + 1 \in 1..Len(pipe) /\ 1 \in 1..Len(pipe) /\ 1 < i + 1 /\ pipe'[i] = pipe[i + 1]
        BY <1>2
      <3>2. /\ Tagged(pipe[i + 1]) /\ pipe[i + 1].epoch <= syncs /\ h.epoch <= pipe[i + 1].epoch
        BY <3>1, <1>2 DEF ChainInv, PipeInv
      <3> QED BY <3>1, <3>2, <1>5 DEF Tagged
    <2>3. ASSUME NEW i \in 1..Len(pipe'), NEW j \in 1..Len(pipe'), i < j
          PROVE  pipe'[i].epoch <= pipe'[j].epoch
      <3>1. i + 1 \in 1..Len(pipe) /\ j + 1 \in 1..Len(pipe) /\ i + 1 < j + 1
        BY <1>2, <2>3
      <3> QED BY <3>1, <1>2 DEF ChainInv, PipeInv
    <2> QED BY <2>2, <2>3 DEF PipeInv
  <1> QED
    BY <1>2, <1>3, <1>5, <1>6, <1>7 DEF ChainInv, ChainTypes, RelayInv, NoTargetFromBeforeSync,
          FrameInv, MailboxInv, WheelsFollowCurrentWorld, simVars, commandVars, recvVars, Stamp

LEMMA RelayTurns ==
  ASSUME ChainInv, RelayWake \/ RelayDrained \/ RelayFail
  PROVE  ChainInv'
  <1>1. UNCHANGED <<phase, cmdGen, syncs, genEpoch, mailbox, driving, shared, pipe, relayTarget,
                    armed, cutoff, socket, template, hasTarget, leased, frameSeq, frame, unread>>
    BY DEF RelayWake, RelayDrained, RelayFail, simVars, commandVars, recvVars
  <1>2. PipeInv' /\ SocketInv' /\ TemplateInv'
    BY <1>1, GenerationKept, SocketKept
  <1> QED
    BY <1>1, <1>2 DEF ChainInv, ChainTypes, RelayInv, NoTargetFromBeforeSync, FrameInv,
          MailboxInv, WheelsFollowCurrentWorld

(* What the relay holds after it has read the shared target. *)
LEMMA ChosenIsCurrent ==
  ASSUME ChainInv
  PROVE  /\ Chosen \in Target \cup {None}
         /\ NewTarget \/ armed => Chosen \in Target /\ Chosen.epoch >= cutoff
  <1>1. CASE NewTarget
    <2>1. Chosen = [motion |-> shared.motion, epoch |-> shared.epoch]
      BY <1>1 DEF Chosen
    <2>2. shared.motion \in Motions /\ shared.epoch \in Nat
      BY DEF ChainInv, ChainTypes
    <2>3. shared.epoch >= cutoff
      BY <1>1 DEF NewTarget
    <2> QED BY <2>1, <2>2, <2>3 DEF Target
  <1>2. CASE ~NewTarget
    BY <1>2 DEF Chosen, ChainInv, ChainTypes, RelayInv
  <1> QED BY <1>1, <1>2

LEMMA RelayTargetKeeps ==
  ASSUME ChainInv, RelayObserve \/ RelayRenew
  PROVE  ChainInv'
  <1> DEFINE m == [kind |-> "target", target |-> Chosen]
  <1>1. UNCHANGED <<phase, cmdGen, syncs, genEpoch, mailbox, driving, pipe,
                    cutoff, template, hasTarget, leased, frameSeq, frame, unread>>
    BY DEF RelayObserve, RelayRenew, simVars, commandVars, recvVars
  <1>2. PipeInv'
    BY <1>1, GenerationKept
  <1>3. relayTarget' = Chosen /\ relayTarget' \in Target \cup {None}
    BY ChosenIsCurrent DEF RelayObserve, RelayRenew
  <1>4. shared' \in [motion : Motions, epoch : Nat, fresh : BOOLEAN]
    <2>1. shared' = [shared EXCEPT !.fresh = shared.fresh /\ ~NewTarget]
      BY DEF RelayObserve, RelayRenew
    <2>2. shared \in [motion : Motions, epoch : Nat, fresh : BOOLEAN]
      BY DEF ChainInv, ChainTypes
    <2> QED BY <2>1, <2>2
  <1>5. \/ UNCHANGED <<socket, armed>>
        \/ (NewTarget \/ armed) /\ socket' = Append(socket, m) /\ armed' = TRUE
    <2>1. armed \in BOOLEAN
      BY DEF ChainInv, ChainTypes
    <2>2. CASE RelayObserve
      BY <2>2 DEF RelayObserve, SendNow, SendTarget
    <2>3. CASE RelayRenew
      BY <2>1, <2>3 DEF RelayRenew, SendTarget
    <2> QED BY <2>2, <2>3
  <1>6. CASE UNCHANGED <<socket, armed>>
    <2>1. SocketInv' /\ TemplateInv'
      BY <1>1, <1>6, SocketKept
    <2>2. RelayInv'
      BY <1>1, <1>3, <1>6, ChosenIsCurrent DEF ChainInv, RelayInv
    <2> QED
      BY <1>1, <1>2, <1>3, <1>4, <1>6, <2>1, <2>2 DEF ChainInv, ChainTypes,
            NoTargetFromBeforeSync, FrameInv, MailboxInv, WheelsFollowCurrentWorld
  <1>7. CASE (NewTarget \/ armed) /\ socket' = Append(socket, m) /\ armed' = TRUE
    <2>1. Chosen \in Target /\ Chosen.epoch >= cutoff
      BY <1>7, ChosenIsCurrent
    <2>2. m \in TargetMessage
      BY <2>1 DEF TargetMessage
    <2>3. cutoff \in Nat
      BY DEF ChainInv, ChainTypes
    <2>4. socket' \in Seq(GenerationMessage \cup TargetMessage) /\ SocketInv' /\ TemplateInv'
      BY <1>1, <1>7, <2>1, <2>2, <2>3, SocketAppend
    <2>5. RelayInv'
      BY <1>1, <1>3, <1>7, <2>1 DEF ChainInv, RelayInv
    <2> QED
      BY <1>1, <1>2, <1>3, <1>4, <1>7, <2>4, <2>5 DEF ChainInv, ChainTypes,
            NoTargetFromBeforeSync, FrameInv, MailboxInv, WheelsFollowCurrentWorld
  <1> QED BY <1>5, <1>6, <1>7

-----------------------------------------------------------------------------
(* Command reads the first message of the socket. *)
LEMMA SocketTail ==
  ASSUME ChainInv, socket # <<>>, socket' = Tail(socket),
         UNCHANGED <<cmdGen, genEpoch, cutoff>>, template'.epoch \in Nat,
         \A j \in 2..Len(socket) :
            socket[j].kind = "target" => socket[j].target.epoch >= template'.epoch
  PROVE  /\ socket' \in Seq(GenerationMessage \cup TargetMessage) /\ SocketInv'
         /\ Head(socket) = socket[1] /\ 1 \in 1..Len(socket)
         /\ Head(socket) \in GenerationMessage \cup TargetMessage
  <1>1. socket \in Seq(GenerationMessage \cup TargetMessage)
    BY DEF ChainInv, ChainTypes
  <1>2. /\ socket' \in Seq(GenerationMessage \cup TargetMessage)
        /\ Len(socket') = Len(socket) - 1 /\ Len(socket) \in Nat \ {0}
        /\ Head(socket) \in GenerationMessage \cup TargetMessage /\ Head(socket) = socket[1]
        /\ \A i \in 1..Len(socket') : socket'[i] = socket[i + 1]
    BY <1>1, TailOf
  <1>3. ASSUME NEW i \in 1..Len(socket')
        PROVE  /\ socket'[i].kind = "generation" => Tagged(socket[i])' /\ socket'[i].epoch <= cutoff'
               /\ socket'[i].kind = "target" => socket'[i].target.epoch >= template'.epoch
    <2>1. i + 1 \in 2..Len(socket) /\ i + 1 \in 1..Len(socket) /\ socket'[i] = socket[i + 1]
      BY <1>2
    <2>2. socket[i + 1].kind = "generation" => Tagged(socket[i + 1]) /\ socket[i + 1].epoch <= cutoff
      BY <2>1 DEF ChainInv, SocketInv
    <2> QED BY <2>1, <2>2 DEF Tagged
  <1>4. ASSUME NEW i \in 1..Len(socket'), NEW j \in 1..Len(socket'), i < j,
               socket'[i].kind = "generation", socket'[j].kind = "target"
        PROVE  socket'[j].target.epoch >= socket'[i].epoch
    <2>1. i + 1 \in 1..Len(socket) /\ j + 1 \in 1..Len(socket) /\ i + 1 < j + 1
      BY <1>2, <1>4
    <2> QED BY <2>1, <1>2, <1>4 DEF ChainInv, SocketInv
  <1>5. 1 \in 1..Len(socket)
    BY <1>2
  <1> QED BY <1>2, <1>3, <1>4, <1>5 DEF SocketInv

LEMMA ReadTargetKeeps == ChainInv /\ ReadTarget => ChainInv'
  <1> SUFFICES ASSUME ChainInv, ReadTarget PROVE ChainInv'
    OBVIOUS
  <1> USE DEF ReadTarget
  <1>1. UNCHANGED <<phase, cmdGen, syncs, genEpoch, mailbox, driving, shared, pipe, relayTarget,
                    armed, cutoff, template, frameSeq, frame, unread>>
    BY DEF simVars, relayVars, recvVars
  <1>2. PipeInv'
    BY <1>1, GenerationKept
  <1>3. /\ template.epoch \in Nat
        /\ \A j \in 2..Len(socket) :
              socket[j].kind = "target" => socket[j].target.epoch >= template.epoch
    BY DEF ChainInv, ChainTypes, SocketInv, Stamp
  <1>4. /\ socket' \in Seq(GenerationMessage \cup TargetMessage) /\ SocketInv'
        /\ Head(socket) = socket[1] /\ 1 \in 1..Len(socket)
        /\ Head(socket) \in GenerationMessage \cup TargetMessage
    BY <1>1, <1>3, SocketTail
  <1>5. leased' \in Target /\ leased'.epoch >= template.epoch /\ hasTarget' = TRUE
    <2>1. Head(socket).target \in Target
      BY <1>4 DEF GenerationMessage, TargetMessage
    <2>2. Head(socket).target.epoch >= template.epoch
      BY <1>4 DEF ChainInv, SocketInv
    <2> QED BY <2>1, <2>2
  <1>6. TemplateInv' /\ RelayInv'
    BY <1>1 DEF ChainInv, TemplateInv, Tagged, RelayInv
  <1> QED
    BY <1>1, <1>2, <1>4, <1>5, <1>6 DEF ChainInv, ChainTypes,
          NoTargetFromBeforeSync, FrameInv, MailboxInv, WheelsFollowCurrentWorld

LEMMA ReadGenerationKeeps == ChainInv /\ ReadGeneration => ChainInv'
  <1> SUFFICES ASSUME ChainInv, ReadGeneration PROVE ChainInv'
    OBVIOUS
  <1> USE DEF ReadGeneration
  <1> DEFINE h == Head(socket)
  <1>1. UNCHANGED <<phase, cmdGen, syncs, genEpoch, mailbox, driving, shared, pipe, relayTarget,
                    armed, cutoff, frame, unread>>
    BY DEF simVars, relayVars, recvVars
  <1>2. PipeInv'
    BY <1>1, GenerationKept
  <1>3. /\ socket \in Seq(GenerationMessage \cup TargetMessage)
        /\ h \in GenerationMessage \cup TargetMessage /\ h = socket[1] /\ Len(socket) \in Nat \ {0}
    BY TailOf DEF ChainInv, ChainTypes
  <1>4. h \in GenerationMessage
    BY <1>3 DEF GenerationMessage, TargetMessage
  <1>5. template' = [gen |-> h.gen, epoch |-> h.epoch] /\ template' \in Stamp /\ template'.epoch \in Nat
    BY <1>4 DEF GenerationMessage, Stamp
  <1>6. Tagged(h) /\ h.epoch <= cutoff
    <2>1. 1 \in 1..Len(socket)
      BY <1>3
    <2> QED BY <2>1, <1>3 DEF ChainInv, SocketInv
  <1>7. \A j \in 2..Len(socket) :
            socket[j].kind = "target" => socket[j].target.epoch >= template'.epoch
    <2>1. 1 \in 1..Len(socket) /\ \A j \in 2..Len(socket) : j \in 1..Len(socket) /\ 1 < j
      BY <1>3
    <2> QED BY <2>1, <1>3, <1>5 DEF ChainInv, SocketInv
  <1>8. socket' \in Seq(GenerationMessage \cup TargetMessage) /\ SocketInv'
    BY <1>1, <1>5, <1>7, SocketTail
  <1>9. TemplateInv' /\ RelayInv'
    BY <1>1, <1>5, <1>6 DEF ChainInv, TemplateInv, Tagged, RelayInv
  <1> QED
    BY <1>1, <1>2, <1>5, <1>8, <1>9 DEF ChainInv, ChainTypes,
          NoTargetFromBeforeSync, FrameInv, MailboxInv, WheelsFollowCurrentWorld

LEMMA LeaseEnds ==
  ASSUME ChainInv, ReadEof \/ LeaseExpires
  PROVE  ChainInv'
  <1>1. /\ UNCHANGED <<phase, cmdGen, syncs, genEpoch, mailbox, driving, shared, pipe, relayTarget,
                       armed, cutoff, socket, template, leased, frameSeq, frame, unread>>
        /\ hasTarget' = FALSE
    BY DEF ReadEof, LeaseExpires, simVars, relayVars, recvVars
  <1>2. PipeInv' /\ SocketInv' /\ TemplateInv'
    BY <1>1, GenerationKept, SocketKept
  <1> QED
    BY <1>1, <1>2 DEF ChainInv, ChainTypes, RelayInv, NoTargetFromBeforeSync, FrameInv,
          MailboxInv, WheelsFollowCurrentWorld

LEMMA PublishKeeps == ChainInv /\ Publish => ChainInv'
  <1> SUFFICES ASSUME ChainInv, Publish PROVE ChainInv'
    OBVIOUS
  <1> USE DEF Publish
  <1>1. UNCHANGED <<phase, cmdGen, syncs, genEpoch, mailbox, driving, shared, pipe, relayTarget,
                    armed, cutoff, socket, template, hasTarget, leased>>
    BY DEF simVars, relayVars
  <1>2. PipeInv' /\ SocketInv' /\ TemplateInv'
    BY <1>1, GenerationKept, SocketKept
  <1> DEFINE t == IF hasTarget /\ leased.motion = "go" THEN leased ELSE None
  <1>3. frame' = [gen |-> template.gen, seq |-> frameSeq, target |-> t] /\ unread' = TRUE
    OBVIOUS
  <1>4. t \in Target \cup {None} /\ (t # None => hasTarget /\ t = leased)
    BY DEF ChainInv, ChainTypes
  <1>5. template.gen \in Nat /\ template.epoch \in Nat /\ frameSeq \in Nat
    BY DEF ChainInv, ChainTypes, Stamp
  <1>6. frame' \in Frame
    BY <1>3, <1>4, <1>5 DEF Frame
  <1>7. FrameInv'
    <2>1. template.gen <= cmdGen /\ (template.gen = cmdGen => template.epoch > genEpoch)
      BY DEF ChainInv, TemplateInv, Tagged
    <2>2. t # None => t.epoch \in Nat /\ t.epoch >= template.epoch
      BY <1>4 DEF ChainInv, ChainTypes, NoTargetFromBeforeSync, Target
    <2>3. genEpoch \in Int
      BY DEF ChainInv, ChainTypes
    <2>4. frame'.gen = template.gen /\ frame'.target = t
      BY <1>3
    <2>5. template.gen = cmdGen /\ t # None => t.epoch > genEpoch
      BY <1>5, <2>1, <2>2, <2>3
    <2> QED BY <1>1, <2>1, <2>4, <2>5 DEF FrameInv
  <1>8. frameSeq' \in Nat
    BY <1>5
  <1> QED
    BY <1>1, <1>2, <1>3, <1>6, <1>7, <1>8 DEF ChainInv, ChainTypes, RelayInv,
          NoTargetFromBeforeSync, MailboxInv, WheelsFollowCurrentWorld

-----------------------------------------------------------------------------
LEMMA ChainStep == ChainInv /\ [Next]_vars => ChainInv'
  <1> SUFFICES ASSUME ChainInv, [Next]_vars PROVE ChainInv'
    OBVIOUS
  <1>1. CASE MainNext
    BY <1>1, PollKeeps, SubmitKeeps, DecideKeeps, StepKeeps, SyncKeeps, RelayLostKeeps DEF MainNext
  <1>2. CASE RelayNext
    BY <1>2, RelayTurns, RelayGenerationKeeps, RelayTargetKeeps DEF RelayNext
  <1>3. CASE CommandNext
    BY <1>3, ReadTargetKeeps, ReadGenerationKeeps, LeaseEnds, PublishKeeps DEF CommandNext
  <1>4. CASE UNCHANGED vars
    <2>1. UNCHANGED <<phase, cmdGen, syncs, genEpoch, mailbox, driving, shared, pipe, relayTarget,
                      armed, cutoff, socket, template, hasTarget, leased, frameSeq, frame, unread>>
      BY <1>4 DEF vars, simVars, relayVars, commandVars, recvVars
    <2>2. PipeInv' /\ SocketInv' /\ TemplateInv'
      BY <2>1, GenerationKept, SocketKept
    <2> QED
      BY <2>1, <2>2 DEF ChainInv, ChainTypes, RelayInv, NoTargetFromBeforeSync, FrameInv,
            MailboxInv, WheelsFollowCurrentWorld
  <1> QED BY <1>1, <1>2, <1>3, <1>4 DEF Next

LEMMA ChainInvariant == Spec => []ChainInv
  BY ChainInit, ChainStep, PTL DEF Spec

(* Command never publishes, under a generation message, a target that the  *)
(* operator submitted before it, however many messages and targets are in  *)
(* the relay's pipe and in the socket.                                     *)
THEOREM TargetsAreYoungerThanTheirGeneration == Spec => []NoTargetFromBeforeSync
  BY ChainInvariant, PTL DEF ChainInv

(* No target from before a world change, an abort or a lost peer drives    *)
(* the wheels after it, through five buffers in four processes.            *)
THEOREM WheelsNeverFollowAFormerWorld == Spec => []WheelsFollowCurrentWorld
  BY ChainInvariant, PTL DEF ChainInv
=============================================================================
