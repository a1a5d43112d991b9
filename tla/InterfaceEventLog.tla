-------------------------- MODULE InterfaceEventLog -------------------------
(***************************************************************************)
(* The interface event log (slope_sim/interfaces/logging.py) and the way   *)
(* the runtime uses it (runtime.py, _record_message to close_logger): the  *)
(* runtime's threads submit records under the log lock, without waiting;   *)
(* one writer thread writes them in queue order; what the queue refuses is *)
(* counted and reported by a later queue_dropped event.  The runtime       *)
(* closes the log under the log lock, its host may close it without.       *)
(***************************************************************************)
EXTENDS Integers, Sequences, FiniteSetsExt, SequencesExt

CONSTANTS LogNone,
          Recorders,    \* the runtime's threads that record
          QueueSize,    \* capacity of the queue
          MaxRecords,   \* bound on the records submitted
          ReadLimit     \* the reader's max_records

ASSUME LogBounds == QueueSize \in Nat \ {0} /\ MaxRecords \in Nat /\ ReadLimit \in Nat

VARIABLES
    lg,        \* the logger: state, accepting, free slots, queue, pending, error
    writer,    \* the writer thread
    disk,      \* what is in the files, in order; a torn frame is LogNone
    accepted,  \* history: every item accepted
    drops,     \* records refused and not yet reported
    attempts,  \* history: records handed to the logger
    logLock,   \* holder of the runtime's log lock
    caller,    \* the recording and the closing threads
    live       \* the runtime's generation still records

logVars == <<lg, writer, disk, accepted, drops, attempts, logLock, caller, live>>

Closers == {"runtime", "host"}

Stop == [n |-> 0, count |-> 0]

(* A record carries its number, a queue_dropped event the count it reports.*)
LogRecord(n) == [n |-> n, count |-> 0]

LogReport(count) == [n |-> 0, count |-> count]

LogInit ==
    /\ lg = [state |-> "open", accepting |-> TRUE, free |-> QueueSize, queue |-> <<>>,
             pending |-> 0, error |-> FALSE]
    /\ writer = [pc |-> "get", item |-> LogNone]
    /\ disk = <<>>
    /\ accepted = <<>>
    /\ drops = 0
    /\ attempts = 0
    /\ logLock = LogNone
    /\ caller = [t \in Recorders \cup Closers |-> [pc |-> "idle", item |-> LogNone]]
    /\ live = TRUE

At(t, p) == caller[t].pc = p

Move(t, p) == caller' = [caller EXCEPT ![t].pc = p]

-----------------------------------------------------------------------------
(* Recording.                                                              *)

(* The log lock is taken; an outdated thread leaves again without a trace. *)
BeginRecord(t) ==
    /\ At(t, "idle")
    /\ logLock = LogNone
    /\ attempts < MaxRecords
    /\ live
    /\ logLock' = t
    /\ caller' = [caller EXCEPT ![t] =
                    IF drops > 0 THEN [pc |-> "report", item |-> LogReport(drops)]
                                 ELSE [pc |-> "reserve", item |-> LogRecord(attempts + 1)]]
    /\ attempts' = attempts + 1
    /\ UNCHANGED <<lg, writer, disk, accepted, drops, live>>

(* _reserve_capacity without waiting. *)
Reserve(t) ==
    /\ caller[t].pc \in {"report", "reserve"}
    /\ t \in Recorders
    /\ IF lg.free > 0 /\ lg.accepting
       THEN /\ lg' = [lg EXCEPT !.free = @ - 1]
            /\ Move(t, "prepared")
       ELSE /\ Move(t, "refused")
            /\ UNCHANGED lg
    /\ UNCHANGED <<writer, disk, accepted, drops, attempts, logLock, live>>

(* Serialising between reservation and commit may fail: the slot goes back.*)
SerializeFails(t) ==
    /\ At(t, "prepared")
    /\ t \in Recorders
    /\ lg' = [lg EXCEPT !.free = @ + 1]
    /\ Move(t, "refused")
    /\ UNCHANGED <<writer, disk, accepted, drops, attempts, logLock, live>>

Enqueue(t) ==
    /\ lg' = [lg EXCEPT !.queue = Append(@, caller[t].item), !.pending = @ + 1]
    /\ accepted' = Append(accepted, caller[t].item)
    /\ drops' = drops - caller[t].item.count

(* Mutant: a refusal after the reservation keeps the slot. *)
CommitReservedLeaking(t) ==
    /\ At(t, "prepared")
    /\ IF lg.accepting
       THEN Enqueue(t) /\ Move(t, "stored")
       ELSE Move(t, "refused") /\ UNCHANGED <<lg, accepted, drops>>
    /\ UNCHANGED <<writer, disk, attempts, logLock, live>>

(* _commit_reserved: the linearisation point; close may have come between. *)
CommitReserved(t) ==
    /\ At(t, "prepared")
    /\ IF lg.accepting
       THEN Enqueue(t) /\ Move(t, "stored")
       ELSE /\ lg' = [lg EXCEPT !.free = @ + 1]
            /\ Move(t, "refused")
            /\ UNCHANGED <<accepted, drops>>
    /\ UNCHANGED <<writer, disk, attempts, logLock, live>>

(* A report that was refused is not counted itself; the record follows.    *)
AfterReport(t) ==
    /\ caller[t].pc \in {"stored", "refused"}
    /\ t \in Recorders
    /\ caller[t].item.count > 0
    /\ caller' = [caller EXCEPT ![t] = [pc |-> "reserve", item |-> LogRecord(attempts)]]
    /\ UNCHANGED <<lg, writer, disk, accepted, drops, attempts, logLock, live>>

EndRecord(t) ==
    /\ caller[t].pc \in {"stored", "refused"}
    /\ t \in Recorders
    /\ caller[t].item.count = 0
    /\ drops' = IF At(t, "refused") THEN drops + 1 ELSE drops
    /\ logLock' = LogNone
    /\ caller' = [caller EXCEPT ![t] = [pc |-> "idle", item |-> LogNone]]
    /\ UNCHANGED <<lg, writer, disk, accepted, attempts, live>>

-----------------------------------------------------------------------------
(* The writer.                                                             *)

TakeItem ==
    /\ writer.pc = "get"
    /\ lg.queue # <<>>
    /\ lg' = [lg EXCEPT !.queue = Tail(@)]
    /\ writer' = IF Head(lg.queue) = Stop THEN [pc |-> "finalize", item |-> LogNone]
                 ELSE [pc |-> "write", item |-> Head(lg.queue)]
    /\ UNCHANGED <<disk, accepted, drops, attempts, logLock, caller, live>>

(* _complete_pending_item, then the slot is released. *)
Completed == [lg EXCEPT !.pending = @ - 1, !.free = @ + 1]

WriteItem ==
    /\ writer.pc = "write"
    /\ disk' = Append(disk, writer.item)
    /\ lg' = Completed
    /\ writer' = [pc |-> "get", item |-> LogNone]
    /\ UNCHANGED <<accepted, drops, attempts, logLock, caller, live>>

(* _write_all stops after nothing or after part of the frame. *)
WriteFails ==
    /\ writer.pc = "write"
    /\ \E torn \in BOOLEAN : disk' = IF torn THEN Append(disk, LogNone) ELSE disk
    /\ lg' = Completed
    /\ writer' = [pc |-> "failing", item |-> LogNone]
    /\ UNCHANGED <<accepted, drops, attempts, logLock, caller, live>>

Failed == [lg EXCEPT !.error = TRUE, !.accepting = FALSE]

RecordWorkerFailure ==
    /\ writer.pc = "failing"
    /\ lg' = Failed
    /\ writer' = [writer EXCEPT !.pc = "discard"]
    /\ UNCHANGED <<disk, accepted, drops, attempts, logLock, caller, live>>

DiscardItem ==
    /\ writer.pc = "discard"
    /\ IF lg.queue = <<>>
       THEN /\ writer' = [writer EXCEPT !.pc = "finalize"]
            /\ UNCHANGED lg
       ELSE /\ lg' = [IF Head(lg.queue) = Stop THEN lg ELSE Completed EXCEPT !.queue = Tail(@)]
            /\ UNCHANGED writer
    /\ UNCHANGED <<disk, accepted, drops, attempts, logLock, caller, live>>

(* _finalize_files: flush, fsync and close, each tried.  A failing flush   *)
(* loses a buffered tail.                                                  *)
FinalizeFiles ==
    /\ writer.pc = "finalize"
    /\ writer' = [writer EXCEPT !.pc = "done"]
    /\ \/ UNCHANGED <<lg, disk>>
       \/ /\ lg' = Failed
          /\ \E n \in 0..Len(disk), torn \in BOOLEAN :
               /\ torn => n < Len(disk)
               /\ disk' = SubSeq(disk, 1, n) \o (IF torn THEN <<LogNone>> ELSE <<>>)
    /\ UNCHANGED <<accepted, drops, attempts, logLock, caller, live>>

-----------------------------------------------------------------------------
(* Closing.                                                                *)

(* The runtime ends its generation, then waits for the log lock.           *)
RuntimeCloseBegin ==
    /\ At("runtime", "idle")
    /\ live
    /\ live' = FALSE
    /\ Move("runtime", "lock")
    /\ UNCHANGED <<lg, writer, disk, accepted, drops, attempts, logLock>>

RuntimeCloseLock ==
    /\ At("runtime", "lock")
    /\ logLock = LogNone
    /\ logLock' = "runtime"
    /\ caller' = [caller EXCEPT !["runtime"] =
                    IF drops > 0 THEN [pc |-> "terminal", item |-> LogReport(drops)]
                                 ELSE [pc |-> "close", item |-> LogNone]]
    /\ UNCHANGED <<lg, writer, disk, accepted, drops, attempts, live>>

(* The last report may wait for a slot, within its time limit. *)
TerminalReserve ==
    /\ At("runtime", "terminal")
    /\ \/ /\ lg.free > 0
          /\ lg' = IF lg.accepting THEN [lg EXCEPT !.free = @ - 1] ELSE lg
          /\ Move("runtime", IF lg.accepting THEN "prepared" ELSE "refused")
       \/ /\ lg.free = 0
          /\ Move("runtime", "refused")
          /\ UNCHANGED lg
    /\ UNCHANGED <<writer, disk, accepted, drops, attempts, logLock, live>>

TerminalDone ==
    /\ caller["runtime"].pc \in {"stored", "refused"}
    /\ caller' = [caller EXCEPT !["runtime"] = [pc |-> "close", item |-> LogNone]]
    /\ UNCHANGED <<lg, writer, disk, accepted, drops, attempts, logLock, live>>

(* InterfaceEventLogger.close: the first caller stops the queue and joins, *)
(* any other waits for it.                                                 *)
LogClose(c) ==
    /\ At(c, IF c = "runtime" THEN "close" ELSE "idle")
    /\ IF lg.state = "open"
       THEN /\ lg' = [lg EXCEPT !.state = "closing", !.accepting = FALSE,
                                !.queue = Append(@, Stop)]
            /\ Move(c, "join")
       ELSE Move(c, "settled") /\ UNCHANGED lg
    /\ UNCHANGED <<writer, disk, accepted, drops, attempts, logLock, live>>

LogJoin(c) ==
    /\ At(c, "join")
    /\ writer.pc = "done"
    /\ lg' = [lg EXCEPT !.state = IF lg.error THEN "failed" ELSE "closed"]
    /\ Move(c, "settled")
    /\ UNCHANGED <<writer, disk, accepted, drops, attempts, logLock, live>>

LogSettled(c) ==
    /\ At(c, "settled")
    /\ lg.state # "closing"
    /\ Move(c, "closed")
    /\ logLock' = IF c = "runtime" THEN LogNone ELSE logLock
    /\ UNCHANGED <<lg, writer, disk, accepted, drops, attempts, live>>

-----------------------------------------------------------------------------
WriterStep == TakeItem \/ WriteItem \/ WriteFails \/ RecordWorkerFailure \/ DiscardItem
                  \/ FinalizeFiles

Recording(t) == Reserve(t) \/ SerializeFails(t) \/ CommitReserved(t) \/ AfterReport(t)
                    \/ EndRecord(t)

RuntimeClosing == \/ RuntimeCloseLock \/ TerminalReserve \/ CommitReserved("runtime")
                  \/ TerminalDone \/ LogClose("runtime") \/ LogJoin("runtime")
                  \/ LogSettled("runtime")

HostClosing == LogJoin("host") \/ LogSettled("host")

LogNext == \/ WriterStep
           \/ \E t \in Recorders : BeginRecord(t) \/ Recording(t)
           \/ RuntimeCloseBegin \/ RuntimeClosing
           \/ LogClose("host") \/ HostClosing

(* Every call that has begun goes on; the writer thread always runs.       *)
LogFairness ==
    /\ WF_logVars(WriterStep)
    /\ \A t \in Recorders : WF_logVars(Recording(t))
    /\ WF_logVars(RuntimeClosing)
    /\ WF_logVars(HostClosing)

LogSpec == LogInit /\ [][LogNext]_logVars /\ LogFairness

-----------------------------------------------------------------------------
(* _iter_interface_log: what a reader gets back from a file, and whether   *)
(* it reaches the end; a torn frame or one past the limit stops it.        *)
ReadLog(file) ==
    LET bad == {i \in DOMAIN file : file[i] = LogNone \/ i > ReadLimit}
        n   == IF bad = {} THEN Len(file) ELSE Min(bad) - 1
    IN  [records |-> SubSeq(file, 1, n), ok |-> bad = {}]

Reported == FoldLeft(LAMBDA s, i : s + i.count, 0, accepted)

Held == {t \in DOMAIN caller : At(t, "prepared")}

Stored == SelectSeq(accepted, LAMBDA i : i.count = 0)

Unsettled == IF \E t \in Recorders : ~At(t, "idle")
             THEN IF \E t \in Recorders : At(t, "stored") /\ caller[t].item.count = 0 THEN 0 ELSE 1
             ELSE 0

(* Every record handed to the logger is stored, still waits to be reported *)
(* as dropped, or was reported in an accepted queue_dropped event; and     *)
(* every slot of the queue is free, reserved by one call or pending.  Both *)
(* hold through refusals, serialisation and writer failures and close.     *)
LogAccounting ==
    /\ attempts = Len(Stored) + drops + Reported + Unsettled
    /\ lg.free + lg.pending + Cardinality(Held) = QueueSize
    /\ lg.pending >= 0

(* The files hold accepted items only, in the order they were accepted;    *)
(* a log that closed without error gives every one of them back to the     *)
(* reader, up to the reader's limit.                                       *)
LogIsFaithful ==
    LET back == ReadLog(disk)
    IN  /\ IsPrefix(back.records, accepted)
        /\ lg.state = "closed" =>
              /\ disk = accepted
              /\ back.ok \/ Len(accepted) > ReadLimit

(* A close that has begun ends, with the writer gone and no caller stuck.  *)
LogCloseEnds ==
    \A c \in Closers :
        caller[c].pc \in {"lock", "close", "join", "settled"} ~> At(c, "closed") /\ writer.pc = "done"

(* The log loses nothing it does not own up to, gives back what it took,   *)
(* and can be closed.                                                      *)
LogKeepsItsWord == [](LogAccounting /\ LogIsFaithful) /\ LogCloseEnds
=============================================================================
