------------------------------- MODULE Capture -------------------------------
(***************************************************************************)
(* Recording a drive from the dashboard: the capture controls              *)
(* (dashboard.py), the manual loop that serves them (manual_demo.py), the  *)
(* C++ Recorder child and the thread that waits for it and exports         *)
(* (runsim_v2_recorder.py), the Export process (stage4_export.cpp), the    *)
(* older pose capture with its reconstruction process (manual_capture.py,  *)
(* manual_mid360_reconstruction.py) and the compression of a finished      *)
(* session (mcap_compression.py).                                          *)
(*                                                                         *)
(* A capture is a number; its directory is hidden ("staging") until it is  *)
(* published.  A path is <<capture, place>>; it exists while the capture's *)
(* directory is at that place.  What the Recorder does inside its window   *)
(* is the module Recorder.  The simulation may be killed at any step and   *)
(* started again over the same output root; its children may outlive it.   *)
(***************************************************************************)
EXTENDS Integers, Sequences, FiniteSets

CONSTANTS
    MaxCaptures,     \* bound on captures
    MaxAsks,         \* bound on queued requests of the dashboard
    MaxRestarts      \* bound on runs that are killed

VARIABLES
    ui,              \* the capture controls of the dashboard
    asks,            \* _pending_capture_actions
    loop,            \* the locals of run_manual_demo
    outcomes,        \* v2_capture_results and compression_results
    child,           \* Recorder, or reconstruction process, of each capture
    thread,          \* finalize_v2_capture of each capture
    dir,             \* directory of each capture: place and files
    marker,          \* last-successful-lvx2.json
    restarts

captureVars == <<ui, asks, loop, outcomes, child, thread, dir, marker, restarts>>

Captures == 1..MaxCaptures
NoPath == <<0, "nowhere">>
Exists(path) == path[1] \in Captures /\ dir[path[1]].place = path[2]
Whole == {"mcap", "rebound", "export", "export_result", "manifest"}

FreshUi == [state |-> "IDLE", pending |-> FALSE, mcap |-> NoPath, lvx2 |-> NoPath,
            compressing |-> FALSE]
FreshLoop == [running |-> TRUE, recorder |-> 0, exporting |-> FALSE, deadline |-> FALSE,
              output |-> 0, session |-> 0, process |-> 0]
CaptureInit ==
    /\ ui = FreshUi /\ asks = <<>> /\ loop = FreshLoop /\ outcomes = <<>>
    /\ child = [n \in Captures |-> "none"]
    /\ thread = [n \in Captures |-> "none"]
    /\ dir = [n \in Captures |-> [place |-> "none", files |-> {}]]
    /\ marker = 0 /\ restarts = 0

-----------------------------------------------------------------------------
(* The dashboard's requests and the results it is shown. *)
Ask(kind, path) == asks' = Append(asks, [kind |-> kind, path |-> path])

Idle == ui.state \in {"IDLE", "COMPLETED", "FAILED"}

(* The start button stays usable until the loop has served the request. *)
RequestStart ==
    /\ loop.running /\ Idle /\ Len(asks) < MaxAsks
    /\ Ask("start", NoPath)
    /\ ui' = [ui EXCEPT !.pending = TRUE]
    /\ UNCHANGED <<loop, outcomes, child, thread, dir, marker, restarts>>

(* The operator, or the loop when the time limit of a v2 capture is over. *)
RequestStop ==
    /\ loop.running /\ ui.state = "RECORDING" /\ Len(asks) < MaxAsks
    /\ Ask("stop", NoPath)
    /\ loop' \in {loop, [loop EXCEPT !.deadline = FALSE]}
    /\ UNCHANGED <<ui, outcomes, child, thread, dir, marker, restarts>>

RequestCompression ==
    /\ loop.running /\ ui.state = "COMPLETED" /\ ui.mcap # NoPath /\ ~ui.compressing
    /\ Len(asks) < MaxAsks
    /\ Ask("compress", ui.mcap)
    /\ ui' = [ui EXCEPT !.compressing = TRUE]
    /\ UNCHANGED <<loop, outcomes, child, thread, dir, marker, restarts>>

SetRecording(u) == [u EXCEPT !.state = "RECORDING", !.pending = FALSE]
SetCompleted(u, mcap, lvx2) ==
    [u EXCEPT !.state = "COMPLETED", !.mcap = mcap, !.lvx2 = lvx2, !.compressing = FALSE]
SetFailed(u) == [FreshUi EXCEPT !.state = "FAILED"]

-----------------------------------------------------------------------------
(* The manual loop takes one request in an iteration. *)
Unused == {n \in Captures : dir[n].place = "none"}
NextCapture == CHOOSE n \in Unused : \A k \in Unused : n <= k

Takes(kind) == loop.running /\ asks # <<>> /\ Head(asks).kind = kind

V2Idle == loop.recorder = 0 /\ ~loop.exporting

(* prepare_capture_output_dirs, RunSimV2Recorder.launch and start: the     *)
(* child runs, or the failure is shown and its directory stays behind.     *)
StartV2(ok) ==
    /\ Takes("start") /\ V2Idle /\ Unused # {}
    /\ LET n == NextCapture
       IN  /\ dir' = [dir EXCEPT ![n].place = "staging"]
           /\ child' = [child EXCEPT ![n] = IF ok THEN "recording" ELSE "dead"]
           /\ loop' = IF ok THEN [loop EXCEPT !.recorder = n, !.output = n, !.deadline = TRUE]
                      ELSE [loop EXCEPT !.output = 0]
    /\ ui' = IF ok THEN SetRecording(ui) ELSE SetFailed(ui)
    /\ asks' = Tail(asks)
    /\ UNCHANGED <<outcomes, thread, marker, restarts>>

(* While a v2 capture is recorded or exported a start opens the older pose *)
(* capture, if none is open.                                               *)
StartPoses ==
    /\ Takes("start") /\ ~V2Idle
    /\ IF loop.session = 0 /\ loop.process = 0 /\ Unused # {}
       THEN /\ loop' = [loop EXCEPT !.session = NextCapture]
            /\ dir' = [dir EXCEPT ![NextCapture] = [place |-> "published", files |-> {"scene"}]]
            /\ ui' = SetRecording(ui)
       ELSE UNCHANGED <<loop, dir, ui>>
    /\ asks' = Tail(asks)
    /\ UNCHANGED <<outcomes, child, thread, marker, restarts>>

(* The end of run_manual_demo: an open pose capture is aborted, the        *)
(* Recorder the loop still holds is stopped or killed, the reconstruction  *)
(* is terminated.  Daemon threads end with the process.                    *)
CleanUp(recorder) ==
    /\ dir' = IF loop.session = 0 THEN dir
              ELSE [dir EXCEPT ![loop.session].files = @ \cup {"aborted"}]
    /\ child' = [n \in Captures |->
                   IF n = recorder /\ child[n] = "recording" THEN "stopping"
                   ELSE IF n = loop.process /\ child[n] = "rebuilding" THEN "dead"
                   ELSE child[n]]

(* The Recorder is asked to stop and a thread waits for it.  A Recorder    *)
(* that is dead already raises out of the loop and ends the run.           *)
StopV2 ==
    /\ Takes("stop") /\ loop.recorder # 0
    /\ LET n == loop.recorder
       IN  IF child[n] = "recording"
           THEN /\ child' = [child EXCEPT ![n] = "stopping"]
                /\ loop' = [loop EXCEPT !.recorder = 0, !.exporting = TRUE, !.deadline = FALSE]
                /\ thread' = [thread EXCEPT ![n] = "wait"]
                /\ ui' = [ui EXCEPT !.state = "GENERATING"]
                /\ UNCHANGED dir
           ELSE /\ loop' = [loop EXCEPT !.recorder = 0, !.exporting = TRUE, !.deadline = FALSE,
                                        !.running = FALSE]
                /\ CleanUp(0)
                /\ UNCHANGED <<thread, ui>>
    /\ asks' = Tail(asks)
    /\ UNCHANGED <<outcomes, marker, restarts>>

(* The pose capture is finished and reconstructed in a process. *)
StopPoses ==
    /\ Takes("stop") /\ loop.recorder = 0
    /\ IF loop.session # 0
       THEN /\ dir' = [dir EXCEPT ![loop.session].files = @ \cup {"receipt"}]
            /\ child' = [child EXCEPT ![loop.session] = "rebuilding"]
            /\ loop' = [loop EXCEPT !.process = loop.session, !.session = 0, !.output = loop.session]
            /\ ui' = [ui EXCEPT !.state = "GENERATING"]
       ELSE UNCHANGED <<dir, child, loop, ui>>
    /\ asks' = Tail(asks)
    /\ UNCHANGED <<outcomes, thread, marker, restarts>>

(* compress_mcap_zstd in a thread: it needs the file at the shown path and *)
(* refuses to overwrite an earlier copy.                                   *)
Compress ==
    /\ Takes("compress")
    /\ LET path == Head(asks).path
           able == Exists(path) /\ "zstd" \notin dir[path[1]].files
       IN  \E ok \in {FALSE, able} :
              /\ dir' = IF ok THEN [dir EXCEPT ![path[1]].files = @ \cup {"zstd"}] ELSE dir
              /\ outcomes' = Append(outcomes, [kind |-> "compress", ok |-> ok, n |-> path[1]])
    /\ asks' = Tail(asks)
    /\ UNCHANGED <<ui, loop, child, thread, marker, restarts>>

(* The loop shows what the threads and the reconstruction have returned.   *)
(* The session of a v2 capture is shown where the Recorder wrote it.       *)
ShowOutcome ==
    /\ loop.running /\ outcomes # <<>>
    /\ LET o == Head(outcomes)
       IN  /\ loop' = IF o.kind = "v2" THEN [loop EXCEPT !.exporting = FALSE] ELSE loop
           /\ ui' = IF o.kind = "compress" THEN [ui EXCEPT !.compressing = FALSE]
                    ELSE IF o.ok THEN SetCompleted(ui, <<o.n, "staging">>, <<o.n, "published">>)
                    ELSE SetFailed(ui)
    /\ outcomes' = Tail(outcomes)
    /\ UNCHANGED <<asks, child, thread, dir, marker, restarts>>

ShowReconstruction ==
    /\ loop.running /\ loop.process # 0 /\ child[loop.process] \in {"rebuilt", "dead"}
    /\ ui' = IF child[loop.process] = "rebuilt"
             THEN SetCompleted(ui, <<loop.process, "published">>, <<loop.process, "published">>)
             ELSE SetFailed(ui)
    /\ loop' = [loop EXCEPT !.process = 0]
    /\ UNCHANGED <<asks, outcomes, child, thread, dir, marker, restarts>>

-----------------------------------------------------------------------------
(* The Recorder child: it writes its session and a clean receipt and exits, *)
(* or it fails; the module Recorder says when.                              *)
RecorderEnds(n) ==
    /\ child[n] \in {"recording", "stopping"}
    /\ \/ /\ child[n] = "stopping"
          /\ child' = [child EXCEPT ![n] = "done"]
          /\ dir' = [dir EXCEPT ![n].files = @ \cup {"mcap", "receipt"}]
       \/ child' = [child EXCEPT ![n] = "dead"] /\ dir' = dir
    /\ UNCHANGED <<ui, asks, loop, outcomes, thread, marker, restarts>>

(* The reconstruction writes a session and runs Export, or reports an      *)
(* error, or dies without a word.                                          *)
ReconstructionEnds(n) ==
    /\ child[n] = "rebuilding"
    /\ \/ /\ child' = [child EXCEPT ![n] = "rebuilt"]
          /\ dir' = [dir EXCEPT ![n].files = @ \cup {"mcap", "export", "export_result"}]
       \/ child' = [child EXCEPT ![n] = "dead"] /\ dir' = dir
    /\ UNCHANGED <<ui, asks, loop, outcomes, thread, marker, restarts>>

-----------------------------------------------------------------------------
(* finalize_v2_capture: wait_for_success, then export.                      *)
At(n, place) == loop.running /\ thread[n] = place
Go(n, place) == thread' = [thread EXCEPT ![n] = place]

Report(n, ok) ==
    /\ outcomes' = Append(outcomes, [kind |-> "v2", ok |-> ok, n |-> n])
    /\ Go(n, "ended")

(* The Recorder exited cleanly, or not, or not within 15 s: then it is     *)
(* left running.                                                           *)
WaitForSuccess(n) ==
    /\ At(n, "wait")
    /\ \/ child[n] = "done" /\ Go(n, "convert") /\ UNCHANGED outcomes
       \/ child[n] # "done" /\ Report(n, FALSE)
    /\ UNCHANGED <<ui, asks, loop, child, dir, marker, restarts>>

(* Mutant: an export that failed is not reported. *)
GiveUpSilently(n) ==
    /\ thread[n] \in {"convert", "link", "check", "rebind", "manifest", "rename", "mark"}
    /\ loop.running
    /\ dir' = IF dir[n].place = "staging"
              THEN [dir EXCEPT ![n].files = @ \cup {"incomplete"}] ELSE dir
    /\ Go(n, "ended")
    /\ UNCHANGED <<ui, asks, loop, outcomes, child, marker, restarts>>

(* Any step of the export may raise: a directory that is still hidden is   *)
(* marked as incomplete, Export takes back what it published, and the      *)
(* failure is reported.                                                    *)
GiveUp(n) ==
    /\ thread[n] \in {"convert", "link", "check", "rebind", "manifest", "rename", "mark"}
    /\ loop.running
    /\ dir' = IF dir[n].place = "staging"
              THEN [dir EXCEPT ![n].files = (IF thread[n] = "link" THEN @ \ {"export"} ELSE @)
                                            \cup {"incomplete"}]
              ELSE dir
    /\ Report(n, FALSE)
    /\ UNCHANGED <<ui, asks, loop, child, marker, restarts>>

(* RunExport converts in a directory of its own, publishes it with one     *)
(* rename, and then links its result.                                      *)
ConvertAndPublish(n) ==
    /\ thread[n] = "convert"
    /\ dir' = [dir EXCEPT ![n].files = @ \cup {"export"}]
    /\ Go(n, "link")
    /\ UNCHANGED <<ui, asks, loop, outcomes, child, marker, restarts>>

LinkResult(n) ==
    /\ thread[n] = "link"
    /\ dir' = [dir EXCEPT ![n].files = @ \cup {"export_result"}]
    /\ Go(n, "check")
    /\ UNCHANGED <<ui, asks, loop, outcomes, child, marker, restarts>>

(* Export goes on when the run that started it is gone. *)
ExportAlone(n) ==
    /\ thread[n] = "orphan"
    /\ dir' = [dir EXCEPT ![n].files = @ \cup {"export", "export_result"}]
    /\ Go(n, "ended")
    /\ UNCHANGED <<ui, asks, loop, outcomes, child, marker, restarts>>

(* publish_capture_output: the artifacts are there; the Recorder's receipt *)
(* is rewritten for the final place; the manifest is written; the          *)
(* directory gets its final name.                                          *)
CheckArtifacts(n) ==
    /\ At(n, "check")
    /\ {"mcap", "receipt", "export", "export_result"} \subseteq dir[n].files
    /\ Go(n, "rebind")
    /\ UNCHANGED <<ui, asks, loop, outcomes, child, dir, marker, restarts>>

RebindReceipt(n) ==
    /\ At(n, "rebind")
    /\ dir' = [dir EXCEPT ![n].files = (@ \ {"receipt"}) \cup {"rebound"}]
    /\ Go(n, "manifest")
    /\ UNCHANGED <<ui, asks, loop, outcomes, child, marker, restarts>>

WriteManifest(n) ==
    /\ At(n, "manifest")
    /\ dir' = [dir EXCEPT ![n].files = @ \cup {"manifest"}]
    /\ Go(n, "rename")
    /\ UNCHANGED <<ui, asks, loop, outcomes, child, marker, restarts>>

RenameDirectory(n) ==
    /\ At(n, "rename")
    /\ dir' = [dir EXCEPT ![n].place = "published"]
    /\ Go(n, "mark")
    /\ UNCHANGED <<ui, asks, loop, outcomes, child, marker, restarts>>

(* write_latest_successful_lvx2_path *)
WriteMarker(n) ==
    /\ At(n, "mark")
    /\ marker' = n
    /\ Report(n, TRUE)
    /\ UNCHANGED <<ui, asks, loop, child, dir, restarts>>

-----------------------------------------------------------------------------
(* The window is closed, or something raised. *)
EndRun ==
    /\ loop.running
    /\ loop' = [loop EXCEPT !.running = FALSE]
    /\ CleanUp(loop.recorder)
    /\ UNCHANGED <<ui, asks, outcomes, thread, marker, restarts>>

Kill ==
    /\ loop.running
    /\ loop' = [loop EXCEPT !.running = FALSE]
    /\ UNCHANGED <<ui, asks, outcomes, child, thread, dir, marker, restarts>>

(* A new run over the same output root shows the last successful capture.  *)
Restart ==
    /\ ~loop.running /\ restarts < MaxRestarts
    /\ restarts' = restarts + 1
    /\ loop' = FreshLoop /\ asks' = <<>> /\ outcomes' = <<>>
    /\ thread' = [n \in Captures |-> IF thread[n] \in {"convert", "link"} THEN "orphan" ELSE "ended"]
    /\ ui' = IF marker # 0 /\ Exists(<<marker, "published">>)
             THEN SetCompleted(FreshUi, <<marker, "published">>, <<marker, "published">>)
             ELSE FreshUi
    /\ UNCHANGED <<child, dir, marker>>

LoopStep ==
    \/ \E ok \in BOOLEAN : StartV2(ok)
    \/ StartPoses \/ StopV2 \/ StopPoses \/ Compress \/ ShowOutcome \/ ShowReconstruction

ThreadStep(n) ==
    \/ WaitForSuccess(n) \/ GiveUp(n) \/ ConvertAndPublish(n) \/ LinkResult(n)
    \/ CheckArtifacts(n) \/ RebindReceipt(n) \/ WriteManifest(n) \/ RenameDirectory(n)
    \/ WriteMarker(n)

CaptureNext ==
    \/ RequestStart \/ RequestStop \/ RequestCompression
    \/ LoopStep \/ EndRun \/ Kill \/ Restart
    \/ \E n \in Captures : RecorderEnds(n) \/ ReconstructionEnds(n) \/ ThreadStep(n) \/ ExportAlone(n)

(* The loop iterates, threads run, and the reconstruction ends; the        *)
(* operator, a failure and the end of a Recorder are not forced.           *)
CaptureFairness ==
    /\ WF_captureVars(LoopStep)
    /\ \A n \in Captures : WF_captureVars(ThreadStep(n)) /\ WF_captureVars(ReconstructionEnds(n))

CaptureSpec == CaptureInit /\ [][CaptureNext]_captureVars /\ CaptureFairness

-----------------------------------------------------------------------------
(* Wherever the run is killed, a v2 capture directory with a final name    *)
(* holds the session, the rebound receipt, the export, its result and the  *)
(* manifest, and the marker names only such a directory; so a restarted    *)
(* run never offers a capture that is not whole.                           *)
FinalNameIsWhole ==
    /\ \A n \in Captures :
          dir[n].place = "published" /\ "scene" \notin dir[n].files => Whole \subseteq dir[n].files
    /\ marker # 0 => dir[marker].place = "published" /\ Whole \subseteq dir[marker].files

(* A capture that is being generated is whole once it has its name, and is *)
(* settled: the controls show it as completed or failed, and the structure *)
(* controls are free again, unless the run ends.                           *)
GeneratingSettles ==
    /\ []FinalNameIsWhole
    /\ ui.state = "GENERATING" ~> (ui.state # "GENERATING" \/ ~loop.running)
=============================================================================
