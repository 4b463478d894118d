----------------------------- MODULE DirectProgram -----------------------------
(***************************************************************************)
(* The whole of v4l2-mfc-drm-direct: DirectSetup until the threads start,  *)
(* DrmDirect while they run, and DirectSetup again when both have ended.   *)
(* The devices go on all the time.                                         *)
(***************************************************************************)
EXTENDS DrmDirect, DirectSetup

ASSUME ProgramAssumption == NInput = NSrc /\ NDest = NPages

programVars == <<vars, setupVars>>

ProgramInit == Init /\ SetupInit

(* The threads run; main takes down what it has set up when it has joined  *)
(* the presentation thread.                                                *)
RunMain == step = "run" /\ Main /\ UNCHANGED setupVars

RunPresentation == step = "run" /\ presentation_thread /\ UNCHANGED setupVars

JoinThreads == mpc = "done" /\ Joined /\ UNCHANGED vars

(* The commit that restores the display waits for the flip under way.      *)
TakeDown == Teardown /\ (step = "freePages" => flipping = None) /\ UNCHANGED vars

(* Closing the MFC's file stops it.                                        *)
RunMfc == "mfcFd" \in live /\ (MfcDecode \/ MfcDeliver) /\ UNCHANGED setupVars

RunDisplay == Vblank /\ UNCHANGED setupVars

SetUp == Setup /\ UNCHANGED vars

ProgramNext ==
  SetUp \/ RunMain \/ RunPresentation \/ JoinThreads \/ TakeDown \/ RunMfc \/ RunDisplay

(* main goes on with its set-up, and the threads, when they run, go on when*)
(* they can; no call has to fail, so that one that blocks is not saved by  *)
(* an error.  The devices work.                                            *)
ProgramSpec ==
  /\ ProgramInit /\ [][ProgramNext]_programVars
  /\ WF_programVars(SetUp)
  /\ WF_programVars(RunMain /\ faults' = faults)
  /\ WF_programVars(RunPresentation /\ faults' = faults)
  /\ WF_programVars(MfcDecode /\ RunMfc) /\ WF_programVars(MfcDeliver /\ RunMfc)
  /\ WF_programVars(RunDisplay)

-----------------------------------------------------------------------------
ProgramTypeOK == TypeOK /\ SetupTypeOK

(* The memory of a page outlives its users: the MFC as long as its file is *)
(* open, and the display as long as a flip to the page is under way.       *)
PagesOutliveDevices ==
  step \in {"run"} \cup TeardownSteps /\ ~failed =>
    \A p \in DestPages :
      ("mfcFd" \in live /\ p \in AtMfc) \/ p = flipping => "video" \in parts[p]

(* Unless a call fails main comes to the decoding, and the whole stream is *)
(* fed to the MFC whatever the speed of the threads: pages keep circulating*)
(* between the MFC and the display.                                        *)
StreamIsFed == <>(parsed = NFrames \/ faults > 0 \/ failed)
=============================================================================
