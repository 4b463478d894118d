----------------------------- MODULE DirectSetup -----------------------------
(***************************************************************************)
(* v4l2-mfc-drm-direct: what main sets up before it decodes and takes down *)
(* afterwards, also when a call fails half-way.  The objects are those of  *)
(* ExynosDRM, its buffers and pages, MFCDecoder and InputFile; main calls  *)
(* each method once and in the order of the steps, in one thread, so that a*)
(* step is a whole method with one of its outcomes.                        *)
(*                                                                         *)
(* Releasing an object that is not there, or using it, is undefined: the   *)
(* program goes on or crashes.                                             *)
(***************************************************************************)
EXTENDS Integers, Sequences, FiniteSets

CONSTANTS
  NInput,  \* input_buffer_count
  NDest    \* pages that ExynosDRM::alloc_pages allocates

ASSUME SetupAssumption == NInput \in Nat \ {0} /\ NDest \in Nat \ {0}

Buffers   == 1 .. NInput
DestPages == 1 .. NDest

VARIABLES
  step,       \* the next thing main does; "run" while it decodes
  flags,      \* ExynosDRM::flags
  mfcFlags,   \* MFCDecoder::flags
  live,       \* the objects that exist, those of buffers and pages left out
  bufs,       \* the buffers with memory, input_buffers of main
  parts,      \* what exists of each page
  pageFlags,  \* ExynosPage::flags
  uninit,     \* members that were never written although they are used
  misused,    \* objects released or used while they do not exist
  failed      \* main has caught an exception

setupVars == <<step, flags, mfcFlags, live, bufs, parts, pageFlags, uninit, misused, failed>>

SetupSteps ==
  {"openInput", "openDrm", "init", "allocBuffers", "openMfc", "setSource", "initMfc",
   "allocPages", "queueFirst"}
TeardownSteps ==
  {"deleteMfc", "freePages", "freeBuffers", "deinit", "closeDrm", "deleteInput", "leave"}

Objects ==
  {"inputFd", "inputMap", "fd", "CommonDRM", "fh", "blob", "device", "restore_request",
   "modeset_request", "mfcFd", "qh"}

(* In the order of alloc_overlay, alloc_video, add_overlay, add_video and  *)
(* create_request; the overlay comes with its renderer.                    *)
PartOrder == <<"overlay", "video", "fbOverlay", "fbVideo", "request">>
Parts     == {PartOrder[i] : i \in DOMAIN PartOrder}

SetupTypeOK ==
  /\ step \in SetupSteps \cup {"run"} \cup TeardownSteps \cup {"exit", "crashed"}
  /\ flags \subseteq {"opened", "initialized", "buffers_alloced", "pages_alloced"}
  /\ mfcFlags \subseteq {"opened", "parser_set", "source_set", "initialized"}
  /\ live \subseteq Objects /\ bufs \subseteq Buffers
  /\ parts \in [DestPages -> SUBSET Parts]
  /\ pageFlags \in [DestPages -> SUBSET {"allocated", "added", "req_created"}]
  /\ uninit \subseteq {"blob", "restore_request"} /\ misused \subseteq Objects
  /\ failed \in BOOLEAN

SetupInit ==
  /\ step = "openInput" /\ flags = {} /\ mfcFlags = {} /\ live = {} /\ bufs = {}
  /\ parts = [p \in DestPages |-> {}] /\ pageFlags = [p \in DestPages |-> {}]
  /\ uninit = {} /\ misused = {} /\ failed = FALSE

pageVars == <<parts, pageFlags>>

(* The exception that main throws when a method returns false.             *)
Throw == step' = "deleteMfc" /\ failed' = TRUE

Done(s) == step' = s /\ UNCHANGED failed

(* The objects are released in one go.                                     *)
Release(objects) ==
  /\ misused' = misused \cup (objects \ live)
  /\ live' = live \ objects

-----------------------------------------------------------------------------
(* The set-up                                                              *)

(* InputFile::open and Parser::link                                        *)
OpenInput ==
  /\ step = "openInput"
  /\ live' = live \cup {"inputFd", "inputMap"} /\ Done("openDrm")
  /\ UNCHANGED <<flags, mfcFlags, bufs, pageVars, uninit, misused>>

(* A file that cannot be mapped stays open.                                *)
OpenInputFails ==
  /\ step = "openInput"
  /\ live' \in {live, live \cup {"inputFd"}} /\ Throw
  /\ UNCHANGED <<flags, mfcFlags, bufs, pageVars, uninit, misused>>

(* ExynosDRM::open                                                         *)
OpenDrm ==
  /\ step = "openDrm"
  /\ live' = live \cup {"fd", "CommonDRM"} /\ flags' = flags \cup {"opened"}
  /\ Done("init")
  /\ UNCHANGED <<mfcFlags, bufs, pageVars, uninit, misused>>

(* These release what they have created before they return false.          *)
MethodFails ==
  /\ step \in {"openDrm", "init", "allocBuffers", "openMfc", "initMfc"}
  /\ Throw
  /\ UNCHANGED <<flags, mfcFlags, live, bufs, pageVars, uninit, misused>>

(* ExynosDRM::init                                                         *)
InitDrm ==
  /\ step = "init"
  /\ live' = live \cup {"fh", "blob"} /\ flags' = flags \cup {"initialized"}
  /\ Done("allocBuffers")
  /\ UNCHANGED <<mfcFlags, bufs, pageVars, uninit, misused>>

(* drmModeCreatePropertyBlob fails: the flip handler is deleted, and init  *)
(* goes on.                                                                *)
BlobFails ==
  /\ step = "init"
  /\ uninit' = uninit \cup {"blob"} /\ flags' = flags \cup {"initialized"}
  /\ Done("allocBuffers")
  /\ UNCHANGED <<mfcFlags, live, bufs, pageVars, misused>>

(* ExynosDRM::alloc_buffers; when it fails the buffers and the device are  *)
(* destroyed.                                                              *)
AllocBuffers ==
  /\ step = "allocBuffers"
  /\ live' = live \cup {"device"} /\ bufs' = Buffers
  /\ flags' = flags \cup {"buffers_alloced"}
  /\ Done("openMfc")
  /\ UNCHANGED <<mfcFlags, pageVars, uninit, misused>>

(* MFCDecoder::open and set_parser                                         *)
OpenMfc ==
  /\ step = "openMfc"
  /\ live' = live \cup {"mfcFd", "qh"} /\ mfcFlags' = mfcFlags \cup {"opened", "parser_set"}
  /\ Done("setSource")
  /\ UNCHANGED <<flags, bufs, pageVars, uninit, misused>>

(* MFCDecoder::set_source                                                  *)
SetSource ==
  /\ step = "setSource"
  /\ \/ mfcFlags' = mfcFlags \cup {"source_set"} /\ Done("initMfc")
     \/ Throw /\ UNCHANGED mfcFlags
  /\ UNCHANGED <<flags, live, bufs, pageVars, uninit, misused>>

(* MFCDecoder::init                                                        *)
InitMfc ==
  /\ step = "initMfc"
  /\ mfcFlags' = mfcFlags \cup {"initialized"} /\ Done("allocPages")
  /\ UNCHANGED <<flags, live, bufs, pageVars, uninit, misused>>

-----------------------------------------------------------------------------
(* ExynosDRM::alloc_pages                                                  *)

Built(n) == {PartOrder[i] : i \in 1 .. n}

FlagsOf_AtTheEnd(n) == IF n = 5 THEN {"allocated", "added", "req_created"} ELSE {}

(* The flags of a page of which n parts exist.                             *)
FlagsOf(n) ==
  (IF n >= 2 THEN {"allocated"} ELSE {}) \cup (IF n >= 4 THEN {"added"} ELSE {})
    \cup (IF n = 5 THEN {"req_created"} ELSE {})

(* ~ExynosPage: what is left of the parts p of a page with flags f.        *)
(* drmModeRmFB gets a framebuffer where it expects the device, and removes *)
(* none.                                                                   *)
Destroyed(p, f) ==
  p \ ((IF "req_created" \in f THEN {"request"} ELSE {})
         \cup (IF "allocated" \in f THEN {"overlay", "video"} ELSE {}))

(* The kernel refuses the initial modeset without the blob of the mode.    *)
AllocPages ==
  /\ step = "allocPages" /\ "blob" \in live
  /\ parts' = [p \in DestPages |-> Parts] /\ pageFlags' = [p \in DestPages |-> FlagsOf(5)]
  /\ live' = live \cup {"restore_request", "modeset_request"}
  /\ flags' = flags \cup {"pages_alloced"}
  /\ Done("queueFirst")
  /\ UNCHANGED <<mfcFlags, bufs, uninit, misused>>

(* No planes or no valid video; or the modeset request fails: the request  *)
(* to restore the display is freed again.                                  *)
PlanesFail ==
  /\ step = "allocPages"
  /\ Throw
  /\ UNCHANGED <<flags, mfcFlags, live, bufs, pageVars, uninit, misused>>

(* restore_request is freed although it has not been written.              *)
RestoreRequestFails ==
  /\ step = "allocPages"
  /\ uninit' = uninit \cup {"restore_request"} /\ Release({"restore_request"})
  /\ Throw
  /\ UNCHANGED <<flags, mfcFlags, bufs, pageVars>>

(* The n-th part of page k fails, or the initial modeset does when all     *)
(* pages are complete: the pages are destroyed and both requests freed.    *)
PageFails ==
  /\ step = "allocPages"
  /\ \E k \in DestPages, n \in 0 .. 5 :
       /\ n = 5 => k = NDest
       /\ parts' = [p \in DestPages |-> IF p < k THEN Destroyed(Parts, FlagsOf(5))
                                    ELSE IF p = k THEN Destroyed(Built(n), FlagsOf(n)) ELSE {}]
  /\ Throw
  /\ UNCHANGED <<flags, mfcFlags, live, bufs, pageFlags, uninit, misused>>

(* MFCDecoder::queue_dest for the first pages                              *)
QueueFirst ==
  /\ step = "queueFirst"
  /\ Done("run") \/ Throw
  /\ UNCHANGED <<flags, mfcFlags, live, bufs, pageVars, uninit, misused>>

-----------------------------------------------------------------------------
(* The teardown                                                            *)

Joined_DrmFirst ==
  /\ step = "run"
  /\ Done("freePages")
  /\ UNCHANGED <<flags, mfcFlags, live, bufs, pageVars, uninit, misused>>

(* The threads have ended; the decoder is deleted before the pages.        *)
Joined ==
  /\ step = "run"
  /\ Done("deleteMfc")
  /\ UNCHANGED <<flags, mfcFlags, live, bufs, pageVars, uninit, misused>>

(* A method that finds its flag not set returns.                           *)
Skip(s, flag, n) ==
  /\ step = s /\ flag \notin flags
  /\ Done(n)
  /\ UNCHANGED <<flags, mfcFlags, live, bufs, pageVars, uninit, misused>>

DeleteMfc ==
  /\ step = "deleteMfc"
  /\ IF "opened" \in mfcFlags
     THEN Release({"qh", "mfcFd"}) /\ mfcFlags' = mfcFlags \ {"opened"}
     ELSE UNCHANGED <<live, misused, mfcFlags>>
  /\ Done("freePages")
  /\ UNCHANGED <<flags, bufs, pageVars, uninit>>

(* free_pages and ~ExynosPage; the result of the commit that restores the  *)
(* display changes nothing.                                                *)
FreePages ==
  /\ step = "freePages" /\ "pages_alloced" \in flags
  /\ parts' = [p \in DestPages |-> Destroyed(parts[p], pageFlags[p])]
  /\ pageFlags' = [p \in DestPages |-> {}]
  /\ Release({"restore_request", "modeset_request"})
  /\ flags' = flags \ {"pages_alloced"}
  /\ Done("freeBuffers")
  /\ UNCHANGED <<mfcFlags, bufs, uninit>>

FreeBuffers_Unguarded ==
  /\ step = "freeBuffers"
  /\ Release({"device"}) /\ flags' = flags \ {"buffers_alloced"}
  /\ Done("deinit")
  /\ UNCHANGED <<mfcFlags, bufs, pageVars, uninit>>

FreeBuffers ==
  /\ step = "freeBuffers" /\ "buffers_alloced" \in flags
  /\ IF "pages_alloced" \in flags THEN UNCHANGED <<live, misused, flags>>
     ELSE Release({"device"}) /\ flags' = flags \ {"buffers_alloced"}
  /\ Done("deinit")
  /\ UNCHANGED <<mfcFlags, bufs, pageVars, uninit>>

Deinit_FlagKept ==
  /\ step = "deinit" /\ "initialized" \in flags
  /\ IF "buffers_alloced" \in flags THEN UNCHANGED <<live, misused, flags>>
     ELSE Release({"blob", "fh"}) /\ UNCHANGED flags
  /\ Done("closeDrm")
  /\ UNCHANGED <<mfcFlags, bufs, pageVars, uninit>>

Deinit ==
  /\ step = "deinit" /\ "initialized" \in flags
  /\ IF "buffers_alloced" \in flags THEN UNCHANGED <<live, misused, flags>>
     ELSE Release({"blob", "fh"}) /\ flags' = flags \ {"initialized"}
  /\ Done("closeDrm")
  /\ UNCHANGED <<mfcFlags, bufs, pageVars, uninit>>

CloseDrm ==
  /\ step = "closeDrm" /\ "opened" \in flags
  /\ IF "initialized" \in flags THEN UNCHANGED <<live, misused, flags>>
     ELSE Release({"fd", "CommonDRM"}) /\ flags' = flags \ {"opened"}
  /\ Done("deleteInput")
  /\ UNCHANGED <<mfcFlags, bufs, pageVars, uninit>>

SkipDrm ==
  \/ Skip("freePages", "pages_alloced", "freeBuffers")
  \/ Skip("freeBuffers", "buffers_alloced", "deinit")
  \/ Skip("deinit", "initialized", "closeDrm")
  \/ Skip("closeDrm", "opened", "deleteInput")

(* ~InputFile: a file that is not mapped is not closed.                    *)
DeleteInput ==
  /\ step = "deleteInput"
  /\ IF "inputMap" \in live THEN Release({"inputMap", "inputFd"}) ELSE UNCHANGED <<live, misused>>
  /\ Done("leave")
  /\ UNCHANGED <<flags, mfcFlags, bufs, pageVars, uninit>>

(* main's scope ends: input_buffers are destroyed, each with its device.   *)
Leave ==
  /\ step = "leave"
  /\ misused' = misused \cup (IF bufs # {} THEN {"device"} \ live ELSE {})
  /\ bufs' = {} /\ Done("exit")
  /\ UNCHANGED <<flags, mfcFlags, live, pageVars, uninit>>

Crash ==
  /\ misused # {} /\ step \notin {"exit", "crashed"}
  /\ Done("crashed")
  /\ UNCHANGED <<flags, mfcFlags, live, bufs, pageVars, uninit, misused>>

Setup ==
  \/ OpenInput \/ OpenInputFails \/ OpenDrm \/ MethodFails \/ InitDrm \/ BlobFails
  \/ AllocBuffers \/ OpenMfc \/ SetSource \/ InitMfc
  \/ AllocPages \/ PlanesFail \/ RestoreRequestFails \/ PageFails \/ QueueFirst

Teardown ==
  \/ DeleteMfc \/ FreePages \/ FreeBuffers \/ Deinit \/ CloseDrm \/ SkipDrm
  \/ DeleteInput \/ Leave \/ Crash

SetupNext == Setup \/ Joined \/ Teardown

SetupSpec == SetupInit /\ [][SetupNext]_setupVars

-----------------------------------------------------------------------------
(* ExynosDRM's flags, by which its methods decide what to take down, stand *)
(* for the objects that exist: none is forgotten and none is expected that *)
(* is not there, except after init went on without its blob.               *)
FlagsMatchObjects ==
  /\ "opened" \in flags <=> {"fd", "CommonDRM"} \subseteq live
  /\ uninit = {} => ("initialized" \in flags <=> {"fh", "blob"} \cap live # {})
  /\ "buffers_alloced" \in flags <=> "device" \in live
  /\ "pages_alloced" \in flags <=> {"restore_request", "modeset_request"} \cap live # {}
  /\ "pages_alloced" \in flags <=> \A p \in DestPages : "video" \in parts[p]

(* Whatever failed during the set-up, nothing is released twice or used    *)
(* after its release before main returns, unless a member was used that was*)
(* never written.                                                          *)
ReleasedOnce == uninit = {} /\ step # "exit" => misused = {}

(* When main returns it has released what it created; left over are a file *)
(* that could not be mapped, the framebuffers, and the overlay of the page *)
(* that could not be allocated.                                            *)
NothingLeft ==
  step = "exit" =>
    /\ live \subseteq {"inputFd"} /\ bufs = {}
    /\ \A p \in DestPages : {"video", "request"} \cap parts[p] = {}
    /\ \A p, q \in DestPages : "overlay" \in parts[p] \cap parts[q] => p = q

(* exynos_drm.h:203: init() returns false if an error occurs.              *)
InitReportsErrors == "initialized" \in flags => {"fh", "blob"} \subseteq live
=============================================================================
