----------------------------- MODULE DecoderSetup -----------------------------
(***************************************************************************)
(* v4l2-mfc-example before and after its threads: the options, the opening *)
(* and set-up of the input file, the MFC, the FIMC, the frame buffer, DRM  *)
(* and its IPP, and the cleanup, to which every failing step leads.        *)
(***************************************************************************)
EXTENDS V4l2Calls

CONSTANTS
  StreamBuffers,  \* STREAM_BUFFER_CNT
  CapBuffers      \* the CAPTURE buffers the MFC wants and RESULT_EXTRA_BUFFER_CNT

ASSUME SetupAssumption == StreamBuffers \in Nat \ {0} /\ CapBuffers \in Nat \ {0}

-----------------------------------------------------------------------------
(* args.c: each option sets fields of the instance; -c and -i are given.   *)
(* The name of the FIMC and of the MFC is part of the command line, or was *)
(* allocated for a device that was detected.                               *)

Defaults ==
  [program |-> "decoder", fimc_name |-> "none", mfc_name |-> "none", fb |-> FALSE, drm |-> FALSE, fimc |-> FALSE, ipp |-> FALSE,
   dmabuf |-> FALSE, double_buf |-> FALSE, ignore_format_change |-> FALSE]

(* found: the devices there are; the FIMC is looked for if it is enabled.  *)
detect_video(s, found) ==
  [s EXCEPT !.fimc_name = IF "fimc" \in found /\ s.fimc THEN "allocated" ELSE @,
            !.mfc_name  = IF "mfc" \in found THEN "allocated" ELSE @]

Option(s, o, found) ==
  CASE o = "d" -> [s EXCEPT !.fb = TRUE]
    [] o = "f" -> [s EXCEPT !.fimc = TRUE, !.fimc_name = "argument"]
    [] o = "m" -> [s EXCEPT !.mfc_name = "argument"]
    [] o = "V" -> [s EXCEPT !.double_buf = TRUE]
    [] o = "X" -> [s EXCEPT !.ignore_format_change = TRUE]
    [] o = "B" -> [s EXCEPT !.dmabuf = TRUE]
    [] o = "D" -> [s EXCEPT !.drm = TRUE]
    [] o = "A" ->
         detect_video([s EXCEPT !.drm = TRUE, !.dmabuf = TRUE, !.fimc = TRUE, !.ipp = FALSE], found)
    [] o = "E" ->
         detect_video([s EXCEPT !.drm = TRUE, !.dmabuf = TRUE, !.fimc = FALSE, !.ipp = TRUE], found)
    [] o = "I" -> [s EXCEPT !.drm = TRUE, !.dmabuf = TRUE, !.fimc = FALSE, !.ipp = TRUE]

parse_options(options, found) == FoldLeft(LAMBDA s, o : Option(s, o, found), Defaults, options)

(* The MFC has a name, and a FIMC needs something to display on.           *)
ArgumentsAreGood(s) == s.mfc_name # "none" /\ (s.fimc => s.drm \/ s.fb)

-----------------------------------------------------------------------------
(* The buffers                                                             *)

mfc_output    == OUT("mfc")
mfc_capture   == CAP("mfc")
fimc_output   == OUT("fimc")
fimc_capture  == CAP("fimc")
out_buf(n)    == Buffer(mfc_output, n)
cap_buf(n)    == Buffer(mfc_capture, n)
FimcBuffers(s) == IF s.double_buf THEN 2 ELSE 1

(* input_open tests for a descriptor that is 0: a file that cannot be      *)
(* opened is noticed when it cannot be mapped.                             *)
input_open == <<Otherwise(Open("in"), {"ignore"}), Ask("in")>>

fb_set_virt_y_offset == <<Ask("fb"), Ask("fb")>>

(* The frame buffer's size and memory are the FIMC's destination.          *)
fb_open ==
  <<Open("fb"), Setting(Ask("fb"), {"size", "address"}), Otherwise(Ask("fb"), {"ignore"})>>
  \o fb_set_virt_y_offset

(* free aborts the process if the name is part of the command line.        *)
AfterFree(name) == IF name = "argument" THEN {"crash"} ELSE {"exit"}

(* The name is freed when the device cannot be opened, when it cannot do   *)
(* what is needed, and in the end.  Without a name open fails.             *)
fimc_open(s) ==
  IF s.fimc_name = "none" THEN <<Stop>>
  ELSE <<Otherwise(Open("fimc"), AfterFree(s.fimc_name)), Ask("fimc"),
         Otherwise(Ask("fimc"), AfterFree(s.fimc_name))>>
       \o When(s.fimc_name = "argument", <<Otherwise(Stop, {"crash"})>>)

(* The name is freed on every failure, and not in the end.                 *)
mfc_open(s) ==
  <<Otherwise(Open("mfc"), AfterFree(s.mfc_name)), Otherwise(Ask("mfc"), AfterFree(s.mfc_name))>>

MapStreamBuffer(n) == <<Ask("mfc"), Ask("mfc")>>

mfc_dec_setup_output ==
  <<S_FMT(mfc_output, "stream"), REQBUFS(mfc_output, StreamBuffers)>>
  \o Each(0, StreamBuffers - 1, MapStreamBuffer)

(* The parser copies the header into the first buffer; when the MFC has it,*)
(* it knows the size of the pictures.                                      *)
extract_and_process_header ==
  <<Parse, Fill(out_buf(0), "stream", 1), QBUF(mfc_output, out_buf(0)),
    Setting(STREAMON(mfc_output), {"header"})>>

MapPicture(s, n) ==
  <<Ask("mfc")>>
  \o (IF s.dmabuf THEN <<Ask("mfc"), Setting(Ask("mfc"), {"dbuf"})>>
                  ELSE <<Ask("mfc"), Setting(Ask("mfc"), {"cap_buf_addr"})>>)

mfc_dec_setup_capture(s) ==
  LET Map(n) == MapPicture(s, n)
  IN  <<Setting(Needing(G_FMT(mfc_capture), {"header"}), {"cap_size"}), Ask("mfc"),
        Setting(Ask("mfc"), {"crop"}), Setting(REQBUFS(mfc_capture, CapBuffers), {"cap_buf_cnt"})>>
      \o Each(0, CapBuffers - 1, Map)

(* drm_close is called by cleanup, and drm.fd is closed twice: by the IPP's*)
(* close and by drmClose.  What the calls before report is not looked at.  *)
exynos_drm_ipp_close ==
  <<Otherwise(Ask("drm"), {"ignore"}), Otherwise(Ask("drm"), {"ignore"}), Close("drm")>>

drm_close == exynos_drm_ipp_close \o <<Close("drm")>>

(* A failure closes drm.fd, and drm_open does not look at the result.      *)
exynos_drm_ipp_setup == <<Otherwise(Needing(Ask("drm"), {"crop"}), {"close"})>>

(* Three buffers, of which the arrays of the instance hold two.            *)
DrmBuffer(s) == <<Ask("drm")>> \o When(s.dmabuf, <<Ask("drm")>>) \o <<Ask("drm")>>

drm_open(s) ==
  LET Make(n) == DrmBuffer(s)
  IN  <<Open("drm"), Ask("drm")>> \o Each(0, 2, Make)
      \o <<Ask("drm"), Parse, Setting(Ask("drm"), {"size"})>>
      \o When(s.ipp, exynos_drm_ipp_setup)

(* A format the FIMC has changed is an error, unless -X is given.          *)
fimc_sfmt(s, q, format, needs) ==
  <<Needing(IF s.ignore_format_change THEN S_FMT(q, format) ELSE S_FMT_Exactly(q, format), needs)>>

fimc_setup_output_from_mfc(s) ==
  fimc_sfmt(s, fimc_output, TheFormatRead, {"cap_size"})
  \o <<Needing(REQBUFS(fimc_output, CapBuffers), {"cap_buf_cnt"})>>

fimc_setup_capture(s) ==
  fimc_sfmt(s, fimc_capture, "RGB32", {"size"}) \o <<REQBUFS(fimc_capture, FimcBuffers(s))>>

fimc_set_crop == <<Needing(Ask("fimc"), {"crop"})>>

setup_fimc(s) == fimc_setup_output_from_mfc(s) \o fimc_setup_capture(s) \o fimc_set_crop

(* All pictures are with the MFC before it starts.                         *)
queue_pictures ==
  LET Queue(n) == <<Needing(QBUF(mfc_capture, cap_buf(n)), {"cap_buf_cnt"})>>
  IN  Each(0, CapBuffers - 1, Queue)

(* The pictures become GEM objects, without a look at the result, and three*)
(* sources and destinations are queued.                                    *)
exynos_drm_ipp_allocate_ipp_buffers ==
  LET Import(n) == <<Otherwise(Needing(Ask("drm"), {"dbuf"}), {"ignore"}), Otherwise(Ask("drm"), {"ignore"})>>
      Queue(n)  == <<Ask("drm"), Ask("drm")>>
  IN  Each(0, CapBuffers - 1, Import) \o Each(0, 2, Queue)

(* The parser's thread, the MFC's, the IPP's and the FIMC's, of which two  *)
(* may be created though one is joined.                                    *)
create_threads(s) == <<Parse, Parse>> \o When(s.ipp, <<Parse>>) \o When(s.fimc, <<Parse>>)

open_devices(s) ==
  input_open \o When(s.fb, fb_open) \o When(s.fimc, fimc_open(s)) \o mfc_open(s)

setup_devices_FimcFirst(s) ==
  mfc_dec_setup_output \o extract_and_process_header \o mfc_dec_setup_capture(s)
  \o When(s.fimc, setup_fimc(s)) \o When(s.drm, drm_open(s)) \o queue_pictures
  \o When(s.ipp, exynos_drm_ipp_allocate_ipp_buffers) \o <<STREAMON(mfc_capture)>>

(* The order matters: the header before the pictures' size, that and the   *)
(* screen's size before the FIMC, pictures queued before the MFC starts.   *)
setup_devices(s) ==
  mfc_dec_setup_output \o extract_and_process_header \o mfc_dec_setup_capture(s)
  \o When(s.drm, drm_open(s)) \o When(s.fimc, setup_fimc(s)) \o queue_pictures
  \o When(s.ipp, exynos_drm_ipp_allocate_ipp_buffers) \o <<STREAMON(mfc_capture)>>

cleanup_NoFb(s) ==
  <<Close("mfc")>> \o When(s.fimc, <<Close("fimc")>>) \o <<Close("in")>> \o When(s.drm, drm_close)

cleanup(s) ==
  <<Close("mfc")>> \o When(s.fimc, <<Close("fimc")>>)
  \o When(s.fb, <<Otherwise(Ask("fb"), {"ignore"}), Otherwise(Ask("fb"), {"ignore"}), Close("fb")>>)
  \o <<Close("in")>> \o When(s.drm, drm_close)

(* Without memory for the two queues main returns before it opens anything.*)
decoder_main(s) ==
  <<Parse, Parse>>
  \o ToCleanup(open_devices(s) \o setup_devices(s) \o create_threads(s))
  \o <<Threads, Cleanup>> \o cleanup(s)
=============================================================================
