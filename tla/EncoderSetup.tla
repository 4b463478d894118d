----------------------------- MODULE EncoderSetup -----------------------------
(***************************************************************************)
(* v4l2-mfc-encoder before and after process_chain, which EncoderChain has:*)
(* its state Init is what these calls leave behind.  s.camera tells whether*)
(* there is a camera (-i), s.controls how many codec options were given.   *)
(* Every failure that is looked at ends main, which destroys nothing then. *)
(***************************************************************************)
EXTENDS V4l2Calls

mfc_in         == OUT("mfc")
mfc_out        == CAP("mfc")
camera_capture == CAP("camera")

(* The controls of a device may be refused.                                *)
SetControl(d) == <<Otherwise(Ask(d), {"ignore"})>>

in_camera_create == <<Open("camera")>> \o SetControl("camera")

(* Without the subscription no end of stream is ever reported.             *)
mfc_create == <<Open("mfc"), Otherwise(Ask("mfc"), {"ignore"})>>

mfc_setup(s) ==
  <<S_FMT(mfc_in, "NV12M"), S_FMT(mfc_out, "H264"), Ask("mfc")>>
  \o Each(1, s.controls, LAMBDA i : SetControl("mfc"))

(* The camera may take another format, at which nobody looks.              *)
v4l_copy_fmt == <<G_FMT(mfc_in), S_FMT(camera_capture, TheFormatRead)>>

(* A file that cannot be opened is noticed when it is written.             *)
out_file_create == <<Otherwise(Open("out"), {"ignore"})>>

(* v4l_enq_buf starts the out port of a device that has no in port, and    *)
(* with the next buffer again if that failed.                              *)
camera_enq_buf(n) ==
  <<QBUF(camera_capture, Buffer(mfc_in, n)), Otherwise(STREAMON(camera_capture), {"ignore"})>>

mfc_enq_buf(n) == <<QBUF(mfc_out, Buffer(mfc_out, n))>>

query_and_map == <<Ask("mfc"), Ask("mfc")>>

(* dev_bufs_create: the buffers are the MFC's, and the camera is to have as*)
(* many; they are queued where they are filled, the demo's in its ring.    *)
input_bufs_create(s, n) ==
  <<REQBUFS(mfc_in, n)>> \o When(s.camera, <<REQBUFS(camera_capture, n)>>)
  \o Each(0, n - 1, LAMBDA i : query_and_map \o When(s.camera, camera_enq_buf(i)))

output_bufs_create(n) ==
  <<REQBUFS(mfc_out, n)>> \o Each(0, n - 1, LAMBDA i : query_and_map \o mfc_enq_buf(i))

destroy(s) == When(s.camera, <<Close("camera")>>) \o <<Close("mfc"), Close("out")>>

encoder_main(s, nIn, nOut) ==
  <<Parse>> \o When(s.camera, in_camera_create) \o mfc_create \o mfc_setup(s)
  \o When(s.camera, v4l_copy_fmt) \o out_file_create
  \o input_bufs_create(s, nIn) \o output_bufs_create(nOut)
  \o <<Otherwise(Threads, {"exit"})>> \o destroy(s)
=============================================================================
