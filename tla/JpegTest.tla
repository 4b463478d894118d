------------------------------- MODULE JpegTest -------------------------------
(***************************************************************************)
(* test-jpeg.c: a file is encoded into a JPEG or decoded from one, with one*)
(* buffer on each side, and the result is written to another file.  s.mode *)
(* is "encode" or "decode".                                                *)
(***************************************************************************)
EXTENDS V4l2Calls

jpeg_output  == OUT("jpeg")
jpeg_capture == CAP("jpeg")
p_src_buf    == Buffer(jpeg_output, 0)
p_dst_buf    == Buffer(jpeg_capture, 0)

InputFormat(s)  == IF s.mode = "encode" THEN "YUYV" ELSE "JPEG"
OutputFormat(s) == IF s.mode = "encode" THEN "JPEG" ELSE "RGB32"

(* main returns 0 when the arguments are wrong.                            *)
parse_args == <<Otherwise(Parse, {"end"})>>

(* Nothing that init_input_file does is tested.                            *)
init_input_file == <<Otherwise(Open("input"), {"ignore"})>>

open_jpeg == <<Open("jpeg"), Ask("jpeg")>>

setup_output(s) ==
  <<S_FMT(jpeg_output, InputFormat(s)), REQBUFS(jpeg_output, 1), Ask("jpeg"), Ask("jpeg"),
    Fill(p_src_buf, InputFormat(s), 1), QBUF(jpeg_output, p_src_buf), STREAMON(jpeg_output)>>

(* The size of the JPEG is known only when its buffer is queued; scaling   *)
(* may fail.                                                               *)
read_dimensions == <<G_FMT(jpeg_capture), Ask("jpeg"), Otherwise(Ask("jpeg"), {"ignore"})>>

(* Quality and subsampling; cropping may fail.                             *)
set_compression == <<Ask("jpeg"), Otherwise(Ask("jpeg"), {"ignore"})>>

setup_capture(s) ==
  When(s.mode = "decode", read_dimensions) \o <<S_FMT(jpeg_capture, OutputFormat(s))>>
  \o When(s.mode = "encode", set_compression)
  \o <<REQBUFS(jpeg_capture, 1), Ask("jpeg"), Ask("jpeg"), QBUF(jpeg_capture, p_dst_buf),
       STREAMON(jpeg_capture)>>

(* The device is open for calls that do not wait, so select comes before.  *)
wait_for_frame_Not == <<>>

wait_for_frame == <<Select(jpeg_capture)>>

(* Without a source buffer dq_frame returns 0 and capture_buffer_sz stays  *)
(* 0; so it does for EAGAIN and EIO on the other side, while other errors  *)
(* leave the program with ret still 0.                                     *)
dq_frame ==
  <<Otherwise(DQBUF_Now(jpeg_output), {"skip"}), Otherwise(DQBUF_Now(jpeg_capture), {"ignore", "done"})>>

jpeg_main(s) ==
  parse_args \o init_input_file \o open_jpeg \o setup_output(s) \o setup_capture(s)
  \o wait_for_frame \o dq_frame
  \o When(s.mode = "decode", <<Ask("jpeg"), Ask("jpeg")>>) \o <<Write(p_dst_buf)>>
  \o <<Cleanup, Close("jpeg"), Close("input")>>
=============================================================================
