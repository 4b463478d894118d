------------------------------- MODULE FimcM2m -------------------------------
(***************************************************************************)
(* fimc-m2m-f02.c: one picture from a file is converted again and again    *)
(* into the frame buffer, every time turned by another quarter.            *)
(***************************************************************************)
EXTENDS V4l2Calls

m2m_output  == OUT("m2m")
m2m_capture == CAP("m2m")
src_buffer  == Buffer(m2m_output, 0)
dst_buffer  == <<"fb", "fb_addr", 0>>

(* thread_id and the CPU affinity change nothing here; a failure to open or*)
(* map the input file ends the program.                                    *)
open_input == <<Open("file"), Ask("file")>>

init_fb == <<Open("fb"), Ask("fb"), Ask("fb")>>

init_video_dev == <<Open("m2m"), Ask("m2m")>>

set_src_fmt == <<S_FMT(m2m_output, "YUYV"), G_FMT(m2m_output)>>

set_dst_fmt == <<S_FMT(m2m_capture, "RGB32")>>

set_rotation(quarters) == <<S_CTRL("m2m", "ROTATE", quarters)>>

(* The size by which get_buffer advances is not set yet: it may find that  *)
(* the frame buffer is too small.                                          *)
get_buffer == <<Parse>>

m2m_prepare_src_buffers == <<REQBUFS(m2m_output, 1), Ask("m2m"), Ask("m2m")>>

(* src_framesize bytes are copied; the file may be shorter.                *)
copy_input == <<Otherwise(Parse, {"crash"}), Fill(src_buffer, "YUYV", 1)>>

(* A driver that does not know the crop calls is tolerated (EINVAL).       *)
set_crop == <<Ask("m2m"), Otherwise(Ask("m2m"), {"exit", "ignore"}), Otherwise(Ask("m2m"), {"exit", "ignore"})>>

(* The first round starts the device.                                      *)
stream_on(k) == When(k = 1, <<STREAMON(m2m_capture), STREAMON(m2m_output)>>)

(* The angle for the next round is set at once.                            *)
convert_frame_EarlyTurn(k) ==
  <<QBUF(m2m_output, src_buffer), QBUF(m2m_capture, dst_buffer)>> \o stream_on(k)
  \o set_rotation(k % 4) \o <<DQBUF(m2m_capture), DQBUF(m2m_output)>>

(* The frame buffer is queued in the first round only.                     *)
convert_frame_QueuedOnce(k) ==
  <<QBUF(m2m_output, src_buffer)>> \o When(k = 1, <<QBUF(m2m_capture, dst_buffer)>>) \o stream_on(k)
  \o <<DQBUF(m2m_capture), DQBUF(m2m_output)>> \o set_rotation(k % 4)

(* One round of process: the angle for the next round is set when both     *)
(* buffers are back.                                                       *)
convert_frame(k) ==
  <<QBUF(m2m_output, src_buffer), QBUF(m2m_capture, dst_buffer)>> \o stream_on(k)
  \o <<DQBUF(m2m_capture), DQBUF(m2m_output)>> \o set_rotation(k % 4)

(* rounds: bound, 3000 in the code.  A call that fails makes main return   *)
(* its result.                                                             *)
process(rounds) ==
  Each(1, rounds, convert_frame) \o <<STREAMOFF(m2m_output), STREAMOFF(m2m_capture)>>

m2m_main(s) ==
  open_input \o init_fb \o init_video_dev \o set_src_fmt \o set_dst_fmt \o set_rotation(0)
  \o <<REQBUFS(m2m_capture, 1)>> \o get_buffer \o m2m_prepare_src_buffers \o copy_input
  \o set_crop \o process(s.rounds) \o <<Close("m2m")>>
=============================================================================
