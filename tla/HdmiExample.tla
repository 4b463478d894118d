----------------------------- MODULE HdmiExample -----------------------------
(***************************************************************************)
(* v4l2-hdmi-example: three buffers are drawn into, shown by the TV output *)
(* and, when they come back, drawn into and queued again, without end.     *)
(***************************************************************************)
EXTENDS V4l2Calls

BUFFER_CNT == 3
tv == OUT("tv")

setup_tv == <<Open("tv"), S_FMT(tv, "RGB32"), G_FMT(tv), REQBUFS(tv, BUFFER_CNT)>>

(* A buffer is queried, mapped and made black.                             *)
init_buffer(i) == <<Ask("tv"), Ask("tv"), Fill(Buffer(tv, i), "RGB32", 0)>>

(* buffer_fill erases the rectangle of the time buf->t, which has no value *)
(* the first time: a number, or none, and then it draws anywhere.          *)
fill_first(i) == <<Otherwise(Parse, {"crash"}), Fill(Buffer(tv, i), "RGB32", i + 1), QBUF(tv, Buffer(tv, i))>>

(* The buffer is drawn into before it is dequeued, as known from its index.*)
refill_Early(k) ==
  <<Fill(Buffer(tv, (k - 1) % BUFFER_CNT), "RGB32", k), DQBUF(tv), QBUF(tv, LastBuffer)>>

(* The k-th picture is drawn into the buffer that comes back.              *)
refill(k) == <<DQBUF(tv), Fill(LastBuffer, "RGB32", k), QBUF(tv, LastBuffer)>>

(* frames: bound; the loop of the code does not end.                       *)
showtime(frames) ==
  Each(0, BUFFER_CNT - 1, fill_first) \o <<STREAMON(tv)>>
  \o Each(BUFFER_CNT + 1, frames, refill) \o <<Loop>>

hdmi_main(s) ==
  <<Parse>> \o setup_tv \o Each(0, BUFFER_CNT - 1, init_buffer) \o <<Ask("tv")>> \o showtime(s.frames)
=============================================================================
