----------------------------- MODULE SharingSetup -----------------------------
(***************************************************************************)
(* dmabuf-sharing.c before its loop: the buffers are made by DRM and given *)
(* to the camera.  s.plane tells -p from -o; a call that fails aborts.     *)
(***************************************************************************)
EXTENDS V4l2Calls

video_capture == CAP("video")
buffers(i)    == <<"drm", "buffers", i>>

v4l2_init(n) ==
  <<Open("video"), Ask("video"), G_FMT(video_capture), S_FMT(video_capture, "YUYV"),
    G_FMT(video_capture), REQBUFS(video_capture, n)>>

(* A buffer that cannot be exported or added is destroyed again.           *)
drm_buffer_create(i) == <<Ask("drm"), Ask("drm"), Ask("drm")>>

(* On a CRTC the first buffer is shown from now on.                        *)
drm_init(s, n) ==
  <<Open("drm")>> \o Each(0, n - 1, drm_buffer_create) \o <<Ask("drm")>>
  \o (IF s.plane THEN <<Ask("drm")>> ELSE <<Ask("drm"), Ask("drm")>>)

v4l2_queue_buffer(i) == <<QBUF(video_capture, buffers(i))>>

sharing_main(s, n) ==
  <<Parse>> \o v4l2_init(n) \o drm_init(s, n)
  \o Each(IF s.plane THEN 0 ELSE 1, n - 1, v4l2_queue_buffer)
  \o <<STREAMON(video_capture), Loop>>
=============================================================================
