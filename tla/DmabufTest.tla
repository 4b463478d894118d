------------------------------ MODULE DmabufTest ------------------------------
(***************************************************************************)
(* v4l2-dbuf.c: one frame goes from the camera VIVI through two converters.*)
(* The camera fills the OUTPUT buffer of FIMC0, and FIMC1 reads the CAPTURE*)
(* buffer of FIMC0, both passed as DMABUF; FIMC1 writes memory of the      *)
(* program.  The pictures on the way are dumped into five files, 0 to 4.   *)
(* An option is a field of s: formats (-0, -1, -2), hflip, vflip, rotate,  *)
(* dump, path and size (-m).                                               *)
(***************************************************************************)
EXTENDS V4l2Calls

vivi_capture  == CAP("vivi")
fimc0_output  == OUT("fimc0")
fimc0_capture == CAP("fimc0")
fimc1_output  == OUT("fimc1")
fimc1_capture == CAP("fimc1")

(* The memory of the pictures: two buffers of FIMC0 and st->dst_ptr        *)
camera_picture == Buffer(fimc0_output, 0)
middle_picture == Buffer(fimc0_capture, 0)
dst_ptr        == <<"user", "dst_ptr", 0>>

AskedFormat == "RGB32"

(* With -h main returns at once, with success.                             *)
config_create == <<Otherwise(Parse, {"exit", "end"})>>

set_vivi_format(s) == When(s.formats, <<S_FMT(vivi_capture, AskedFormat)>>) \o <<G_FMT(vivi_capture)>>

set_fimc0_controls(s) ==
  When(s.hflip, <<S_CTRL("fimc0", "HFLIP", 1)>>)
  \o When(s.vflip, <<S_CTRL("fimc0", "VFLIP", 1)>>)
  \o When(s.rotate # 0, <<S_CTRL("fimc0", "ROTATE", s.rotate)>>)

(* S_FMT and G_FMT leave the format of one queue in fmt, from where it is  *)
(* given to the next, unless the command line has one.                     *)
OrGiven(s) == IF s.formats THEN AskedFormat ELSE TheFormatRead

fimc0_to_fimc1 == <<G_FMT(fimc0_capture), S_FMT(fimc1_output, TheFormatRead), G_FMT(fimc1_output)>>

setup_formats(s) ==
  set_vivi_format(s) \o <<S_FMT(fimc0_output, TheFormatRead)>> \o set_fimc0_controls(s)
  \o <<S_FMT(fimc0_capture, OrGiven(s))>> \o fimc0_to_fimc1
  \o <<S_FMT(fimc1_capture, OrGiven(s)), G_FMT(fimc1_capture)>>

(* The last two calls: the descriptor of the file, if any, and the mapping *)
allocate_buffers(s) ==
  <<REQBUFS(vivi_capture, 1), REQBUFS(fimc0_output, 1), REQBUFS(fimc0_capture, 1),
    REQBUFS(fimc1_output, 1), REQBUFS(fimc1_capture, 1)>>
  \o When(s.path, <<Parse>>) \o When(~s.size, <<G_FMT(fimc1_capture)>>) \o <<Parse>>

process_vivi(s) ==
  <<Ask("fimc0"), QBUF(vivi_capture, camera_picture), STREAMON(vivi_capture),
    DQBUF(vivi_capture), STREAMOFF(vivi_capture), Ask("fimc0"), Parse, G_FMT(vivi_capture)>>
  \o When(s.dump, <<Dump(camera_picture, 0)>>)

convert(d, src, dst) ==
  <<QBUF(OUT(d), src), QBUF(CAP(d), dst), STREAMON(CAP(d)), STREAMON(OUT(d)),
    DQBUF(CAP(d)), DQBUF(OUT(d)), STREAMOFF(CAP(d)), STREAMOFF(OUT(d))>>

(* The result is dumped with the format of the source.                     *)
process_fimc0_OneFormat(s) ==
  convert("fimc0", camera_picture, middle_picture)
  \o <<Ask("fimc0"), Ask("fimc0"), G_FMT(fimc0_output)>> \o When(s.dump, <<Dump(camera_picture, 1)>>)
  \o <<Ask("fimc0"), Ask("fimc0")>> \o When(s.dump, <<Dump(middle_picture, 2)>>)

(* Each picture is dumped with the format its queue has then.              *)
process_fimc0(s) ==
  convert("fimc0", camera_picture, middle_picture)
  \o <<Ask("fimc0"), Ask("fimc0"), G_FMT(fimc0_output)>> \o When(s.dump, <<Dump(camera_picture, 1)>>)
  \o <<Ask("fimc0"), Ask("fimc0"), G_FMT(fimc0_capture)>> \o When(s.dump, <<Dump(middle_picture, 2)>>)

(* When a format cannot be read for the last dumps the test has passed.    *)
process_fimc1(s) ==
  <<Ask("fimc0")>> \o convert("fimc1", middle_picture, dst_ptr)
  \o <<Ask("fimc0"), Parse, Otherwise(G_FMT(fimc1_output), {"end"})>>
  \o When(s.dump, <<Dump(middle_picture, 3)>>)
  \o <<Otherwise(G_FMT(fimc1_capture), {"end"})>>
  \o When(s.dump, <<Dump(dst_ptr, 4)>>)

(* Whether FIMC0 and FIMC1 could be opened is not tested: main looks at    *)
(* vivi_fd again.                                                          *)
open_devices == <<Open("vivi"), Otherwise(Open("fimc0"), {"ignore"}), Otherwise(Open("fimc1"), {"ignore"})>>

dmabuf_main(s) ==
  config_create \o open_devices \o setup_formats(s) \o allocate_buffers(s)
  \o process_vivi(s) \o process_fimc0(s) \o process_fimc1(s)
=============================================================================
