----------------------------- MODULE MCMsgRecv -----------------------------
(* Headers that arrive in up to three pieces.  The whole buffer is         *)
(* overwritten in the viewer, the first parts of it in the webcam.         *)
EXTENDS MsgRecv

MCViewer == 1 .. 3
MCWebcam == {1, 2}
=============================================================================
