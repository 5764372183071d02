-------------------------- MODULE MCCameraCapture --------------------------
(* Small instances of CameraCapture: two or three buffers, and cameras     *)
(* that always deliver, that may deliver empty frames, that may fail.      *)
EXTENDS CameraCapture

FullFrames  == {1}
EmptyFrames == {0, 1}
=============================================================================
