-------------------------- MODULE MCCameraPreview --------------------------
(* The views of the two tabs, for TLC. *)
EXTENDS CameraPreview

CONSTANTS data, script

TwoViews == {data, script}
=============================================================================
