--------------------------- MODULE MCCameraControl --------------------------
(* Small servers of one or two cameras.  Only the requests for camera 0 come *)
(* out of order: what is promised to camera 1 must not suffer.               *)
EXTENDS CameraControl
OneDisorderly == [c \in Cams |-> IF c = 0 THEN 2 ELSE 0]
AllOrderly == [c \in Cams |-> 0]
=============================================================================
