------------------------ MODULE MCCameraStateMachine ------------------------
(***************************************************************************)
(* Two callers of the camera: the application's thread, and one that       *)
(* changes the parameters or the messages meanwhile.                       *)
(***************************************************************************)
EXTENDS CameraStateMachine

PictureCalls == [t \in Threads |->
    IF t = "app" THEN {"start_preview", "stop_preview", "take_picture", "cancel_picture"}
    ELSE {"set_parameters"}]
AllCalls == [t \in Threads |-> DOMAIN FirstEvents]
ShortCalls == [t \in Threads |-> {"start_preview", "stop_preview", "take_picture"}]
=============================================================================
