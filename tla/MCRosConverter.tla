--------------------------- MODULE MCRosConverter ---------------------------
(***************************************************************************)
(* What the device sends the ROS node: nothing that ends a message, or all *)
(* the kinds that on_frame_msg knows and one it does not, in either order. *)
(***************************************************************************)
EXTENDS RosConverter, SequencesExt

AllKinds == <<"ECHO", "HEARTBEAT", "PARAM", "RESULT", "PREV_RESULT",
              "DATA_USER_TO_USER", "SPHERICAL_RESULT", "PREV_SPHERICAL_RESULT",
              "DIS", "FIND">>

MCKinds == ToSet(AllKinds)
MCPieces == {<< >>, AllKinds, Reverse(AllKinds)}
=============================================================================
