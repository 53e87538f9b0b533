------------------------------- MODULE MCApp --------------------------------
(* The app mode with up to three indications and two frames sent again. *)
EXTENDS App

MCQueues == {<< >>, <<"GET_FW_VERSION_REQ">>,
             <<"START_PROTOCOL_REQ", "SET_REGISTRATION_MODE_REQ">>}
=============================================================================
