------------------------------- MODULE MCTask -------------------------------
(* Two tasks on a heap of two classes: three small blocks, so that the fourth *)
(* handle is promoted, and big ones for the rest, of which a context and the  *)
(* storage of a stream need two.                                              *)
EXTENDS Task

MCNClass == 2
MCBytes  == <<1, 2>>
MCCnt    == <<3, 7>>
MCTaskIDs == {0, 1}
MCBuilt  == <<"opus">>
MCLonger == <<"opus", "vorbis", "mpeg12", "dolby", "dolby_plus", "other">>
MCTaskDos == {"TASK_DECODER", "TASK_ENCODER"}
MCCodecs == {"opus", "vorbis", "mpeg12", "dolby", "dolby_plus", "other"}
=============================================================================
