----------------------------- MODULE MCPlugins ------------------------------
(* Two files, two sizes on both sides of 64 KB, and of the room in the http input's buffer. *)
EXTENDS Plugins
MCLoads == 
    {<<"testpicture", "file">>, <<"file", "viewer">>, <<"http", "viewer">>, <<"ptp2", "viewer">>,
     <<"testpicture", "udp">>, <<"testpicture", "rtsp">>, <<"testpicture", "zmqserver">>,
     <<"testpicture", "autofocus">>, <<"opencv", "udp">>}
MCResolutions == {1}
MCRings == {-1, 1}
MCExceeds == {0, 2}
MCFound == {2}
MCSharpness == {-1, 50, 110, 700}
MCZmqSizes == {-1, 0, 2, 3}
MCThreadLoads ==
    {<<"testpicture", "file">>, <<"file", "viewer">>, <<"http", "viewer">>, <<"ptp2", "viewer">>,
     <<"testpicture", "udp">>, <<"opencv", "zmqserver">>}
MCNoRings == {-1}
MCNoExceeds == {0}
MCFewSharpness == {50}
MCOneZmqSize == {2}
MCNobody == "nobody"
MCFiles == {"a", "b"}
MCFolders == {<<"other">>, <<"other", "a", "other">>, <<"other", "a", "b">>}
MCFileSize == [a |-> 1000, b |-> 70000]
MCSizes == {1000, 70000}
MCStreamed == {262121, 262122}
MCCommanders == {"c1", "c2"}
MCDegrees == {-100}
=============================================================================
