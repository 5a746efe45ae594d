---------------------------- MODULE MCHttpServer ----------------------------
(* Two connections, so that both sockets can be ready at once; one input and *)
(* two outputs, so that a number can be in range for one and not the other.  *)
EXTENDS HttpServer, TLC

\* alarm4pi's own options, a server with a password that takes no commands,
\* and one with output_file and no folder.
MCConfigs ==
    { [credentials |-> FALSE, nocommands |-> FALSE, www |-> TRUE,  file |-> FALSE],
      [credentials |-> TRUE,  nocommands |-> TRUE,  www |-> TRUE,  file |-> FALSE],
      [credentials |-> FALSE, nocommands |-> FALSE, www |-> FALSE, file |-> TRUE] }

\* The input and the second output plugin take commands, the first output does not.
MCWithCmd == {<<"input", 0>>, <<"output", 1>>}

\* A negative number, the plugins, and one past the last output.
MCPluginNos == -1..2

ConnSymmetry == Permutations(Conn)

=============================================================================
