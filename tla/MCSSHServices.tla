--------------------------- MODULE MCSSHServices ---------------------------
(* SSHServices on a small instance: two ports, up to three services.        *)
EXTENDS SSHDeployment, Sequences, TLC

\* Sound for safety: no handler is named.
Symmetry == Permutations(Handlers)

\* Base files: the settings to reach frps, with no proxy or with two.
Reach == <<<<"serverAddr", "frps">>, <<"serverPort", 7000>>>>
Rdp == <<Header, <<"name", "dfsj">>, <<"localIP", "rdp">>, <<"remotePort", 6389>>>>
Ai == <<Header, <<"name", "ai">>, <<"localIP", "ai">>, <<"remotePort", 6500>>>>
MCBases == {Reach, Reach \o Rdp \o Ai}
=============================================================================
