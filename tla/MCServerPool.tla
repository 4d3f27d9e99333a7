----------------------------- MODULE MCServerPool -----------------------------
(* Instance of ServerPool for TLC.                                         *)
EXTENDS ServerPool

HttpOnly == {ListenFd}
DataOnly == {"data"}
Sigterms == {"SIGTERM"}
===============================================================================
