------------------------------ MODULE MCQueue ------------------------------
(* Model values for Queue: two uploads and a download contend for peer a,  *)
(* one slot per direction; Close and Wait may come at any time.  Tasks of  *)
(* another peer share only closed and the WaitGroup with these; the        *)
(* theorems of QueueProofs hold for any number of tasks and peers.         *)
EXTENDS Queue

CONSTANTS t1, t2, t3, a

MCTasks == {t1, t2, t3}
MCPeers == {a}
MCPeerOf == [t \in MCTasks |-> a]
MCDirOf == [t \in MCTasks |-> IF t = t3 THEN "download" ELSE "upload"]
=============================================================================
