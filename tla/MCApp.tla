-------------------------------- MODULE MCApp --------------------------------
(***************************************************************************)
(* App on small servers: three variables and a hidden one, pieces of two   *)
(* items.                                                                  *)
(***************************************************************************)
EXTENDS App, TLC

MCVariables == {"v1", "v2", "v3", "_v"}
MCFolders == {"f1", "f2", "f4", "_f3"}
MCHidden == {"_f3", "_v"}
MCGarbage == {"?"}

Components(f) == [n \in MCVariables \cup MCFolders |-> IF n \in DOMAIN f THEN f[n] ELSE <<>>]

(* Two levels of folders, a variable that is in two of them, and hidden    *)
(* nodes.                                                                  *)
Tree ==
    [components |-> Components("f1" :> <<"v1", "_v">> @@ "f2" :> <<"v2">> @@ "f4" :> <<"v2", "v3">>
                               @@ "_f3" :> <<"_v">>),
     organizes |-> Components("f1" :> <<"_f3", "f2", "f4">>)]

(* The second folder organizes the first again.                            *)
Cycle ==
    [components |-> Components("f1" :> <<"v1">>),
     organizes |-> Components("f1" :> <<"f2">> @@ "f2" :> <<"f1">>)]

E(node, recursive) == [node |-> node, recursive |-> recursive]

Setup(file, mode, nodeList, server, flaky) ==
    [settings |-> file, given |-> Required, mode |-> mode, entries |-> nodeList,
     space |-> server, outages |-> flaky]

Every(n) == [k \in Keys |-> n]
Nothing == [k \in {} |-> 0]

(* Defaults only; NATS that fails, and gives up or not; numbers that need  *)
(* every default; a cycle of folders and no time for requests; an interval *)
(* that is too long; a file that lacks a key.                              *)
MCSetups ==
    {Setup(Nothing, "", <<E("f1", TRUE)>>, Tree, FALSE),
     Setup([request_timeout |-> 200, max_reconnects |-> 60], "immediate",
           <<E("f4", FALSE), E("?", TRUE)>>, Tree, TRUE),
     Setup([request_timeout |-> 30, channel_buffer_size |-> 0, monitor_interval_sec |-> -1,
            push_interval_sec |-> 0, worker_count |-> 0],
           "timed", <<E("v1", FALSE), E("f1", FALSE)>>, Tree, TRUE),
     Setup([push_interval_sec |-> 1000], "timed", <<E("v1", FALSE)>>, Tree, FALSE),
     Setup(Every(-1), "timed", <<E("f1", TRUE)>>, Cycle, TRUE),
     [Setup(Nothing, "", <<>>, Tree, FALSE) EXCEPT !.given = {"urls"}]}
=============================================================================
