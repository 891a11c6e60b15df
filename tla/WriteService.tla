----------------------------- MODULE WriteService -----------------------------
(***************************************************************************)
(* What the writeback handler promises whoever sends write commands,       *)
(* stated without queues, caches, retries or timeouts.  However often the  *)
(* handler writes for a command, the node only ever takes one value from   *)
(* it; a command is answered at most once; and the answer "success, v" is  *)
(* given only after the server has taken v.  An error answer promises      *)
(* nothing: the value may have been taken, or be taken later.              *)
(* Writeback implements this specification (Writeback!ImplementsService).  *)
(***************************************************************************)
EXTENDS Naturals, Sequences

CONSTANT Commands      \* the commands, numbered

VARIABLES
    taken,             \* the values the server has taken from each command
    answers            \* the results published for each command

serviceVars == <<taken, answers>>

ServiceInit ==
    /\ taken = [i \in Commands |-> {}]
    /\ answers = [i \in Commands |-> <<>>]

Take(i) ==
    /\ taken[i] = {}
    /\ \E v \in taken'[i] : taken' = [taken EXCEPT ![i] = {v}]
    /\ UNCHANGED answers

Answer(i) ==
    /\ answers[i] = <<>>
    /\ \E r \in {answers'[i][k] : k \in DOMAIN answers'[i]} :
          /\ r.success => r.value \in taken[i]
          /\ answers' = [answers EXCEPT ![i] = <<r>>]
    /\ UNCHANGED taken

ServiceNext == \E i \in Commands : Take(i) \/ Answer(i)

ServiceSpec == ServiceInit /\ [][ServiceNext]_serviceVars
=============================================================================
