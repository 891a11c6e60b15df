------------------------------ MODULE NatsClient ------------------------------
(***************************************************************************)
(* The connection of internal/nats/client.go and its connected flag.       *)
(* nats.go reports what happens to the connection through callbacks, which *)
(* it runs in order, one at a time, in a goroutine of their own; Connect   *)
(* and Close set the flag as well.  Publishers and Subscribe only look at  *)
(* the flag, so what counts is that it comes to agree with the connection. *)
(***************************************************************************)
EXTENDS Naturals, Sequences

CONSTANT NatsOutages     \* bound: times the connection is lost

VARIABLES
    client,       \* what has become of Connect and Close
    conn,         \* the connection, as nats.go knows it
    connected,    \* the flag
    callbacks,    \* what nats.go has still to report, oldest first
    outages       \* connections lost so far

natsVars == <<client, conn, connected, callbacks, outages>>

Init ==
    /\ client = "new" /\ conn = "none" /\ connected = FALSE
    /\ callbacks = <<>> /\ outages = 0

-----------------------------------------------------------------------------
(* Connect *)

Dial ==
    /\ client = "new"
    /\ client' = "dialed" /\ conn' = "up"
    /\ UNCHANGED <<connected, callbacks, outages>>

(* main goes on without NATS: nothing calls Connect a second time.         *)
DialFails ==
    /\ client = "new"
    /\ client' = "failed"
    /\ UNCHANGED <<conn, connected, callbacks, outages>>

(* By now the connection may be lost again, and that been reported.        *)
ConnectReturns ==
    /\ client = "dialed"
    /\ client' = "ready" /\ connected' = TRUE
    /\ UNCHANGED <<conn, callbacks, outages>>

-----------------------------------------------------------------------------
(* The connection and its callbacks *)

Disconnect ==
    /\ conn = "up" /\ outages < NatsOutages
    /\ conn' = "down" /\ outages' = outages + 1
    /\ callbacks' = Append(callbacks, "disconnected")
    /\ UNCHANGED <<client, connected>>

Reconnect ==
    /\ conn = "down"
    /\ conn' = "up"
    /\ callbacks' = Append(callbacks, "reconnected")
    /\ UNCHANGED <<client, connected, outages>>

(* max_reconnects attempts have failed.                                    *)
GiveUp ==
    /\ conn = "down"
    /\ conn' = "closed"
    /\ callbacks' = Append(callbacks, "closed")
    /\ UNCHANGED <<client, connected, outages>>

(* Mutant: the ReconnectHandler only logs.                                 *)
CallbackLoggingReconnects ==
    /\ callbacks # <<>>
    /\ connected' = (connected /\ Head(callbacks) = "reconnected")
    /\ callbacks' = Tail(callbacks)
    /\ UNCHANGED <<client, conn, outages>>

(* DisconnectErrHandler, ReconnectHandler or ClosedHandler.                *)
Callback ==
    /\ callbacks # <<>>
    /\ connected' = (Head(callbacks) = "reconnected")
    /\ callbacks' = Tail(callbacks)
    /\ UNCHANGED <<client, conn, outages>>

(* A connection that has given up has reported that already.               *)
Close ==
    /\ client = "ready"
    /\ client' = "closed" /\ conn' = "closed" /\ connected' = FALSE
    /\ callbacks' = IF conn = "closed" THEN callbacks ELSE Append(callbacks, "closed")
    /\ UNCHANGED outages

-----------------------------------------------------------------------------
Connection == Disconnect \/ Reconnect \/ GiveUp \/ Callback

Next == Dial \/ DialFails \/ ConnectReturns \/ Connection \/ Close

Spec == Init /\ [][Next]_natsVars

-----------------------------------------------------------------------------
(* Properties *)

TypeOK ==
    /\ client \in {"new", "dialed", "failed", "ready", "closed"}
    /\ conn \in {"none", "up", "down", "closed"}
    /\ connected \in BOOLEAN
    /\ callbacks \in Seq({"disconnected", "reconnected", "closed"})
    /\ outages \in 0..NatsOutages

(* Once everything is reported, a connection that is up can be used, and   *)
(* one that Close has closed cannot, although Connect, Close and the       *)
(* callbacks (nats/client.go 53-65, 77, 190) set the flag in any order.    *)
(* Nothing is said of a connection that is down: Connect may overwrite     *)
(* what the callbacks have reported before it returned.                    *)
FlagSettles ==
    callbacks = <<>> =>
        /\ client = "ready" /\ conn = "up" => connected
        /\ client = "closed" => ~connected
=============================================================================
