------------------------------ MODULE FrameSink ------------------------------
(***************************************************************************)
(* What an IFrameSink promises about its buffers: each is in the hands of  *)
(* one party at a time, and no party but the client takes a buffer away    *)
(* from the client.  A buffer is a pair of a generation and an index; a    *)
(* generation lives from one start to the stop or destruction that ends    *)
(* it, and current is the live one.                                        *)
(***************************************************************************)
CONSTANTS Pools, NoPool, Index

VARIABLES
    current,    \* the live generation, or NoPool
    owner       \* who may touch each buffer; "none" for one that is retired

vars == <<current, owner>>

Party == {"none", "pool", "client", "transport"}

TypeOK == current \in Pools \cup {NoPool} /\ owner \in [Pools \X Index -> Party]

Init == current = NoPool /\ owner = [b \in Pools \X Index |-> "none"]

Live(b) == b[1] = current

WithClient == {b \in Pools \X Index : owner[b] = "client"}

\* acquireFrame: a free buffer, or one the transport has finished with.
Acquire(b) ==
    /\ Live(b) /\ owner[b] \in {"pool", "transport"}
    /\ owner' = [owner EXCEPT ![b] = "client"]
    /\ UNCHANGED current

\* pushFrame hands the same buffer to the transport.
Push(b) ==
    /\ Live(b) /\ owner[b] = "client"
    /\ owner' = [owner EXCEPT ![b] = "transport"]
    /\ UNCHANGED current

\* The client drops the frame, or a refused pushFrame drops it for the client.
GiveBack(b) ==
    /\ owner[b] = "client"
    /\ owner' = [owner EXCEPT ![b] = IF Live(b) THEN "pool" ELSE "none"]
    /\ UNCHANGED current

\* start: a new generation whose buffers are all free.
Begin(p, S) ==
    /\ p # current /\ S \subseteq {p} \X Index
    /\ ~ \E b \in WithClient : Live(b) \/ b[1] = p
    /\ current' = p
    /\ owner' = [b \in Pools \X Index |->
                    IF b \in S THEN "pool"
                    ELSE IF owner[b] = "client" THEN "client" ELSE "none"]

\* recycleBuffers: what the transport holds is free again; only with every
\* frame returned.
Recycle ==
    /\ ~ \E b \in WithClient : Live(b)
    /\ owner' = [b \in Pools \X Index |->
                    IF owner[b] = "transport" THEN "pool" ELSE owner[b]]
    /\ UNCHANGED current

\* stop, a failed start, destruction: the generation ends for everyone but
\* the client that still holds a frame of it.
Retire ==
    /\ current' = NoPool
    /\ owner' = [b \in Pools \X Index |->
                    IF owner[b] = "client" THEN "client" ELSE "none"]

Next ==
    \/ \E b \in Pools \X Index : Acquire(b) \/ Push(b) \/ GiveBack(b)
    \/ \E p \in Pools : \E S \in SUBSET ({p} \X Index) : Begin(p, S)
    \/ Recycle \/ Retire

Spec == Init /\ [][Next]_vars
=============================================================================
