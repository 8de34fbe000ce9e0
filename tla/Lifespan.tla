------------------------------ MODULE Lifespan ------------------------------
(***************************************************************************)
(* The process around the requests of SchoolClass: lifespan (app/main.py)  *)
(* connects its clients before the first request and closes them after the *)
(* last; a request finds Redis connected or connects it on its own         *)
(* (app/cache/redis.py).  uvicorn, which is external, begins no request    *)
(* before the startup or after the signal, and lets those under way end.   *)
(***************************************************************************)
EXTENDS SchoolClass

CONSTANT Main   \* the lifespan, where the creator of a Redis client is named

Clients == Requests \cup {Main}
Others == {"storage", "producer", "relay", "pool"}

ASSUME MainAssumption == None \notin Clients /\ Main \notin Requests /\ Clients \cap Others = {}

VARIABLES
    phase,      \* what the lifespan does next, or "serving", or "draining"
    open,       \* what has been opened and not been closed; a Redis client by its creator
    redis,      \* RedisCache._redis: the creator of the client, or None
    call        \* call[q]: what q does in RedisCache.connect: "none", "queued" or "pinging"

lifeVars == <<phase, open, redis, call>>
allVars == <<vars, lifeVars>>

ServiceInit ==
    /\ Init
    /\ phase = "connect cache"
    /\ open = {}
    /\ redis = None
    /\ call = [q \in Requests |-> "none"]

UnderWay(q) == pc[q] \notin {"new", "done"}

-----------------------------------------------------------------------------
(* Startup: what fails raises, and the finally block follows.               *)

\* connect_cache goes on without Redis; RedisCache.connect closes what failed.
ConnectCache ==
    /\ phase = "connect cache"
    /\ \/ open' = open \cup {Main} /\ redis' = Main
       \/ UNCHANGED <<open, redis>>
    /\ phase' = "connect storage"
    /\ UNCHANGED <<vars, call>>

\* An answer other than "no such bucket" closes the client, another error
\* leaves it to the finally block.
ConnectStorage ==
    /\ phase = "connect storage"
    /\ \/ open' = open \cup {"storage"} /\ phase' = "connect broker"
       \/ open' = open \cup {"storage"} /\ phase' = "stop relay"
       \/ UNCHANGED open /\ phase' = "stop relay"
    /\ UNCHANGED <<vars, redis, call>>

ConnectBroker ==
    /\ phase = "connect broker"
    /\ \/ open' = open \cup {"producer"} /\ phase' = "start relay"
       \/ UNCHANGED open /\ phase' = "stop relay"
    /\ UNCHANGED <<vars, redis, call>>

\* The task of the relay, which takes connections from the pool, as requests do.
StartRelay ==
    /\ phase = "start relay"
    /\ open' = open \cup {"relay", "pool"}
    /\ phase' = "serving"
    /\ UNCHANGED <<vars, redis, call>>

\* A signal; the requests under way end.
Drain ==
    /\ \/ phase = "serving" /\ phase' = "draining"
       \/ phase = "draining" /\ (\A q \in Requests : ~ UnderWay(q)) /\ phase' = "stop relay"
    /\ UNCHANGED <<vars, open, redis, call>>

-----------------------------------------------------------------------------
(* Shutdown, also after a startup that failed.                              *)

\* Mutation of Following: one finally block closes everything in turn.
FollowingUnlessRaised(next, raised) == IF raised THEN "connect cache" ELSE next

\* The nested finally blocks.
Following(next, raised) == next

\* A client is given up whether its close returns or raises.
Close(this, next, what) ==
    /\ phase = this
    /\ \E raised \in BOOLEAN : phase' = Following(next, raised)
    /\ open' = open \ what
    /\ UNCHANGED <<vars, call>>

StopRelay == Close("stop relay", "close broker", {"relay"}) /\ UNCHANGED redis
CloseBroker == Close("close broker", "close cache", {"producer"}) /\ UNCHANGED redis
CloseCache == Close("close cache", "close storage", {redis}) /\ redis' = None
CloseStorage == Close("close storage", "dispose", {"storage"}) /\ UNCHANGED redis

\* The end of the process; it may be started again.
Dispose == Close("dispose", "connect cache", {"pool"}) /\ UNCHANGED redis

-----------------------------------------------------------------------------
(* RedisCache.connect, called by the invalidation of a request.             *)

\* There is no client: on to the lock.
AskForRedis(q) ==
    /\ pc[q] = "clearing"
    /\ call[q] = "none"
    /\ redis = None
    /\ call' = [call EXCEPT ![q] = "queued"]
    /\ UNCHANGED <<vars, phase, open, redis>>

Unlocked == \A r \in Requests : call[r] # "pinging"

\* Mutation of StillNeeded: no second look under the lock.
NeededAnyway == TRUE

StillNeeded == redis = None

\* The lock is free, and the client still missing or there by now.
EnterLock(q) ==
    /\ call[q] = "queued"
    /\ Unlocked
    /\ IF StillNeeded
       THEN call' = [call EXCEPT ![q] = "pinging"] /\ open' = open \cup {q}
       ELSE call' = [call EXCEPT ![q] = "none"] /\ UNCHANGED open
    /\ UNCHANGED <<vars, phase, redis>>

\* The PING is answered, or fails and the client is closed.
LeaveLock(q) ==
    /\ call[q] = "pinging"
    /\ call' = [call EXCEPT ![q] = "none"]
    /\ \/ redis' = q /\ UNCHANGED open
       \/ open' = open \ {q} /\ UNCHANGED redis
    /\ UNCHANGED <<vars, phase>>

-----------------------------------------------------------------------------
\* A step of a request; it begins while the service is up.
RequestStep(q) ==
    /\ phase \in {"serving", "draining"}
    /\ phase = "draining" => pc[q] # "new"
    /\ call[q] = "none"
    /\ Progress(q) \/ Rollback(q)
    /\ UNCHANGED lifeVars

ServiceNext ==
    \/ ConnectCache \/ ConnectStorage \/ ConnectBroker \/ StartRelay
    \/ Drain
    \/ StopRelay \/ CloseBroker \/ CloseCache \/ CloseStorage \/ Dispose
    \/ \E q \in Requests : RequestStep(q) \/ AskForRedis(q) \/ EnterLock(q) \/ LeaveLock(q)

ServiceSpec == ServiceInit /\ [][ServiceNext]_allVars

(***************************************************************************)
(* No client is left behind.  However many requests find Redis missing at  *)
(* once, one client is opened and kept; whatever raises an error on the    *)
(* way up or down, nothing is open when the process has ended; and the     *)
(* relay never outlives the producer it sends with.  A request cancelled   *)
(* in the PING of RedisCache.connect is left out: that is no error.        *)
(***************************************************************************)
ClientsAccounted ==
    /\ open \cap Clients = ({redis} \ {None}) \cup {q \in Requests : call[q] = "pinging"}
    /\ phase = "connect cache" => open = {}
    /\ "relay" \in open => "producer" \in open

-----------------------------------------------------------------------------
(* The inductive invariant.                                                 *)

\* What may be open in each phase.
OpenOK ==
    /\ open \subseteq Clients \cup Others
    /\ phase = "connect storage" => open \subseteq Clients
    /\ phase = "connect broker" => open \subseteq Clients \cup {"storage"}
    /\ phase \in {"start relay", "serving", "draining"} => "producer" \in open
    /\ phase = "start relay" => "relay" \notin open
    /\ phase = "close broker" => "relay" \notin open
    /\ phase = "close cache" => open \subseteq Clients \cup {"storage", "pool"}
    /\ phase = "close storage" => open \subseteq {"storage", "pool"}
    /\ phase = "dispose" => open \subseteq {"pool"}

CallsOK ==
    \A q \in Requests :
        /\ call[q] # "none" => pc[q] = "clearing"
        /\ call[q] = "pinging" => redis = None /\ \A r \in Requests \ {q} : call[r] # "pinging"
        /\ UnderWay(q) => phase \in {"serving", "draining"}

LifeTypeOK ==
    /\ phase \in {"connect cache", "connect storage", "connect broker", "start relay", "serving",
                  "draining", "stop relay", "close broker", "close cache", "close storage", "dispose"}
    /\ redis \in Clients \cup {None}
    /\ call \in [Requests -> {"none", "queued", "pinging"}]

LifeInv == LifeTypeOK /\ OpenOK /\ CallsOK /\ ClientsAccounted
=============================================================================
