---- MODULE Ownership ----
(***************************************************************************)
(* Who serves a room: the owner epoch in PostgreSQL, the leased route and  *)
(* the registrations of workers in Redis (redis-coordinator.ts), the       *)
(* sessions of Room Workers (worker.ts), the Gateways' router (router.ts)  *)
(* and their calls, which are tried twice (gateway.ts); and the outbox row *)
(* of a decided operation, which any worker may dispatch.  One room; what  *)
(* is in its document is left to RoomWorkers.                              *)
(*                                                                         *)
(* Epochs are only compared for equality, and with the instance that       *)
(* claimed them: an owner record is a worker and a number, and a number    *)
(* nothing refers to any more is used again.                               *)
(*                                                                         *)
(* Time is left out but for what it ends: a lease nobody renews, a lock,   *)
(* and the five seconds for which a Gateway avoids a worker.               *)
(***************************************************************************)
EXTENDS Naturals, FiniteSets, FiniteSetsExt, Functions

CONSTANTS
    Workers,
    Gateways,   \* each with one client, which has one request at a time
    Asks,       \* what each client asks for: "submit", "snapshot"
    Score,      \* the router's order of the workers for this room
    Nobody,
    MaxFaults   \* bound on crashes, drains, evictions and failing calls

ASSUME ProcessesAssumption == IsFiniteSet(Workers) /\ IsFiniteSet(Gateways)
ASSUME NobodyAssumption == Nobody \notin [worker : Workers, epoch : Nat]
ASSUME ScoreAssumption == Score \in [Workers -> Nat] /\ IsInjective(Score)
ASSUME AsksAssumption == Asks \in [Gateways -> SUBSET {"submit", "snapshot"}]
ASSUME FaultsAssumption == MaxFaults \in Nat

Numbers == 1 .. 2 + 3 * Cardinality(Gateways) + MaxFaults
OwnerRecord == [worker : Workers, epoch : Numbers]

VARIABLES
    head,        \* document_head.owner_instance_id and owner_epoch
    route,       \* the owner key of the room in Redis
    registered,  \* workers whose registration is in Redis
    up,          \* "up", "draining" from close(), "closing" once unregistered, "down"
    ses,         \* the epoch of the worker's warm session, 0 when it has none
    act,         \* doActivate: "none", "loading" with its epoch, "publishing"
    lost,        \* a renewal was refused, maintainSessions has not gone on yet
    req,         \* the Gateway's request
    avoid,       \* workers with unhealthyUntil in the future
    orphans,     \* epochs of sessions with a task in the mailbox whose caller gave up
    row,         \* the outbox row of the operation that is followed
    lock,        \* the worker whose locked_until has not passed
    published,   \* the row's event was published
    dispatch,    \* dispatchOutbox of the worker: "idle", "publish", "mark"
    faults

redisVars  == <<route, registered>>
workerVars == <<up, ses, act, lost, orphans>>
outboxVars == <<row, lock, published, dispatch>>
vars == <<head, redisVars, workerVars, req, avoid, outboxVars, faults>>

Idle      == [at |-> "idle", kind |-> "submit", attempt |-> 0, rec |-> Nobody, ses |-> 0]
NotActive == [at |-> "none", epoch |-> 0]
Rec(w, e) == [worker |-> w, epoch |-> e]
Live(w)   == up[w] # "down"

\* Where the router sends a request: to the published owner, or to the healthy
\* worker with the highest score, to be activated.
Best(ws) == CHOOSE w \in ws : \A v \in ws : Score[v] <= Score[w]

\* The requests at w that wait for doActivate, or are in its mailbox.
Waiting(w) == {g \in Gateways : req[g].at \in {"activating", "joining"} /\ req[g].rec.worker = w}
Queued(w)  == {g \in Gateways : req[g].at = "queued" /\ req[g].rec.worker = w}

Records(w) == {r \in {route, head} \cup {req[g].rec : g \in Gateways} : r # Nobody /\ r.worker = w}
InUse(w) ==
    {ses[w], act[w].epoch} \cup orphans[w] \cup {r.epoch : r \in Records(w)}
      \cup {req[g].ses : g \in Queued(w)}

Init ==
    /\ head = Nobody /\ route = Nobody
    /\ registered = Workers
    /\ up = [w \in Workers |-> "up"]
    /\ ses = [w \in Workers |-> 0]
    /\ act = [w \in Workers |-> NotActive]
    /\ lost = [w \in Workers |-> FALSE]
    /\ orphans = [w \in Workers |-> {}]
    /\ req = [g \in Gateways |-> Idle]
    /\ avoid = [g \in Gateways |-> {}]
    /\ row = "none" /\ lock = Nobody /\ published = FALSE
    /\ dispatch = [w \in Workers |-> "idle"]
    /\ faults = 0

Fault == faults < MaxFaults /\ faults' = faults + 1

----------------------------------------------------------------------------
(* The Gateway: submit and fetchSnapshot.                                  *)

\* router.resolve: the published owner, or else the best worker, to be activated;
\* it throws when no worker is registered and not avoided.
Resolved(g, r, owner) ==
    LET healthy == registered \ avoid'[g]
    IN  IF owner # Nobody /\ owner.worker \notin avoid'[g]
        THEN [r EXCEPT !.at = "call", !.rec = owner]
        ELSE IF healthy = {} THEN [r EXCEPT !.at = "failed", !.rec = Nobody]
        ELSE [r EXCEPT !.at = "activate", !.rec = Rec(Best(healthy), 0)]

\* A request of a client: an operation, or a synchronization.  The operation whose event
\* is followed through the outbox is the last one.
Ask(g) ==
    /\ req[g].at = "idle" /\ row = "none"
    /\ UNCHANGED avoid
    /\ \E k \in Asks[g] : req' = [req EXCEPT ![g] = Resolved(g, [Idle EXCEPT !.kind = k], route)]
    /\ UNCHANGED <<head, redisVars, workerVars, outboxVars, faults>>

\* The client was told retryLater, or an HTTP status, and asks again.
AskAgain(g) ==
    /\ req[g].at = "failed"
    /\ UNCHANGED avoid
    /\ req' = [req EXCEPT ![g] = Resolved(g, [Idle EXCEPT !.kind = req[g].kind], route)]
    /\ UNCHANGED <<head, redisVars, workerVars, outboxVars, faults>>

\* Mutant: the session a failed request was queued for stays with it.
FailedQueued(r) == IF r.at \in {"activate", "activating"}
                   THEN [r EXCEPT !.at = "failed", !.rec = Nobody]
                   ELSE [r EXCEPT !.at = "invalidate"]

\* A call that fails: resolve throws, submit and fetchSnapshot invalidate the route.
Failed(r) == IF r.at \in {"activate", "activating"}
             THEN [r EXCEPT !.at = "failed", !.rec = Nobody]
             ELSE [r EXCEPT !.at = "invalidate", !.ses = 0]

\* No answer in five seconds, a broken connection, or an error of the worker's
\* database.  What is in a mailbox stays there.
CallFails(g) ==
    /\ req[g].at \in {"activate", "activating", "call", "joining", "queued"}
    /\ Fault
    /\ req' = [req EXCEPT ![g] = Failed(@)]
    /\ orphans' = IF req[g].at = "queued"
                  THEN [orphans EXCEPT ![req[g].rec.worker] = @ \cup {req[g].ses}]
                  ELSE orphans
    /\ UNCHANGED <<head, redisVars, up, ses, act, lost, avoid, outboxVars>>

\* The worker is gone, or draining and answers 503.
Refused(g) ==
    /\ req[g].at \in {"activate", "call"} /\ up[req[g].rec.worker] # "up"
    /\ req' = [req EXCEPT ![g] = Failed(@)]
    /\ UNCHANGED <<head, redisVars, workerVars, avoid, outboxVars, faults>>

Released(rec) == IF route = rec THEN Nobody ELSE route

\* router.invalidate, then the second attempt or the error.
Invalidate(g) ==
    LET r == req[g]
    IN  /\ r.at = "invalidate"
        /\ avoid' = [avoid EXCEPT ![g] = @ \cup {r.rec.worker}]
        /\ route' = Released(r.rec)
        /\ req' = [req EXCEPT ![g] = IF r.attempt = 0
                                     THEN Resolved(g, [r EXCEPT !.attempt = 1], route')
                                     ELSE [r EXCEPT !.at = "failed", !.rec = Nobody]]
        /\ UNCHANGED <<head, registered, workerVars, outboxVars, faults>>

\* Mutant: a worker whose call failed is avoided for good.
NeverHealthyAgain(g, w) == FALSE /\ UNCHANGED vars

\* unhealthyUntil passes.
HealthyAgain(g, w) ==
    /\ w \in avoid[g]
    /\ avoid' = [avoid EXCEPT ![g] = @ \ {w}]
    /\ UNCHANGED <<head, redisVars, workerVars, req, outboxVars, faults>>

----------------------------------------------------------------------------
(* The Room Worker.                                                        *)

\* The answer to a request that has session e of its worker.
Served(r, e) ==
    IF r.at \in {"activate", "activating"} THEN [r EXCEPT !.at = "call", !.rec = Rec(r.rec.worker, e)]
    ELSE IF r.kind = "submit" THEN [r EXCEPT !.at = "queued", !.ses = e]
    ELSE Idle

\* activate: the warm session, whoever owns the room by now.
FindSession(g) ==
    LET w == req[g].rec.worker
    IN  /\ req[g].at \in {"activate", "call"} /\ up[w] = "up" /\ ses[w] # 0
        /\ req' = [req EXCEPT ![g] = Served(@, ses[w])]
        /\ UNCHANGED <<head, redisVars, workerVars, avoid, outboxVars, faults>>

Joined(r) == [r EXCEPT !.at = IF @ = "activate" THEN "activating" ELSE "joining"]

\* activate: the activation in flight.
JoinActivation(g) ==
    LET w == req[g].rec.worker
    IN  /\ req[g].at \in {"activate", "call"} /\ up[w] = "up" /\ ses[w] = 0 /\ act[w].at # "none"
        /\ req' = [req EXCEPT ![g] = Joined(@)]
        /\ UNCHANGED <<head, redisVars, workerVars, avoid, outboxVars, faults>>

\* doActivate up to claimOwnership.
Claimed(w) ==
    LET e == Min(Numbers \ InUse(w))
    IN  /\ up[w] = "up" /\ ses[w] = 0 /\ act[w].at = "none"
        /\ head' = Rec(w, e)
        /\ act' = [act EXCEPT ![w] = [at |-> "loading", epoch |-> e]]
        /\ UNCHANGED <<redisVars, up, ses, lost, orphans, avoid, outboxVars>>

Claim(g) ==
    /\ req[g].at \in {"activate", "call"} /\ Claimed(req[g].rec.worker)
    /\ req' = [req EXCEPT ![g] = Joined(@)]
    /\ UNCHANGED faults

\* A request of another Gateway, which read the route at another time or avoids
\* other workers.
ClaimForOther(w) == Claimed(w) /\ Fault /\ UNCHANGED req

\* doActivate up to sessions.set.
Load(w) ==
    /\ act[w].at = "loading"
    /\ ses' = [ses EXCEPT ![w] = act[w].epoch]
    /\ act' = [act EXCEPT ![w].at = "publishing"]
    /\ UNCHANGED <<head, redisVars, up, lost, orphans, req, avoid, outboxVars, faults>>

\* publishOwner overwrites whatever the key holds; whoever waits goes on.
PublishOwner(w) ==
    /\ act[w].at = "publishing"
    /\ route' = Rec(w, act[w].epoch)
    /\ act' = [act EXCEPT ![w] = NotActive]
    /\ req' = [g \in Gateways |-> IF g \in Waiting(w) THEN Served(req[g], act[w].epoch) ELSE req[g]]
    /\ UNCHANGED <<head, registered, up, ses, lost, orphans, avoid, outboxVars, faults>>

\* A query of the load, or publishOwner, throws: the session may be in the map already.
ActivationFails(w) ==
    /\ act[w].at # "none"
    /\ Fault
    /\ act' = [act EXCEPT ![w] = NotActive]
    /\ req' = [g \in Gateways |-> IF g \in Waiting(w) THEN Failed(req[g]) ELSE req[g]]
    /\ UNCHANGED <<head, redisVars, up, ses, lost, orphans, avoid, outboxVars>>

\* The transaction of commit or recordReceipt: only the owner's goes through.
Fenced(w, e) == head # Rec(w, e)

\* The outbox row of a decided operation: one operation is followed.
Followed == IF row = "none" THEN {"none", "pending"} ELSE {row}

\* process, of a request or of a task whose caller gave up: a fenced one deletes the
\* session of the room, be it its own or a later one.
Process(g) ==
    LET r == req[g]
        w == r.rec.worker
    IN  /\ r.at = "queued"
        /\ IF Fenced(w, r.ses)
           THEN /\ ses' = [ses EXCEPT ![w] = 0]
                /\ req' = [req EXCEPT ![g] = IF r.attempt = 0 THEN [@ EXCEPT !.at = "invalidate", !.ses = 0]
                                             ELSE [@ EXCEPT !.at = "failed", !.rec = Nobody, !.ses = 0]]
                /\ UNCHANGED row
           ELSE /\ req' = [req EXCEPT ![g] = Idle]
                /\ row' \in Followed
                /\ UNCHANGED ses
        /\ UNCHANGED <<head, redisVars, up, act, lost, orphans, avoid, lock, published, dispatch, faults>>

ProcessOrphan(w, e) ==
    /\ e \in orphans[w]
    /\ orphans' = [orphans EXCEPT ![w] = @ \ {e}]
    /\ IF Fenced(w, e)
       THEN ses' = [ses EXCEPT ![w] = 0] /\ UNCHANGED row
       ELSE row' \in Followed /\ UNCHANGED ses
    /\ UNCHANGED <<head, redisVars, up, act, lost, req, avoid, lock, published, dispatch, faults>>

\* Mutant: a renewal is refused when the route is gone, not when it is another's.
DropUnrouted(w) ==
    /\ up[w] = "up" /\ ses[w] # 0 /\ act[w].at # "publishing"
    /\ route = Nobody
    /\ ses' = [ses EXCEPT ![w] = 0]
    /\ UNCHANGED <<head, redisVars, up, act, lost, orphans, req, avoid, outboxVars, faults>>

\* maintainSessions: renewOwner compares the route with the session's record, and a
\* session whose record is not there is dropped.  That the timer fires while the route
\* is being published counts as a fault, see RenewFails.
DropUnrenewed(w) ==
    /\ up[w] = "up" /\ ses[w] # 0 /\ act[w].at # "publishing"
    /\ route # Rec(w, ses[w])
    /\ ses' = [ses EXCEPT ![w] = 0]
    /\ UNCHANGED <<head, redisVars, up, act, lost, orphans, req, avoid, outboxVars, faults>>

\* The renewal meets a Redis that fails or a route not published yet, or its refusal is
\* long under way ...
RenewFails(w) ==
    /\ up[w] = "up" /\ ses[w] # 0 /\ ~lost[w]
    /\ Fault
    /\ lost' = [lost EXCEPT ![w] = TRUE]
    /\ UNCHANGED <<head, redisVars, up, ses, act, orphans, req, avoid, outboxVars>>

\* ... and the session of the room is dropped, be it the one asked about or a later one.
DropSession(w) ==
    /\ lost[w]
    /\ ses' = [ses EXCEPT ![w] = 0]
    /\ lost' = [lost EXCEPT ![w] = FALSE]
    /\ UNCHANGED <<head, redisVars, up, act, orphans, req, avoid, outboxVars, faults>>

\* evictSession: a room that is idle, or the oldest when the worker is full.
Evict(w) ==
    /\ up[w] = "up" /\ ses[w] # 0 /\ Queued(w) = {} /\ orphans[w] = {}
    /\ Fault
    /\ ses' = [ses EXCEPT ![w] = 0]
    /\ route' = Released(Rec(w, ses[w]))
    /\ UNCHANGED <<head, registered, up, act, lost, orphans, req, avoid, outboxVars>>
----------------------------------------------------------------------------
(* Processes that end, and what expires in Redis.                          *)

\* The process is gone, and with it what it was doing.
Crash(w) ==
    /\ Live(w)
    /\ Fault
    /\ up' = [up EXCEPT ![w] = "down"]
    /\ ses' = [ses EXCEPT ![w] = 0]
    /\ act' = [act EXCEPT ![w] = NotActive]
    /\ lost' = [lost EXCEPT ![w] = FALSE]
    /\ orphans' = [orphans EXCEPT ![w] = {}]
    /\ req' = [g \in Gateways |-> IF g \in Waiting(w) \cup Queued(w) THEN Failed(req[g]) ELSE req[g]]
    /\ dispatch' = [dispatch EXCEPT ![w] = "idle"]
    /\ UNCHANGED <<head, redisVars, avoid, row, lock, published>>

\* close() refuses requests from now on, and stops its timers ...
Drain(w) ==
    /\ up[w] = "up"
    /\ Fault
    /\ up' = [up EXCEPT ![w] = "draining"]
    /\ UNCHANGED <<head, redisVars, ses, act, lost, orphans, req, avoid, outboxVars>>

\* ... releases the rooms whose mailboxes are empty and takes back the registration;
\* an activation under way is not waited for ...
Unregister(w) ==
    /\ up[w] = "draining" /\ Queued(w) = {} /\ orphans[w] = {}
    /\ route' = Released(Rec(w, ses[w]))
    /\ ses' = [ses EXCEPT ![w] = 0]
    /\ registered' = registered \ {w}
    /\ up' = [up EXCEPT ![w] = "closing"]
    /\ UNCHANGED <<head, act, lost, orphans, req, avoid, outboxVars, faults>>

\* ... and ends with the last request.
Exit(w) ==
    /\ up[w] = "closing" /\ act[w].at = "none"
    /\ Waiting(w) \cup Queued(w) = {} /\ orphans[w] = {} /\ dispatch[w] = "idle"
    /\ up' = [up EXCEPT ![w] = "down"]
    /\ ses' = [ses EXCEPT ![w] = 0]
    /\ lost' = [lost EXCEPT ![w] = FALSE]
    /\ UNCHANGED <<head, redisVars, act, orphans, req, avoid, outboxVars, faults>>

\* start() under the same instance id.
Restart(w) ==
    /\ up[w] = "down"
    /\ up' = [up EXCEPT ![w] = "up"]
    /\ registered' = registered \cup {w}
    /\ UNCHANGED <<head, route, ses, act, lost, orphans, req, avoid, outboxVars, faults>>

\* A lease is renewed while its worker has the session it names.
Renewed(r) == up[r.worker] = "up" /\ ses[r.worker] = r.epoch

RouteExpires ==
    /\ route # Nobody /\ ~Renewed(route)
    /\ route' = Nobody
    /\ UNCHANGED <<head, registered, workerVars, req, avoid, outboxVars, faults>>

RegistrationExpires(w) ==
    /\ w \in registered /\ ~Live(w)
    /\ registered' = registered \ {w}
    /\ UNCHANGED <<head, route, workerVars, req, avoid, outboxVars, faults>>

\* Redis loses its keys, or a live process stalls for longer than a lease.
RedisForgets ==
    /\ Fault
    /\ \/ route # Nobody /\ route' = Nobody /\ UNCHANGED registered
       \/ \E w \in registered : registered' = registered \ {w} /\ UNCHANGED route
    /\ UNCHANGED <<head, workerVars, req, avoid, outboxVars>>

Heartbeat(w) ==
    /\ up[w] \in {"up", "draining"} /\ w \notin registered
    /\ registered' = registered \cup {w}
    /\ UNCHANGED <<head, route, workerVars, req, avoid, outboxVars, faults>>

----------------------------------------------------------------------------
(* The outbox.                                                             *)

\* Mutant: the row is marked before its event is published.
ClaimOutboxDelivered(w) ==
    /\ up[w] = "up" /\ dispatch[w] = "idle"
    /\ row = "pending" /\ lock = Nobody
    /\ row' = "delivered" /\ UNCHANGED lock
    /\ dispatch' = [dispatch EXCEPT ![w] = "publish"]
    /\ UNCHANGED <<head, redisVars, workerVars, req, avoid, published, faults>>

\* claimOutbox: a row that is not delivered and not locked.
ClaimOutbox(w) ==
    /\ up[w] = "up" /\ dispatch[w] = "idle"
    /\ row = "pending" /\ lock = Nobody
    /\ lock' = w
    /\ dispatch' = [dispatch EXCEPT ![w] = "publish"]
    /\ UNCHANGED <<head, redisVars, workerVars, req, avoid, row, published, faults>>

PublishEvent(w) ==
    /\ dispatch[w] = "publish"
    /\ published' = TRUE
    /\ dispatch' = [dispatch EXCEPT ![w] = "mark"]
    /\ UNCHANGED <<head, redisVars, workerVars, req, avoid, row, lock, faults>>

MarkDelivered(w) ==
    /\ dispatch[w] = "mark"
    /\ row' = "delivered" /\ lock' = Nobody
    /\ dispatch' = [dispatch EXCEPT ![w] = "idle"]
    /\ UNCHANGED <<head, redisVars, workerVars, req, avoid, published, faults>>

\* Redis or PostgreSQL fails: the lock is left to expire.
DispatchFails(w) ==
    /\ dispatch[w] # "idle"
    /\ Fault
    /\ dispatch' = [dispatch EXCEPT ![w] = "idle"]
    /\ UNCHANGED <<head, redisVars, workerVars, req, avoid, row, lock, published>>

\* Mutant: a locked row is nobody else's.
LockStays == FALSE /\ UNCHANGED vars

\* Ten seconds have passed, whatever its holder is doing.
LockExpires ==
    /\ lock # Nobody
    /\ lock' = Nobody
    /\ UNCHANGED <<head, redisVars, workerVars, req, avoid, row, published, dispatch, faults>>

----------------------------------------------------------------------------
GatewaySteps(g) ==
    \/ AskAgain(g) \/ Refused(g) \/ Invalidate(g)
    \/ FindSession(g) \/ JoinActivation(g) \/ Claim(g) \/ Process(g)

WorkerSteps(w) ==
    \/ Load(w) \/ PublishOwner(w) \/ DropUnrenewed(w) \/ DropSession(w)
    \/ Unregister(w) \/ Exit(w)
    \/ \E e \in Numbers : ProcessOrphan(w, e)

Dispatching(w) == ClaimOutbox(w) \/ PublishEvent(w) \/ MarkDelivered(w)

Next ==
    \/ \E g \in Gateways :
          \/ Ask(g) \/ CallFails(g) \/ GatewaySteps(g)
          \/ \E w \in Workers : HealthyAgain(g, w)
    \/ \E w \in Workers :
          \/ WorkerSteps(w) \/ Dispatching(w)
          \/ ClaimForOther(w) \/ ActivationFails(w) \/ RenewFails(w) \/ Evict(w) \/ Crash(w) \/ Drain(w)
          \/ Restart(w) \/ RegistrationExpires(w) \/ Heartbeat(w) \/ DispatchFails(w)
    \/ RouteExpires \/ RedisForgets \/ LockExpires

Spec == Init /\ [][Next]_vars

Fairness ==
    /\ \A g \in Gateways :
          /\ WF_vars(GatewaySteps(g))
          /\ \A w \in Workers : WF_vars(HealthyAgain(g, w))
    /\ \A w \in Workers :
          /\ WF_vars(Load(w) \/ PublishOwner(w))
          /\ WF_vars(DropUnrenewed(w) \/ DropSession(w))
          /\ WF_vars(Unregister(w) \/ Exit(w)) /\ WF_vars(Restart(w))
          /\ WF_vars(\E e \in Numbers : ProcessOrphan(w, e))
          /\ WF_vars(RegistrationExpires(w)) /\ WF_vars(Heartbeat(w))
          /\ WF_vars(Dispatching(w))
    /\ WF_vars(RouteExpires) /\ WF_vars(LockExpires)

LiveSpec == Spec /\ Fairness

----------------------------------------------------------------------------
\* Types; and a Gateway knows whom it called.
TypeOK ==
    /\ head \in OwnerRecord \cup {Nobody} /\ route \in OwnerRecord \cup {Nobody}
    /\ registered \subseteq Workers
    /\ up \in [Workers -> {"up", "draining", "closing", "down"}]
    /\ ses \in [Workers -> Numbers \cup {0}]
    /\ act \in [Workers -> [at : {"loading", "publishing"}, epoch : Numbers] \cup {NotActive}]
    /\ lost \in [Workers -> BOOLEAN]
    /\ orphans \in [Workers -> SUBSET Numbers]
    /\ \A g \in Gateways :
          /\ req[g].at \in {"idle", "activate", "activating", "call", "joining",
                            "queued", "invalidate", "failed"}
          /\ req[g].at \in {"idle", "failed"} <=> req[g].rec = Nobody
          /\ req[g].at \in {"activate", "activating"} <=> req[g].rec # Nobody /\ req[g].rec.epoch = 0
          /\ req[g].at = "queued" <=> req[g].ses # 0
    /\ avoid \in [Gateways -> SUBSET Workers]
    /\ row \in {"none", "pending", "delivered"} /\ lock \in Workers \cup {Nobody}
    /\ published \in BOOLEAN
    /\ dispatch \in [Workers -> {"idle", "publish", "mark"}]
    /\ faults \in 0 .. MaxFaults

\* markOutboxDelivered (postgres-store.ts) never takes an event out of the outbox that no
\* dispatcher has published, whichever of them crash, fail or outlive their locks.
DeliveredWasPublished == row = "delivered" => published

\* submit (gateway.ts): with calls that time out, workers that crash, drain or lose their
\* leases, and routes that are stale, a request that is repeated is answered in the end.
Decided == \A g \in Gateways : req[g].at # "idle" ~> req[g].at = "idle"

\* maintainSessions and publishOwner (worker.ts): workers do not go on taking the room
\* from each other; in the end at most one has a session of it.
OneWorkerInTheEnd == <>[](Cardinality({w \in Workers : ses[w] # 0}) <= 1)

\* dispatchOutbox (worker.ts): the event of a decided operation is published in the end.
EventsPublished == row = "pending" ~> published
====
