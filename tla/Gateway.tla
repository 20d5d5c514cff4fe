------------------------------ MODULE Gateway ------------------------------
(***************************************************************************)
(* The API gateway and one service behind it: cmd/gateway/main.go, what the *)
(* service does to be found (pkg/registry, main) and, as far as these use   *)
(* them, the Nacos naming service and sentinel's circuit breaker.           *)
(*                                                                         *)
(* The gateway keeps a pool of instances of the service.  It fills it once  *)
(* from Nacos at the start, then two goroutines write to it: the callback   *)
(* of the subscription, with the lists Nacos pushes, and the poll loop, with*)
(* the answer to a query it made some time before.  Requests enter a        *)
(* circuit breaker, pick an instance of the pool and are forwarded to it.   *)
(*                                                                         *)
(* A process leaves Nacos only by being forgotten: log.Fatalf and signals   *)
(* end main without the deferred Deregister.                                *)
(***************************************************************************)
EXTENDS Integers, Sequences

CONSTANTS Instances,
          Requests,   \* slots of concurrent requests
          Idle,       \* no request in a slot; no poll under way
          MaxFaults   \* bound on lost pushes, refused calls, processes that end
                      \* and heartbeats that are late

ASSUME BoundAssumption == MaxFaults \in Nat
ASSUME IdleAssumption  == "entered" \notin Instances /\ Idle \notin Instances \union {"entered"}

VARIABLES
  proc,    \* the process of each instance: "down", "booted" or "serving"
  registered, \* c.registered of its client: heartbeats are sent
  entry,   \* Nacos' list: each instance "absent", "usable" or "unusable"
  gate,    \* how far the gateway is: "boot", "alone" (without a client),
           \* "prime", "subscribe" or "serving"
  watched, \* whether the subscription succeeded
  pool,    \* pool.instances
  poll,    \* the poll loop: Idle, or the list it was answered and whether
           \* that is an old one
  pushes,  \* lists pushed and not yet passed to the callback
  told,    \* history: the latest change has been pushed or polled
  breaker, \* sentinel: "closed", "open" or "half"
  req,     \* each request: Idle, "entered" or the instance it is sent to
  faults   \* budget used

registry == <<proc, registered, entry>>
requests == <<breaker, req>>
vars == <<registry, gate, watched, pool, poll, pushes, told, requests, faults>>

Lists == [Instances -> {"absent", "usable", "unusable"}]

Faults(n) == faults + n <= MaxFaults /\ faults' = faults + n
NoFault == Faults(0)
Fault == Faults(1)

\* Mutant of Healthy: instances are not filtered.
HealthyAll(list) == {i \in Instances : list[i] # "absent"}

\* What set keeps of a list: in.Healthy && in.Enable.
Healthy(list) == {i \in Instances : list[i] = "usable"}

-----------------------------------------------------------------------------
(* The service and Nacos *)

\* Nacos' list changes, at the cost of n faults.  A subscriber is pushed the new
\* list, unless the push gets lost.
Change(i, state, n) ==
  /\ entry[i] # state /\ entry' = [entry EXCEPT ![i] = state]
  /\ poll' = IF poll = Idle THEN Idle ELSE [poll EXCEPT !.old = TRUE]
  /\ \/ watched /\ pushes' = Append(pushes, entry') /\ told' = TRUE /\ Faults(n)
     \/ watched /\ UNCHANGED pushes /\ told' = FALSE /\ Faults(n + 1)
     \/ ~watched /\ UNCHANGED pushes /\ told' = FALSE /\ Faults(n)
  /\ UNCHANGED <<gate, watched, pool, requests>>

Boot(i, success) ==
  /\ proc[i] = "down"
  /\ proc' = [proc EXCEPT ![i] = "booted"]
  /\ registered' = [registered EXCEPT ![i] = success]

\* main of the service registers it before r.Run listens,
Register(i) == Boot(i, TRUE) /\ Change(i, "usable", 0)

\* ... also when Nacos has not yet forgotten the process before,
RegisterAgain(i) ==
  /\ Boot(i, TRUE) /\ entry[i] = "usable"
  /\ UNCHANGED <<entry, gate, watched, pool, poll, pushes, told, requests, faults>>

\* ... and goes on when that fails, never to try again.
RegisterFails(i) ==
  /\ Boot(i, FALSE) /\ Fault
  /\ UNCHANGED <<entry, gate, watched, pool, poll, pushes, told, requests>>

\* r.Run listens,
Run(i) ==
  /\ proc[i] = "booted"
  /\ proc' = [proc EXCEPT ![i] = "serving"]
  /\ UNCHANGED <<registered, entry, gate, watched, pool, poll, pushes, told, requests, faults>>

\* ... and fails or is killed: deregister does not run.
Stop(i) ==
  /\ proc[i] # "down" /\ Fault
  /\ proc' = [proc EXCEPT ![i] = "down"]
  /\ registered' = [registered EXCEPT ![i] = FALSE]
  /\ UNCHANGED <<entry, gate, watched, pool, poll, pushes, told, requests>>

\* Nacos drops an ephemeral instance without heartbeats (that it marks it unusable
\* before makes no difference to the gateway).
Expire(i) ==
  /\ ~registered[i] /\ entry[i] # "absent" /\ Change(i, "absent", 0)
  /\ UNCHANGED <<proc, registered>>

\* Heartbeats may be late, or an operator disables an instance; it comes back.
Flap(i) ==
  /\ registered[i] /\ \/ entry[i] = "usable" /\ Change(i, "unusable", 1)
                      \/ entry[i] = "unusable" /\ Change(i, "usable", 0)
  /\ UNCHANGED <<proc, registered>>

-----------------------------------------------------------------------------
(* The pool *)

\* BootstrapService returns a client, or nil: then the pools stay empty.
Bootstrap ==
  /\ gate = "boot"
  /\ \/ gate' = "prime" /\ NoFault
     \/ gate' = "alone" /\ Fault
  /\ UNCHANGED <<registry, watched, pool, poll, pushes, told, requests>>

\* primePool, an error of which main logs.
PrimePool ==
  /\ gate = "prime" /\ gate' = "subscribe"
  /\ \/ pool' = Healthy(entry) /\ told' = TRUE /\ NoFault
     \/ UNCHANGED <<pool, told>> /\ Fault
  /\ UNCHANGED <<registry, watched, poll, pushes, requests>>

\* Subscribe, likewise.
Subscribe ==
  /\ gate = "subscribe" /\ gate' = "serving"
  /\ \/ watched' = TRUE /\ NoFault
     \/ UNCHANGED watched /\ Fault
  /\ UNCHANGED <<registry, pool, poll, pushes, told, requests>>

\* The client reports an empty list as an error or as a list.
Reported(list) == {TRUE} \union {list # [i \in Instances |-> "absent"]}

\* The callback of the subscription, which ignores errors.
Callback ==
  /\ pushes # <<>>
  /\ pushes' = Tail(pushes)
  /\ \E reported \in Reported(Head(pushes)) :
       IF reported
       THEN pool' = Healthy(Head(pushes)) /\ UNCHANGED told
       ELSE UNCHANGED pool /\ told' = (told /\ pushes' # <<>>)
  /\ UNCHANGED <<registry, gate, watched, poll, requests, faults>>

\* pollLoop asks,
PollAsks ==
  /\ gate = "serving" /\ poll = Idle
  /\ poll' = [list |-> entry, old |-> FALSE]
  /\ UNCHANGED <<registry, gate, watched, pool, pushes, told, requests, faults>>

\* Mutant of PollSets: the poll only helps an empty pool.
PollFills ==
  /\ poll # Idle /\ poll' = Idle
  /\ IF pool = {} THEN pool' = Healthy(poll.list) /\ told' = (pushes = <<>> /\ ~poll.old)
                  ELSE UNCHANGED <<pool, told>>
  /\ UNCHANGED <<registry, gate, watched, pushes, requests, faults>>

\* ... and sets the answer, without asking what the callback has done since,
PollSets ==
  /\ poll # Idle /\ poll' = Idle
  /\ pool' = Healthy(poll.list)
  /\ told' = IF pushes = <<>> THEN ~poll.old ELSE told
  /\ UNCHANGED <<registry, gate, watched, pushes, requests, faults>>

\* ... or drops it when there is an error.
PollFails ==
  /\ poll # Idle /\ poll' = Idle
  /\ IF FALSE \in Reported(poll.list) THEN NoFault ELSE Fault
  /\ UNCHANGED <<registry, gate, watched, pool, pushes, told, requests>>

-----------------------------------------------------------------------------
(* Requests: handleProxy *)

\* sentinel.Entry admits a request; an open breaker half-opens for it once its
\* timeout is over.  A request that is refused changes nothing.
Entry(r) ==
  /\ gate \in {"alone", "serving"} /\ req[r] = Idle
  /\ breaker # "half"
  /\ breaker' = IF breaker = "open" THEN "half" ELSE breaker
  /\ req' = [req EXCEPT ![r] = "entered"]
  /\ UNCHANGED <<registry, gate, watched, pool, poll, pushes, told, faults>>

\* The deferred entry.Exit tells the breaker how the request ended: an error may
\* open it, and decides what becomes of a half-open one.
Exit(r, error) ==
  /\ req' = [req EXCEPT ![r] = Idle]
  /\ \/ error /\ breaker' = "open"
     \/ ~error /\ breaker = "half" /\ breaker' = "closed"
     \/ (~error \/ breaker = "closed") /\ breaker # "half" /\ UNCHANGED breaker
  /\ UNCHANGED <<registry, gate, watched, pool, poll, pushes, told, faults>>

\* Mutant of NoInstance: the entry is exited on the other paths only.
NoInstanceStays(r) ==
  /\ req[r] = "entered" /\ pool = {}
  /\ req' = [req EXCEPT ![r] = Idle]
  /\ UNCHANGED <<registry, gate, watched, pool, poll, pushes, told, breaker, faults>>

\* pick finds the pool empty: 502, an error to the breaker.
NoInstance(r) == req[r] = "entered" /\ pool = {} /\ Exit(r, TRUE)

\* pick chooses an instance and the request is sent there.
Pick(r) ==
  /\ req[r] = "entered"
  /\ \E i \in pool : req' = [req EXCEPT ![r] = i]
  /\ UNCHANGED <<registry, gate, watched, pool, poll, pushes, told, breaker, faults>>

\* The instance answers, a 5xx being an error; only a process that listens does.
\* Without an answer, ErrorHandler runs: nobody listens or the client gives up.
Finish(r) ==
  /\ req[r] \in Instances
  /\ \E error \in BOOLEAN : (~error => proc[req[r]] = "serving") /\ Exit(r, error)

-----------------------------------------------------------------------------
Init ==
  /\ proc = [i \in Instances |-> "down"]
  /\ registered = [i \in Instances |-> FALSE]
  /\ entry = [i \in Instances |-> "absent"]
  /\ gate = "boot" /\ watched = FALSE
  /\ pool = {} /\ poll = Idle /\ pushes = <<>> /\ told = FALSE
  /\ breaker = "closed" /\ req = [r \in Requests |-> Idle]
  /\ faults = 0

Service(i) == Register(i) \/ RegisterAgain(i) \/ RegisterFails(i) \/ Run(i) \/ Stop(i)
Nacos(i)   == Expire(i) \/ Flap(i)
Main       == Bootstrap \/ PrimePool \/ Subscribe
PollLoop   == PollAsks \/ PollSets \/ PollFails
HandleProxy(r) == NoInstance(r) \/ Pick(r) \/ Finish(r)

Next ==
  \/ \E i \in Instances : Service(i) \/ Nacos(i)
  \/ Main \/ Callback \/ PollLoop
  \/ \E r \in Requests : Entry(r) \/ HandleProxy(r)

\* main, the callback, the ticker of the poll loop and the goroutine of an
\* admitted request go on; a poll is not refused for ever; a booted process
\* gets to listen, and Nacos forgets a dead one.  nginx gives up on a request
\* after a minute.  Nobody has to register, stop or send a request.
Fairness ==
  /\ WF_vars(Main) /\ WF_vars(Callback) /\ WF_vars(PollLoop)
  /\ \A i \in Instances : WF_vars(Run(i)) /\ WF_vars(Expire(i))
  /\ \A r \in Requests : WF_vars(HandleProxy(r))

Spec == Init /\ [][Next]_vars /\ Fairness

-----------------------------------------------------------------------------
(* Properties *)

TypeOK ==
  /\ proc \in [Instances -> {"down", "booted", "serving"}]
  /\ registered \in [Instances -> BOOLEAN]
  /\ entry \in Lists
  /\ gate \in {"boot", "alone", "prime", "subscribe", "serving"}
  /\ watched \in BOOLEAN /\ told \in BOOLEAN
  /\ pool \subseteq Instances
  /\ poll = Idle \/ poll \in [list : Lists, old : BOOLEAN]
  /\ pushes \in Seq(Lists)
  /\ breaker \in {"closed", "open", "half"}
  /\ req \in [Requests -> Instances \union {Idle, "entered"}]
  /\ faults \in 0..MaxFaults

\* The instances Nacos lists as healthy and enabled.
Usable == {i \in Instances : entry[i] = "usable"}

\* Callback and poll loop write the pool in any order.  Once what Nacos pushed has
\* been taken, the pool is Nacos' list, provided that the latest change was pushed
\* or polled and the last answer set was not overtaken by it.
FreshOnceTold == told /\ pushes = <<>> => pool = Usable

\* Lost pushes, refused calls and old answers are made up for by the poll: in the
\* end the pool is Nacos' list and everyone in it listens.  (Without a client, or
\* if the list is empty and the SDK says so with an error, nobody tells the pool.)
PoolSettles ==
  <>[](gate = "serving" /\ Usable # {} =>
         pool = Usable /\ \A i \in pool : proc[i] = "serving")

\* A half-open breaker admits nobody, so the request it was opened for must come
\* back to it on every path of handleProxy, or all requests are refused for ever.
HalfOpenEnds == (breaker = "half") ~> (breaker # "half")
=============================================================================
