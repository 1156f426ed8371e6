--------------------------- MODULE DesktopProviderProofs ---------------------------
(***************************************************************************)
(* The providers, for every set of projects and every bound: the           *)
(* connection to Codex, with the user's choice and whose the usage is, and *)
(* what becomes of the sessions.                                           *)
(***************************************************************************)
EXTENDS DesktopInvariant, FiniteSetTheorems, FunctionTheorems, TLAPS

(***************************************************************************)
(* The connection.                                                         *)
(***************************************************************************)

LEMMA ConnectionConstants ==
    /\ NoScope \notin Scopes /\ MaxMeasures \in Nat /\ Connection!Measures = 1..MaxMeasures
    /\ Connection!Callers = {"main", "restore"}
    /\ \A S : Connection!Cardinality(S) = Cardinality(S)
<1>1. \A S : Connection!Cardinality(S) = Cardinality(S)
  BY Zenon DEF Connection!Cardinality, Cardinality
<1>2. NoScope \notin Scopes /\ MaxMeasures \in Nat
  BY ConnectionAssumption DEF Connection!ScopesAssumption, Connection!ConnectionBounds
<1>. QED  BY <1>1, <1>2 DEF Connection!Measures, Connection!Callers

----------------------------------------------------------------------------------
(* What waits to be appended.                                                    *)

\* How many of what waits are of a kind.
At(q, ds) == {n \in DOMAIN q : q[n] \in ds}
Count(q, ds) == Cardinality(At(q, ds))

LEMMA CountNatural ==
    ASSUME NEW q \in Seq(Deltas), NEW ds
    PROVE  IsFiniteSet(At(q, ds)) /\ Count(q, ds) \in Nat
<1>1. At(q, ds) \in SUBSET (1..Len(q)) /\ Len(q) \in Nat
  BY DEF At
<1>2. IsFiniteSet(1..Len(q))
  BY <1>1, FS_Interval
<1>. QED  BY <1>1, <1>2, FS_Subset, FS_CardinalityType DEF Count

LEMMA EmptyCount ==
    ASSUME NEW ds PROVE Count(<<>>, ds) = 0
<1>1. At(<<>>, ds) = {}
  BY DEF At
<1>. QED  BY <1>1, FS_EmptySet DEF Count

LEMMA AppendCount ==
    ASSUME NEW q \in Seq(Deltas), NEW e \in Deltas, NEW ds
    PROVE  Count(Append(q, e), ds) = Count(q, ds) + IF e \in ds THEN 1 ELSE 0
<1>0. Len(q) \in Nat
  OBVIOUS
<1>1. /\ Len(Append(q, e)) = Len(q) + 1 /\ Append(q, e)[Len(q) + 1] = e
      /\ \A n \in 1..Len(q) : Append(q, e)[n] = q[n]
      /\ DOMAIN Append(q, e) = 1..(Len(q) + 1) /\ DOMAIN q = 1..Len(q)
  OBVIOUS
<1>2. CASE e \in ds
  <2>1. At(Append(q, e), ds) = At(q, ds) \cup {Len(q) + 1}
    BY <1>0, <1>1, <1>2 DEF At
  <2>2. Len(q) + 1 \notin At(q, ds)
    BY <1>0, <1>1 DEF At
  <2>. QED  BY <1>2, <2>1, <2>2, CountNatural, FS_AddElement DEF Count
<1>3. CASE e \notin ds
  <2>1. At(Append(q, e), ds) = At(q, ds)
    BY <1>0, <1>1, <1>3 DEF At
  <2>. QED  BY <1>3, <2>1, CountNatural DEF Count
<1>. QED  BY <1>2, <1>3

LEMMA TailCount ==
    ASSUME NEW q \in Seq(Deltas), q # <<>>, NEW ds
    PROVE  /\ Head(q) \in Deltas /\ Tail(q) \in Seq(Deltas)
           /\ Count(q, ds) = Count(Tail(q), ds) + IF Head(q) \in ds THEN 1 ELSE 0
<1>0. /\ Len(q) \in Nat \ {0} /\ Head(q) = q[1] /\ q[1] \in Deltas /\ Tail(q) \in Seq(Deltas)
      /\ Len(Tail(q)) = Len(q) - 1 /\ DOMAIN q = 1..Len(q) /\ DOMAIN Tail(q) = 1..(Len(q) - 1)
      /\ \A n \in 1..(Len(q) - 1) : Tail(q)[n] = q[n + 1]
  OBVIOUS
<1>1. PICK rest \in SUBSET (2..Len(q)) : rest = {n \in 2..Len(q) : q[n] \in ds}
  OBVIOUS
<1>2. PICK shift : shift = [n \in At(Tail(q), ds) |-> n + 1]
  OBVIOUS
<1>3. shift \in [At(Tail(q), ds) -> rest]
  <2>1. SUFFICES ASSUME NEW n \in At(Tail(q), ds) PROVE n + 1 \in rest
    BY <1>2
  <2>2. n \in 1..(Len(q) - 1) /\ Tail(q)[n] \in ds
    BY <1>0 DEF At
  <2>. QED  BY <1>0, <1>1, <2>2
<1>4. \A a, b \in At(Tail(q), ds) : shift[a] = shift[b] => a = b
  BY <1>0, <1>2 DEF At
<1>5. \A m \in rest : \E n \in At(Tail(q), ds) : shift[n] = m
  <2>1. SUFFICES ASSUME NEW m \in rest PROVE m - 1 \in At(Tail(q), ds) /\ shift[m - 1] = m
    OBVIOUS
  <2>2. m \in 2..Len(q) /\ q[m] \in ds /\ m - 1 \in 1..(Len(q) - 1) /\ (m - 1) + 1 = m
    BY <1>0, <1>1
  <2>3. m - 1 \in At(Tail(q), ds)
    BY <1>0, <2>2 DEF At
  <2>. QED  BY <1>2, <2>2, <2>3
<1>6. IsFiniteSet(rest) /\ Cardinality(rest) = Count(Tail(q), ds)
  <2>1. shift \in Bijection(At(Tail(q), ds), rest)
    BY <1>3, <1>4, <1>5, Fun_IsBij
  <2>2. ExistsBijection(At(Tail(q), ds), rest)
    BY <2>1 DEF ExistsBijection
  <2>. QED  BY <1>0, <2>2, CountNatural, FS_Bijection DEF Count
<1>7. CASE Head(q) \in ds
  <2>1. At(q, ds) = rest \cup {1} /\ 1 \notin rest
    BY <1>0, <1>1, <1>7 DEF At
  <2>2. Cardinality(rest \cup {1}) = Cardinality(rest) + 1
    BY <1>6, <2>1, FS_AddElement
  <2>. QED  BY <1>0, <1>6, <1>7, <2>1, <2>2 DEF Count
<1>8. CASE Head(q) \notin ds
  <2>1. At(q, ds) = rest
    BY <1>0, <1>1, <1>8 DEF At
  <2>2. Count(Tail(q), ds) \in Nat
    BY <1>0, CountNatural
  <2>. QED  BY <1>0, <1>6, <1>8, <2>1, <2>2 DEF Count
<1>. QED  BY <1>0, <1>7, <1>8

OfThread(t) == {d \in Deltas : d.thread = t}
OwnOf(t) == {d \in Deltas : d.thread = t /\ d.tagged}

LEMMA Waits ==
    ASSUME host.queue \in Seq(Deltas)
    PROVE  \A t : /\ Cardinality(Queued(t)) = Count(host.queue, OfThread(t))
                  /\ Connection!Waiting(t) = Count(host.queue, OwnOf(t))
<1>. SUFFICES ASSUME NEW t
              PROVE  /\ Cardinality(Queued(t)) = Count(host.queue, OfThread(t))
                     /\ Connection!Waiting(t) = Count(host.queue, OwnOf(t))
  OBVIOUS
<1>0. \A n \in DOMAIN host.queue : host.queue[n] \in Deltas
  OBVIOUS
<1>1. Queued(t) = At(host.queue, OfThread(t))
  BY <1>0 DEF Queued, At, OfThread
<1>2. {n \in DOMAIN host.queue : host.queue[n].thread = t /\ host.queue[n].tagged} = At(host.queue, OwnOf(t))
  BY <1>0 DEF At, OwnOf
<1>. QED  BY <1>1, <1>2, ConnectionConstants DEF Count, Connection!Waiting

LEMMA WaitsNext ==
    ASSUME host'.queue \in Seq(Deltas)
    PROVE  \A t : /\ Cardinality(Queued(t)') = Count(host'.queue, OfThread(t))
                  /\ Connection!Waiting(t)' = Count(host'.queue, OwnOf(t))
<1>. SUFFICES ASSUME NEW t
              PROVE  /\ Cardinality(Queued(t)') = Count(host'.queue, OfThread(t))
                     /\ Connection!Waiting(t)' = Count(host'.queue, OwnOf(t))
  OBVIOUS
<1>0. \A n \in DOMAIN host'.queue : host'.queue[n] \in Deltas
  OBVIOUS
<1>1. Queued(t)' = At(host'.queue, OfThread(t))
  BY <1>0 DEF Queued, At, OfThread
<1>2. {n \in DOMAIN host'.queue : host'.queue[n].thread = t /\ host'.queue[n].tagged} = At(host'.queue, OwnOf(t))
  BY <1>0 DEF At, OwnOf
<1>. QED  BY <1>1, <1>2, ConnectionConstants DEF Count, Connection!Waiting

----------------------------------------------------------------------------------
(* Calls.                                                                        *)

\* What a step makes of the record of its call.
LEMMA CallFields ==
    ASSUME NEW r \in Calls, NEW s \in CallSteps, NEW p \in Scopes \cup {NoScope},
           NEW d \in Connection!Intents \cup {Connection!NoIntent}
    PROVE  /\ [r EXCEPT !.step = s] \in Calls /\ [r EXCEPT !.step = s].step = s
           /\ [r EXCEPT !.step = s].op = r.op /\ [r EXCEPT !.step = s].scope = r.scope
           /\ [r EXCEPT !.step = s].draft = r.draft
           /\ [r EXCEPT !.step = s, !.scope = p] \in Calls /\ [r EXCEPT !.step = s, !.scope = p].step = s
           /\ [r EXCEPT !.step = s, !.scope = p].op = r.op /\ [r EXCEPT !.step = s, !.scope = p].scope = p
           /\ [r EXCEPT !.step = s, !.scope = p].draft = r.draft
           /\ [r EXCEPT !.step = s, !.draft = d] \in Calls /\ [r EXCEPT !.step = s, !.draft = d].step = s
           /\ [r EXCEPT !.step = s, !.draft = d].op = r.op /\ [r EXCEPT !.step = s, !.draft = d].scope = r.scope
           /\ [r EXCEPT !.step = s, !.draft = d].draft = d
  BY DEF Calls

LEMMA BeginFields ==
    ASSUME NEW op \in Connection!Requests \cup {"none", "migrate"}
    PROVE  /\ [Connection!Finished EXCEPT !.op = op] \in Calls
           /\ [Connection!Finished EXCEPT !.op = op].op = op
           /\ [Connection!Finished EXCEPT !.op = op].step = "next"
           /\ Connection!Finished \in Calls /\ Connection!Finished.op = "none"
           /\ Connection!Finished.step = "next" /\ Connection!Finished.scope = NoScope
  BY DEF Calls, CallSteps, Connection!Finished

\* A call goes on without the host being touched by the other one.
Alone(c) == \A d \in Connection!Callers \ {c} : ~Connection!Holds(d)
Active(r) == r.op \in Connection!Requests /\ r.step \notin {"next", "scoped"}

Turns(c, r) ==
    /\ call' = [call EXCEPT ![c] = r] /\ active' = active
    /\ r \in Calls /\ CallFitsOp(r)
    /\ r.step \in Serving => host'.scope = r.scope
    /\ r.step \in Spawning /\ r.op # "migrate" => host' = Connection!NoHost
    /\ c = "main" => r.op # "migrate" /\ (r.step # "next" => r.scope = active)
    /\ c = "restore" => r.op \in {"none", "migrate", "inspect"}
    /\ Alone(c) \/ (~Active(r) /\ host' = host)

LEMMA CallsKept ==
    ASSUME ConnectionShape, CallInv, NEW c \in Connection!Callers, NEW r, Turns(c, r)
    PROVE  /\ call' \in [Connection!Callers -> Calls] /\ CallInv'
           /\ call'[c] = r /\ \A d \in Connection!Callers : d # c => call'[d] = call[d]
<1>. USE ConnectionConstants
<1>1. /\ call' \in [Connection!Callers -> Calls] /\ call'[c] = r
      /\ \A d \in Connection!Callers : d # c => call'[d] = call[d]
  BY DEF ConnectionShape, Turns
<1>2. \A d \in Connection!Callers : CallFitsOp(call'[d])
  BY <1>1 DEF CallInv, Turns
<1>3. \A d \in Connection!Callers : call'[d].step \in Serving => host'.scope = call'[d].scope
  <2>1. SUFFICES ASSUME NEW d \in Connection!Callers, d # c, call[d].step \in Serving
                 PROVE  host'.scope = call[d].scope
    BY <1>1 DEF Turns
  <2>2. Connection!Holds(d)
    BY <2>1 DEF Connection!Holds, CallInv, CallFitsOp, ConnectionShape, Calls, Serving
  <2>. QED  BY <2>1, <2>2 DEF Turns, Alone, CallInv
<1>4. \A d \in Connection!Callers : call'[d].step \in Spawning /\ call'[d].op # "migrate" => host' = Connection!NoHost
  <2>1. SUFFICES ASSUME NEW d \in Connection!Callers, d # c, call[d].step \in Spawning, call[d].op # "migrate"
                 PROVE  host' = Connection!NoHost
    BY <1>1 DEF Turns
  <2>2. Connection!Holds(d)
    BY <2>1 DEF Connection!Holds, CallInv, CallFitsOp, ConnectionShape, Calls, Spawning
  <2>. QED  BY <2>1, <2>2 DEF Turns, Alone, CallInv
<1>5. ~(Connection!Holds("main") /\ Connection!Holds("restore"))'
  BY <1>1 DEF Turns, Alone, Active, CallInv, Connection!Holds
<1>6. /\ call'["main"].op # "migrate" /\ (call'["main"].step # "next" => call'["main"].scope = active')
      /\ call'["restore"].op \in {"none", "migrate", "inspect"}
  BY <1>1 DEF Turns, CallInv
<1>. QED  BY <1>1, <1>2, <1>3, <1>4, <1>5, <1>6 DEF CallInv, CallFitsOp

LEMMA CallsStay ==
    ASSUME ConnectionShape, CallInv, call' = call, active' = active, host'.scope = host.scope,
           host = Connection!NoHost => host' = Connection!NoHost
    PROVE  CallInv'
  BY DEF CallInv, CallFitsOp, Connection!Holds

\* A call that has the mutex has it alone; a step of the service is one of its holder.
LEMMA Holder ==
    ASSUME ConnectionShape, CallInv, NEW c \in Connection!Callers,
           call[c].step \in Serving \cup Spawning, call[c].op # "migrate"
    PROVE  /\ Connection!Holds(c) /\ Alone(c) /\ call[c].op \in Connection!Requests /\ call[c].scope \in Scopes
           /\ call[c].step \in Serving => host.scope \in Scopes
<1>. USE ConnectionConstants
<1>1. Connection!Holds(c) /\ call[c].op \in Connection!Requests
  BY DEF Connection!Holds, CallInv, CallFitsOp, ConnectionShape, Calls, Serving, Spawning
<1>2. call[c].scope \in Scopes
  BY DEF CallInv, CallFitsOp, Serving, Spawning
<1>. QED  BY <1>1, <1>2 DEF Alone, CallInv

----------------------------------------------------------------------------------
(* The host.                                                                     *)

LEMMA HostFields ==
    ASSUME NEW p \in Scopes \cup {NoScope}
    PROVE  /\ Connection!NewHost(p) \in Hosts
           /\ Connection!NewHost(p).scope = p /\ Connection!NewHost(p).dead = FALSE
           /\ Connection!NewHost(p).open = FALSE /\ DOMAIN Connection!NewHost(p).known = {}
           /\ Connection!NewHost(p).selected = Connection!NoCommand /\ Connection!NewHost(p).mode = "auto"
           /\ Connection!NewHost(p).tagged = {} /\ Connection!NewHost(p).completed = {}
           /\ Connection!NewHost(p).queue = <<>>
<1>1. [t \in {} |-> 0] \in [{} -> Nat] /\ {} \in SUBSET Connection!Measures /\ DOMAIN [t \in {} |-> 0] = {}
  OBVIOUS
<1>2. [t \in {} |-> 0] \in Counts
  BY <1>1 DEF Counts
<1>3. <<>> \in Seq(Deltas)
  OBVIOUS
<1>. QED  BY <1>1, <1>2, <1>3 DEF Connection!NewHost, Hosts

\* A host that died, or was closed, is as a new one, but for what waits.
LEMMA DeadFields ==
    ASSUME NEW p \in Scopes \cup {NoScope}, NEW h, h = [Connection!NewHost(p) EXCEPT !.dead = TRUE]
    PROVE  /\ h \in Hosts /\ h.scope = p /\ h.dead = TRUE /\ h.open = FALSE /\ DOMAIN h.known = {}
           /\ h.tagged = {} /\ h.completed = {} /\ h.queue = <<>>
<1>1. PICK n \in Hosts : n = Connection!NewHost(p)
  BY HostFields
<1>2. /\ n.scope = p /\ n.open = FALSE /\ DOMAIN n.known = {}
      /\ n.tagged = {} /\ n.completed = {} /\ n.queue = <<>>
  BY <1>1, HostFields
<1>. QED  BY <1>1, <1>2 DEF Hosts

LEMMA NoHostFields ==
    /\ Connection!NoHost \in Hosts /\ Connection!NoHost.scope = NoScope /\ Connection!NoHost.dead = TRUE
    /\ Connection!NoHost.open = FALSE /\ DOMAIN Connection!NoHost.known = {}
    /\ Connection!NoHost.tagged = {} /\ Connection!NoHost.completed = {} /\ Connection!NoHost.queue = <<>>
  BY DeadFields DEF Connection!NoHost

\* Some of what a host knows may go.
Closed(h) == [Connection!NewHost(h.scope) EXCEPT !.queue = h.queue]

LEMMA ClosedFields ==
    ASSUME NEW h \in Hosts
    PROVE  /\ Closed(h) \in Hosts /\ Closed(h).scope = h.scope /\ Closed(h).dead = FALSE
           /\ Closed(h).open = FALSE /\ DOMAIN Closed(h).known = {}
           /\ Closed(h).tagged = {} /\ Closed(h).completed = {} /\ Closed(h).queue = h.queue
<1>0. h.scope \in Scopes \cup {NoScope} /\ h.queue \in Seq(Deltas)
  BY DEF Hosts
<1>1. PICK n \in Hosts : n = Connection!NewHost(h.scope)
  BY <1>0, HostFields
<1>2. /\ n.scope = h.scope /\ n.dead = FALSE /\ n.open = FALSE /\ DOMAIN n.known = {}
      /\ n.tagged = {} /\ n.completed = {}
  BY <1>0, <1>1, HostFields
<1>. QED  BY <1>0, <1>1, <1>2 DEF Hosts, Closed

Lessens ==
    \/ host' = host
    \/ host' = Connection!NoHost
    \/ host = Connection!NoHost /\ \E p \in Scopes : host' = Connection!NewHost(p)
    \/ /\ host.dead = FALSE
       /\ host' \in {Closed(host), [host EXCEPT !.open = FALSE],
                     [Connection!NewHost(host.scope) EXCEPT !.dead = TRUE],
                     [host EXCEPT !.tagged = {}, !.completed = {}]}

LEMMA Lessened ==
    ASSUME ConnectionShape, HostInv, shims' = shims, Lessens
    PROVE  /\ host' \in Hosts /\ HostInv'
           /\ host'.open => /\ host.open /\ host'.scope = host.scope
                            /\ host'.selected = host.selected /\ host'.mode = host.mode
           /\ IF host'.scope = host.scope THEN host'.queue \in {<<>>, host.queue} ELSE host'.queue = <<>>
           /\ \A t \in DOMAIN host'.known :
                  t \in DOMAIN host.known /\ host'.known[t] = host.known[t] /\ host'.scope = host.scope
<1>0. host \in Hosts
  BY DEF ConnectionShape
<1>1. CASE host' = host
  BY <1>0, <1>1 DEF HostInv, Connection!NewHost
<1>2. CASE host' = Connection!NoHost
  <2>1. host'.scope = NoScope /\ host' = [Connection!NewHost(host'.scope) EXCEPT !.dead = TRUE]
    BY <1>2, NoHostFields DEF Connection!NoHost
  <2>2. /\ host' \in Hosts /\ host'.dead = TRUE /\ host'.open = FALSE /\ DOMAIN host'.known = {}
        /\ host'.tagged = {} /\ host'.completed = {} /\ host'.queue = <<>>
    BY <1>2, NoHostFields
  <2>3. HostInv'
    BY <2>1, <2>2 DEF HostInv, Connection!NewHost
  <2>. QED  BY <2>2, <2>3
<1>3. ASSUME host = Connection!NoHost, NEW p \in Scopes, host' = Connection!NewHost(p)
      PROVE  /\ host' \in Hosts /\ HostInv' /\ host'.open = FALSE /\ DOMAIN host'.known = {} /\ host'.queue = <<>>
  <2>1. /\ host' \in Hosts /\ host'.dead = FALSE /\ host'.open = FALSE /\ DOMAIN host'.known = {}
        /\ host'.tagged = {} /\ host'.completed = {} /\ host'.queue = <<>> /\ host'.scope # NoScope
    BY <1>3, HostFields, ConnectionConstants
  <2>2. HostInv'
    BY <2>1 DEF HostInv
  <2>. QED  BY <2>1, <2>2
<1>4. CASE host.dead = FALSE /\ host' = Closed(host)
  <2>0. host.scope \in Scopes \cup {NoScope} /\ host.queue \in Seq(Deltas) /\ host.scope # NoScope
    BY <1>0, <1>4 DEF Hosts, HostInv
  <2>1. /\ host' \in Hosts /\ host'.dead = FALSE /\ host'.open = FALSE /\ DOMAIN host'.known = {}
        /\ host'.tagged = {} /\ host'.completed = {} /\ host'.queue = host.queue /\ host'.scope = host.scope
    BY <1>0, <1>4, ClosedFields
  <2>2. HostInv'
    BY <2>0, <2>1 DEF HostInv
  <2>. QED  BY <2>1, <2>2
<1>5. CASE host.dead = FALSE /\ host' = [host EXCEPT !.open = FALSE]
  <2>1. /\ host' \in Hosts /\ host'.dead = FALSE /\ host'.open = FALSE /\ host'.known = host.known
        /\ host'.tagged = host.tagged /\ host'.completed = host.completed /\ host'.queue = host.queue
        /\ host'.scope = host.scope
    BY <1>0, <1>5 DEF Hosts
  <2>2. HostInv'
    BY <1>5, <2>1 DEF HostInv
  <2>. QED  BY <2>1, <2>2
<1>6. CASE host.dead = FALSE /\ host' = [Connection!NewHost(host.scope) EXCEPT !.dead = TRUE]
  <2>0. host.scope \in Scopes \cup {NoScope} /\ <<>> \in Seq(Deltas)
    BY <1>0 DEF Hosts
  <2>1. /\ host' \in Hosts /\ host'.dead = TRUE /\ host'.open = FALSE /\ DOMAIN host'.known = {}
        /\ host'.tagged = {} /\ host'.completed = {} /\ host'.queue = <<>> /\ host'.scope = host.scope
    BY <1>6, <2>0, DeadFields
  <2>2. host' = [Connection!NewHost(host'.scope) EXCEPT !.dead = TRUE]
    BY <1>6, <2>1
  <2>3. HostInv'
    BY <2>1, <2>2 DEF HostInv, Connection!NewHost
  <2>. QED  BY <2>1, <2>3
<1>7. CASE host.dead = FALSE /\ host' = [host EXCEPT !.tagged = {}, !.completed = {}]
  <2>1. /\ host' \in Hosts /\ host'.dead = FALSE /\ host'.open = host.open /\ host'.known = host.known
        /\ host'.selected = host.selected /\ host'.mode = host.mode
        /\ host'.tagged = {} /\ host'.completed = {} /\ host'.queue = host.queue
        /\ host'.scope = host.scope
    BY <1>0, <1>7 DEF Hosts
  <2>2. HostInv'
    BY <1>7, <2>1 DEF HostInv
  <2>. QED  BY <2>1, <2>2
<1>. QED  BY <1>1, <1>2, <1>3, <1>4, <1>5, <1>6, <1>7 DEF Lessens

----------------------------------------------------------------------------------
(* What a step leaves as it was, part by part of the invariant.                  *)

LEMMA LogKept ==
    ASSUME ConnectionShape, log' \in {log, Connection!Torn}
    PROVE  /\ log' \in [Scopes -> Logs]
           /\ \A p \in Scopes : log'[p].own = log[p].own /\ log'[p].free = log[p].free
<1>1. log \in [Scopes -> Logs]
  BY DEF ConnectionShape
<1>2. CASE log' = log
  BY <1>1, <1>2
<1>3. CASE log' = Connection!Torn /\ host.scope \in Scopes
  <2>1. PICK l \in Logs : l = log[host.scope]
    BY <1>1, <1>3
  <2>2. [l EXCEPT !.torn = TRUE] \in Logs /\ [l EXCEPT !.torn = TRUE].own = l.own /\ [l EXCEPT !.torn = TRUE].free = l.free
    BY DEF Logs
  <2>3. log' = [log EXCEPT ![host.scope] = [l EXCEPT !.torn = TRUE]]
    BY <1>1, <1>3, <2>1 DEF Connection!Torn
  <2>. QED  BY <1>1, <1>3, <2>1, <2>2, <2>3
<1>4. CASE log' = Connection!Torn /\ host.scope \notin Scopes
  <2>1. log' = log
    BY <1>1, <1>4 DEF Connection!Torn
  <2>. QED  BY <1>1, <2>1
<1>. QED  BY <1>2, <1>3, <1>4

\* What was measured stays, whatever the host forgets.
LEMMA UsageKept ==
    ASSUME ConnectionShape, UsageInv, purpose' = purpose, spent' = spent, host' \in Hosts,
           log' \in [Scopes -> Logs],
           \A p \in Scopes : log'[p].own = log[p].own /\ log'[p].free = log[p].free,
           IF host'.scope = host.scope THEN host'.queue \in {<<>>, host.queue} ELSE host'.queue = <<>>,
           \A t \in DOMAIN host'.known :
               t \in DOMAIN host.known /\ host'.known[t] = host.known[t] /\ host'.scope = host.scope
    PROVE  UsageInv'
<1>1. Connection!Started' = Connection!Started
  BY DEF Connection!Started
<1>2. host.queue \in Seq(Deltas) /\ host'.queue \in Seq(Deltas)
  BY DEF ConnectionShape, Hosts
<1>3. \A n \in DOMAIN host'.queue : purpose'[host'.queue[n].thread] = host'.scope
  BY DEF UsageInv
<1>4. \A p \in Scopes, t \in Connection!Measures : Logged(p, t)' = Logged(p, t) /\ Logged(p, t) <= spent[t]
  BY DEF UsageInv, Connection!UsageIsOfItsProject, Logged
<1>5. ASSUME NEW p \in Scopes, p = host'.scope, NEW t \in Connection!Measures
      PROVE  Logged(p, t)' + Cardinality(Queued(t)') <= spent'[t]
  <2>1. CASE host'.queue = <<>>
    <3>1. Cardinality(Queued(t)') = 0
      BY <1>2, <2>1, WaitsNext, EmptyCount
    <3>2. log'[p].own[t] \in Nat /\ log'[p].free[t] \in Nat
      BY DEF Logs
    <3>3. Logged(p, t)' \in Nat /\ Logged(p, t)' <= spent'[t]
      BY <1>4, <3>2 DEF Logged
    <3>. QED  BY <3>1, <3>3
  <2>2. CASE host'.queue = host.queue /\ host'.scope = host.scope
    <3>1. Cardinality(Queued(t)') = Cardinality(Queued(t))
      BY <1>2, <2>2, WaitsNext, Waits
    <3>2. Logged(p, t) + Cardinality(Queued(t)) <= spent[t]
      BY <1>5, <2>2 DEF UsageInv
    <3>. QED  BY <1>4, <3>1, <3>2
  <2>. QED  BY <2>1, <2>2
<1>5a. (host.scope \in Scopes =>
          \A t \in Connection!Measures : Logged(host.scope, t) + Cardinality(Queued(t)) <= spent[t])'
  BY <1>5 DEF Connection!Measures
<1>6. Connection!UsageIsOfItsProject'
  BY DEF UsageInv, Connection!UsageIsOfItsProject
<1>7. \A t \in DOMAIN host'.known : purpose'[t] = host'.scope /\ host'.known[t] = spent'[t]
  BY DEF UsageInv
<1>8. /\ \E k \in 0..MaxMeasures : Connection!Started' = 1..k
      /\ \A t \in Connection!Measures \ Connection!Started' : spent'[t] = 0
  BY <1>1 DEF UsageInv
<1>. QED  BY <1>3, <1>5a, <1>6, <1>7, <1>8 DEF UsageInv, Connection!Measures

\* A measurement under way goes on, with the host and the log as they are.
LEMMA MeasureKept ==
    ASSUME ConnectionShape, MeasureInv, purpose' = purpose, host' \in Hosts,
           \A d \in Connection!Callers : call'[d].step \in {"turn", "answer"} /\ ~host'.dead =>
               /\ call[d].step \in {"turn", "answer"} /\ ~host.dead /\ log' = log
               /\ host'.tagged = host.tagged /\ host'.known = host.known
               /\ host'.queue = host.queue /\ host'.scope = host.scope
    PROVE  MeasureInv'
<1>1. Connection!Started' = Connection!Started
  BY DEF Connection!Started
<1>2. host.queue \in Seq(Deltas) /\ host'.queue \in Seq(Deltas)
  BY DEF ConnectionShape, Hosts
<1>3. ASSUME host'.queue = host.queue, NEW t
      PROVE  Connection!Waiting(t)' = Connection!Waiting(t)
  BY <1>2, <1>3, Waits, WaitsNext
<1>. QED  BY <1>1, <1>3 DEF MeasureInv

\* The choices stay, when nobody comes to be about to store one.
LEMMA ChoiceKept ==
    ASSUME ConnectionShape, ChoiceInv, shims' = shims, intent' = intent, chosen' = chosen,
           overwritten' = overwritten, Pinned(oldIntent)',
           \A d \in Connection!Callers :
               \/ call'[d] = call[d]
               \/ /\ call'[d].step \notin {"save", "close"}
                  /\ call'[d].step \in {"claim", "place"} => Pinned(call'[d].draft)
                  /\ call[d].step \in {"save", "close"} => ~host'.open,
           host'.open => /\ host.open /\ host'.scope = host.scope
                         /\ host'.selected = host.selected /\ host'.mode = host.mode
    PROVE  ChoiceInv'
<1>1. \A i : Pinned(i)' <=> Pinned(i)
  BY DEF Pinned
<1>2. host'.open => \A i : Suits(i)' <=> Suits(i)
  BY DEF Suits
<1>3. (\A d \in Connection!Callers : call[d].step = "save" => SaveFits(call[d]))'
  BY <1>1, <1>2 DEF ChoiceInv, SaveFits, Connection!Callers
<1>4. Connection!ChoiceStands'
  BY DEF ChoiceInv, Connection!ChoiceStands
<1>5. (\A d \in Connection!Callers : call[d].step \in {"claim", "place"} => Pinned(call[d].draft))'
  BY <1>1 DEF ChoiceInv, Connection!Callers
<1>6. (\A p \in Scopes : Pinned(intent[p]) /\ (chosen[p] = Unpinned => shims # {}))'
  BY <1>1 DEF ChoiceInv
<1>7. (host.open /\ host.scope \notin overwritten
           /\ (\A c \in Connection!Callers : call[c].step \notin {"save", "close"})
         => Suits(intent[host.scope]))'
  BY <1>2 DEF ChoiceInv, Connection!Callers
<1>. QED  BY <1>3, <1>4, <1>5, <1>6, <1>7 DEF ChoiceInv, Connection!Callers

----------------------------------------------------------------------------------
(* Steps that store no choice and measure nothing.                               *)

LEMMA EndsTurn ==
    ASSUME ConnectionShape, NEW c \in Connection!Callers, Connection!Over(c), active' = active,
           Alone(c) \/ host' = host
    PROVE  Turns(c, Connection!Finished)
<1>1. call' = [call EXCEPT ![c] = Connection!Finished]
  BY DEF Connection!Over, Connection!Put
<1>2. /\ Connection!Finished \in Calls /\ Connection!Finished.op = "none"
      /\ Connection!Finished.step = "next"
  BY BeginFields
<1>. QED  BY <1>1, <1>2 DEF Turns, CallFitsOp, Serving, Spawning, Active, Connection!Requests,
              Connection!ChoiceRequests, Connection!DiagnosticsRequests

\* What a call may come to be at.
Follows(op, s) ==
    /\ op = "migrate" => s \in {"claim", "place", "desired"}
    /\ s = "desired" => op = "migrate"
    /\ s = "save" => op \in {"inspect", "connect", "connectTo"}
    /\ s = "close" => op = "disconnect"
    /\ s \in {"turn", "answer"} => op = "measure"

LEMMA StepTurns ==
    ASSUME ConnectionShape, CallInv, NEW c \in Connection!Callers, NEW s \in CallSteps \ {"next", "scoped"},
           NEW r \in Calls, r.step = s, r.op = call[c].op, r.scope = call[c].scope,
           call' = [call EXCEPT ![c] = r], active' = active,
           call[c].step # "next", Follows(call[c].op, s),
           s \in Serving => host'.scope = call[c].scope,
           s \in Spawning /\ call[c].op # "migrate" => host' = Connection!NoHost,
           Alone(c) \/ (host' = host /\ call[c].op = "migrate")
    PROVE  Turns(c, r)
<1>1. CallFitsOp(call[c]) /\ call[c].op # "none" /\ call[c].scope \in Scopes
  BY DEF CallInv, CallFitsOp
<1>2. CallFitsOp(r)
  BY <1>1 DEF CallFitsOp, Follows
<1>3. /\ c = "main" => call[c].op # "migrate" /\ call[c].scope = active
      /\ c = "restore" => call[c].op \in {"none", "migrate", "inspect"}
  BY DEF CallInv
<1>4. call[c].op = "migrate" => ~Active(r)
  BY DEF Active, Connection!Requests, Connection!ChoiceRequests, Connection!DiagnosticsRequests
<1>. QED  BY <1>2, <1>3, <1>4 DEF Turns

\* Nothing that is stored or measured changes but what a call and the host keep.
Plain ==
    /\ shims' = shims /\ intent' = intent /\ chosen' = chosen /\ overwritten' = overwritten
    /\ spent' = spent /\ purpose' = purpose
    /\ oldIntent' \in Connection!Intents \cup {Connection!NoIntent} /\ Pinned(oldIntent)'
    /\ measured' \in [Scopes -> {"no", "lately", "torn"}]
    /\ log' \in {log, Connection!Torn}

LEMMA PlainStep ==
    ASSUME ConnectionInv, Plain, Lessens, host' = host => log' = log,
           NEW c \in Connection!Callers, NEW r, Turns(c, r), r.step \notin {"save", "close"},
           r.step \in {"claim", "place"} => Pinned(r.draft),
           call[c].step \in {"save", "close"} => ~host'.open,
           r.step \in {"turn", "answer"} => call[c].step \in {"turn", "answer"} /\ host' = host
    PROVE  ConnectionInv'
<1>. USE DEF ConnectionInv
<1>1. /\ call' \in [Connection!Callers -> Calls] /\ CallInv'
      /\ call'[c] = r /\ \A d \in Connection!Callers : d # c => call'[d] = call[d]
  BY CallsKept
<1>2. /\ host' \in Hosts /\ HostInv'
      /\ host'.open => /\ host.open /\ host'.scope = host.scope
                       /\ host'.selected = host.selected /\ host'.mode = host.mode
      /\ IF host'.scope = host.scope THEN host'.queue \in {<<>>, host.queue} ELSE host'.queue = <<>>
      /\ \A t \in DOMAIN host'.known :
             t \in DOMAIN host.known /\ host'.known[t] = host.known[t] /\ host'.scope = host.scope
  BY Lessened DEF Plain
<1>3. /\ log' \in [Scopes -> Logs]
      /\ \A p \in Scopes : log'[p].own = log[p].own /\ log'[p].free = log[p].free
  BY LogKept DEF Plain
<1>4. ConnectionShape'
  BY <1>1, <1>2, <1>3 DEF ConnectionShape, Plain, Turns
<1>5. ChoiceInv'
  BY <1>1, <1>2, ChoiceKept DEF Plain
<1>6. UsageInv'
  BY <1>2, <1>3, UsageKept DEF Plain
<1>7. MeasureInv'
  <2>1. ASSUME NEW d \in Connection!Callers, call'[d].step \in {"turn", "answer"}, ~host'.dead
        PROVE  call[d].step \in {"turn", "answer"} /\ host' = host /\ log' = log
    <3>1. CASE d = c
      BY <1>1, <2>1, <3>1
    <3>2. CASE d # c
      <4>1. call[d].step \in {"turn", "answer"}
        BY <1>1, <2>1, <3>2
      <4>2. call[d].op = "measure"
        BY <4>1 DEF CallInv, CallFitsOp
      <4>3. Connection!Holds(d)
        BY <4>1, <4>2, Holder DEF Serving
      <4>. QED  BY <3>2, <4>1, <4>3 DEF Turns, Alone
    <3>. QED  BY <3>1, <3>2
  <2>. QED  BY <1>2, <2>1, MeasureKept DEF Plain
<1>. QED  BY <1>1, <1>2, <1>4, <1>5, <1>6, <1>7

LEMMA PlainKept ==
    ASSUME ConnectionInv, log' \in {log, Connection!Torn},
           UNCHANGED <<shims, intent, oldIntent, measured, chosen, overwritten, spent, purpose>>
    PROVE  Plain
  BY DEF ConnectionInv, ConnectionShape, ChoiceInv, Pinned, Plain

LEMMA Killed ==
    ASSUME ConnectionShape, Connection!Kill
    PROVE  /\ host' = Connection!NoHost /\ log' \in {log, Connection!Torn} /\ Lessens
           /\ host' = host => log' = log
<1>1. host' = Connection!NoHost /\ (host.dead => log' = log) /\ log' \in {log, Connection!Torn}
  BY DEF Connection!Kill
<1>. QED  BY <1>1, NoHostFields DEF Lessens

LEMMA CommandKeeps ==
    ASSUME ConnectionInv, NEW op \in Connection!Requests, Connection!Command(op)
    PROVE  ConnectionInv'
<1>. USE DEF ConnectionInv
<1>1. /\ call' = [call EXCEPT !["main"] = [Connection!Finished EXCEPT !.op = op]]
      /\ call["main"] = Connection!Finished /\ active' = active /\ host' = host /\ log' = log
      /\ UNCHANGED <<shims, intent, oldIntent, measured, chosen, overwritten, spent, purpose>>
  BY DEF Connection!Command, Connection!Put, Connection!KeepFiles, Connection!history
<1>2. PICK r \in Calls : r = [Connection!Finished EXCEPT !.op = op]
  BY BeginFields
<1>3. r.op = op /\ r.step = "next" /\ call["main"].step = "next"
  BY <1>1, <1>2, BeginFields
<1>4. op # "migrate" /\ op # "none"
  BY DEF Connection!Requests, Connection!ChoiceRequests, Connection!DiagnosticsRequests
<1>5. Turns("main", r) /\ "main" \in Connection!Callers
  BY <1>1, <1>2, <1>3, <1>4 DEF Turns, CallFitsOp, Serving, Spawning, Active, Connection!Callers
<1>6. Plain /\ Lessens
  BY <1>1, PlainKept DEF Lessens
<1>. QED  BY <1>1, <1>3, <1>5, <1>6, PlainStep

LEMMA ScopeKeeps ==
    ASSUME ConnectionInv, NEW c \in Connection!Callers, Connection!Scope(c)
    PROVE  ConnectionInv'
<1>. USE DEF ConnectionInv
<1>1. /\ call[c].op \in Connection!Requests \cup {"migrate"} /\ call[c].step = "next"
      /\ active' = active /\ host' = host /\ log' = log
      /\ UNCHANGED <<shims, intent, oldIntent, measured, chosen, overwritten, spent, purpose>>
      /\ \/ Connection!Over(c)
         \/ /\ active # NoScope
            /\ call' = [call EXCEPT ![c] = [call[c] EXCEPT !.step = "scoped", !.scope = active]]
  BY DEF Connection!Scope, Connection!Put, Connection!KeepFiles, Connection!KeepWorld, Connection!history
<1>2. Plain /\ Lessens
  BY <1>1, PlainKept DEF Lessens
<1>3. CASE Connection!Over(c)
  <2>1. Turns(c, Connection!Finished) /\ Connection!Finished.step = "next"
    BY <1>1, <1>3, EndsTurn, BeginFields
  <2>. QED  BY <1>1, <1>2, <2>1, PlainStep
<1>4. CASE /\ active # NoScope
           /\ call' = [call EXCEPT ![c] = [call[c] EXCEPT !.step = "scoped", !.scope = active]]
  <2>1. call[c] \in Calls /\ active \in Scopes \cup {NoScope} /\ "scoped" \in CallSteps
    BY DEF ConnectionShape, CallSteps
  <2>2. PICK r \in Calls : r = [call[c] EXCEPT !.step = "scoped", !.scope = active]
    BY <2>1, CallFields
  <2>3. r.step = "scoped" /\ r.op = call[c].op /\ r.scope = active
    BY <2>1, <2>2, CallFields DEF Calls
  <2>4. call[c].op # "none"
    BY <1>1 DEF Connection!Requests, Connection!ChoiceRequests, Connection!DiagnosticsRequests
  <2>5. Turns(c, r)
    BY <1>1, <1>4, <2>1, <2>2, <2>3, <2>4 DEF Turns, CallFitsOp, CallInv, Serving, Spawning, Active
  <2>. QED  BY <1>1, <1>2, <2>3, <2>5, PlainStep
<1>. QED  BY <1>1, <1>3, <1>4

LEMMA EnterKeeps ==
    ASSUME ConnectionInv, NEW c \in Connection!Callers, Connection!Enter(c)
    PROVE  ConnectionInv'
<1>. USE DEF ConnectionInv
<1>1. /\ call[c].op \in Connection!Requests /\ call[c].step = "scoped" /\ Connection!Free
      /\ IF host.scope \in {NoScope, call[c].scope} THEN host' = host /\ log' = log ELSE Connection!Kill
      /\ Connection!Step(c, IF host.scope = call[c].scope THEN "serve" ELSE "intent")
      /\ active' = active
      /\ UNCHANGED <<shims, intent, oldIntent, measured, chosen, overwritten, spent, purpose>>
  BY DEF Connection!Enter, Connection!KeepWorld, Connection!history
<1>2. PICK s \in {"serve", "intent"} : s = IF host.scope = call[c].scope THEN "serve" ELSE "intent"
  OBVIOUS
<1>3. call[c] \in Calls /\ s \in CallSteps \ {"next", "scoped"}
  BY DEF ConnectionShape, CallSteps
<1>4. PICK r \in Calls : r = [call[c] EXCEPT !.step = s]
  BY <1>3, CallFields
<1>5. r.step = s /\ r.op = call[c].op /\ r.scope = call[c].scope
  BY <1>3, <1>4, CallFields
<1>6. call' = [call EXCEPT ![c] = r]
  BY <1>1, <1>2, <1>4 DEF Connection!Step, Connection!Put
<1>7. Alone(c) /\ call[c].scope \in Scopes
  BY <1>1 DEF Alone, Connection!Free, CallInv, CallFitsOp
<1>8. Lessens /\ log' \in {log, Connection!Torn} /\ (host' = host => log' = log)
  BY <1>1, Killed DEF Lessens
<1>9. (s = "serve" => host'.scope = call[c].scope) /\ (s = "intent" => host' = Connection!NoHost)
  <2>1. host.scope = NoScope => host = Connection!NoHost
    BY DEF HostInv, Connection!NoHost
  <2>. QED  BY <1>1, <1>2, <1>7, <2>1, Killed, ConnectionConstants
<1>10. Follows(call[c].op, s)
  BY <1>1 DEF Follows, Connection!Requests, Connection!ChoiceRequests, Connection!DiagnosticsRequests
<1>11. Turns(c, r)
  BY <1>1, <1>3, <1>5, <1>6, <1>7, <1>9, <1>10, StepTurns DEF Serving, Spawning
<1>12. Plain
  BY <1>1, <1>8, PlainKept
<1>. QED  BY <1>1, <1>5, <1>8, <1>11, <1>12, PlainStep

LEMMA MigrateKeeps ==
    ASSUME ConnectionInv, NEW c \in Connection!Callers, Connection!Migrate(c)
    PROVE  ConnectionInv'
<1>. USE DEF ConnectionInv
<1>1. /\ Connection!Migrates(c) /\ active' = active /\ log' = log
      /\ UNCHANGED <<shims, intent, oldIntent, measured, chosen, overwritten, spent, purpose>>
      /\ \/ Connection!Migrated(c)
         \/ call' = [call EXCEPT ![c] = [call[c] EXCEPT !.step = "claim", !.draft = oldIntent]] /\ host' = host
  BY DEF Connection!Migrate, Connection!Put, Connection!KeepFiles, Connection!KeepWorld, Connection!history
<1>2. Plain
  BY <1>1, PlainKept
<1>3. \/ call[c].op = "migrate" /\ call[c].step = "scoped"
      \/ /\ call[c].op # "migrate" /\ call[c].step = "intent"
         /\ host = Connection!NoHost /\ Alone(c)
  <2>1. CASE call[c].step = "intent"
    <3>1. call[c].op # "migrate" /\ host = Connection!NoHost
      BY <2>1 DEF CallInv, CallFitsOp, Spawning
    <3>. QED  BY <2>1, <3>1, Holder DEF Spawning
  <2>. QED  BY <1>1, <2>1 DEF Connection!Migrates
<1>4. call[c] \in Calls /\ call[c].scope \in Scopes
  BY <1>3 DEF ConnectionShape, CallInv, CallFitsOp
<1>5. CASE Connection!Migrated(c)
  <2>1. PICK s \in CallSteps \ {"next", "scoped"} : s = IF call[c].op = "migrate" THEN "desired" ELSE "serve"
    BY DEF CallSteps
  <2>2. PICK r \in Calls : r = [call[c] EXCEPT !.step = s]
    BY <1>4, <2>1, CallFields
  <2>3. r.step = s /\ r.op = call[c].op /\ r.scope = call[c].scope
    BY <1>4, <2>1, <2>2, CallFields DEF Calls
  <2>4. /\ call' = [call EXCEPT ![c] = r]
        /\ IF call[c].op = "migrate" THEN host' = host ELSE host' = Connection!NewHost(call[c].scope)
    BY <1>5, <2>1, <2>2 DEF Connection!Migrated, Connection!Step, Connection!Put
  <2>5. s \in Serving => host'.scope = call[c].scope
    <3>1. s = "serve" => host' = Connection!NewHost(call[c].scope)
      BY <2>1, <2>4
    <3>2. Connection!NewHost(call[c].scope).scope = call[c].scope
      BY <1>4, HostFields
    <3>3. s \in Serving => s = "serve"
      BY <2>1 DEF Serving
    <3>. QED  BY <3>1, <3>2, <3>3
  <2>6. s \notin Spawning /\ s \notin {"save", "close", "claim", "place", "turn", "answer"}
    BY <2>1 DEF Spawning
  <2>7. Follows(call[c].op, s)
    BY <2>1 DEF Follows
  <2>8. Turns(c, r)
    BY <1>1, <1>3, <1>4, <2>1, <2>3, <2>4, <2>5, <2>6, <2>7, StepTurns
  <2>9. Lessens
    BY <1>3, <1>4, <2>4 DEF Lessens
  <2>. QED  BY <1>1, <1>2, <1>3, <2>3, <2>6, <2>8, <2>9, PlainStep
<1>6. CASE call' = [call EXCEPT ![c] = [call[c] EXCEPT !.step = "claim", !.draft = oldIntent]] /\ host' = host
  <2>1. oldIntent \in Connection!Intents \cup {Connection!NoIntent} /\ "claim" \in CallSteps
    BY DEF ConnectionShape, CallSteps
  <2>2. PICK r \in Calls : r = [call[c] EXCEPT !.step = "claim", !.draft = oldIntent]
    BY <1>4, <2>1, CallFields
  <2>3. r.step = "claim" /\ r.op = call[c].op /\ r.scope = call[c].scope /\ r.draft = oldIntent
    BY <1>4, <2>1, <2>2 DEF Calls
  <2>4. Follows(call[c].op, "claim") /\ "claim" \notin Serving /\ "claim" \in CallSteps \ {"next", "scoped"}
    BY DEF Follows, Serving, CallSteps
  <2>5. Turns(c, r)
    BY <1>1, <1>3, <1>4, <1>6, <2>2, <2>3, <2>4, StepTurns
  <2>6. Pinned(r.draft) /\ Lessens
    BY <1>6, <2>3 DEF ChoiceInv, Lessens
  <2>. QED  BY <1>1, <1>2, <1>3, <2>3, <2>5, <2>6, PlainStep
<1>. QED  BY <1>1, <1>5, <1>6

LEMMA ClaimKeeps ==
    ASSUME ConnectionInv, NEW c \in Connection!Callers, Connection!Claim(c)
    PROVE  ConnectionInv'
<1>. USE DEF ConnectionInv
<1>1. /\ call[c].step = "claim" /\ active' = active /\ log' = log /\ host' = host /\ oldIntent' = Connection!NoIntent
      /\ UNCHANGED <<shims, intent, measured, chosen, overwritten, spent, purpose>>
      /\ Connection!Over(c) \/ call' = [call EXCEPT ![c] = [call[c] EXCEPT !.step = "place"]]
  BY DEF Connection!Claim, Connection!Step, Connection!Put, Connection!KeepWorld, Connection!history
<1>2. Connection!NoIntent.mode = "absent"
  BY DEF Connection!NoIntent, Connection!Intent
<1>3. Plain /\ Lessens
  BY <1>1, <1>2 DEF Plain, Pinned, ConnectionShape, Lessens
<1>4. CASE Connection!Over(c)
  <2>1. Turns(c, Connection!Finished) /\ Connection!Finished.step = "next"
    BY <1>1, <1>4, EndsTurn, BeginFields
  <2>. QED  BY <1>1, <1>3, <2>1, PlainStep
<1>5. CASE call' = [call EXCEPT ![c] = [call[c] EXCEPT !.step = "place"]]
  <2>1. /\ call[c] \in Calls /\ "place" \in CallSteps \ {"next", "scoped"} /\ Follows(call[c].op, "place")
        /\ "place" \notin Serving /\ "place" \in Spawning /\ "claim" \in Spawning
    BY DEF ConnectionShape, CallSteps, Follows, Serving, Spawning
  <2>2. PICK r \in Calls : r = [call[c] EXCEPT !.step = "place"]
    BY <2>1, CallFields
  <2>3. r.step = "place" /\ r.op = call[c].op /\ r.scope = call[c].scope /\ r.draft = call[c].draft
    BY <2>1, <2>2, CallFields
  <2>4. call[c].op # "migrate" => Alone(c) /\ host = Connection!NoHost
    BY <1>1, <2>1, Holder DEF CallInv
  <2>5. Turns(c, r)
    BY <1>1, <1>5, <2>1, <2>2, <2>3, <2>4, StepTurns
  <2>6. Pinned(r.draft)
    BY <1>1, <2>3 DEF ChoiceInv
  <2>. QED  BY <1>1, <1>3, <2>3, <2>5, <2>6, PlainStep
<1>. QED  BY <1>1, <1>4, <1>5

LEMMA PlaceFailsKeeps ==
    ASSUME ConnectionInv, NEW c \in Connection!Callers, Connection!PlaceFails(c)
    PROVE  ConnectionInv'
<1>. USE DEF ConnectionInv
<1>1. /\ call[c].step = "place" /\ active' = active /\ log' = log /\ host' = host
      /\ oldIntent' \in {call[c].draft, oldIntent} /\ Connection!Over(c)
      /\ UNCHANGED <<shims, intent, measured, chosen, overwritten, spent, purpose>>
  BY DEF Connection!PlaceFails, Connection!history
<1>2. /\ Pinned(call[c].draft) /\ Pinned(oldIntent)
      /\ {call[c].draft, oldIntent} \subseteq Connection!Intents \cup {Connection!NoIntent}
  BY <1>1 DEF ChoiceInv, ConnectionShape, Calls
<1>3. Plain /\ Lessens
  BY <1>1, <1>2 DEF Plain, Pinned, ConnectionShape, Lessens
<1>4. Turns(c, Connection!Finished) /\ Connection!Finished.step = "next"
  BY <1>1, EndsTurn, BeginFields
<1>. QED  BY <1>1, <1>3, <1>4, PlainStep

LEMMA DesiredKeeps ==
    ASSUME ConnectionInv, Connection!Desired
    PROVE  ConnectionInv'
<1>. USE DEF ConnectionInv
<1>1. PICK op \in {"inspect", "none"} :
        op = IF intent[call["restore"].scope].desired THEN "inspect" ELSE "none"
  OBVIOUS
<1>2. /\ call' = [call EXCEPT !["restore"] = [Connection!Finished EXCEPT !.op = op]]
      /\ call["restore"].step = "desired" /\ active' = active /\ host' = host /\ log' = log
      /\ UNCHANGED <<shims, intent, oldIntent, measured, chosen, overwritten, spent, purpose>>
  BY <1>1 DEF Connection!Desired, Connection!Put, Connection!KeepFiles, Connection!KeepWorld, Connection!history
<1>3. op \in Connection!Requests \cup {"none", "migrate"}
  BY DEF Connection!Requests
<1>4. PICK r \in Calls : r = [Connection!Finished EXCEPT !.op = op]
  BY <1>3, BeginFields
<1>5. r.op = op /\ r.step = "next"
  BY <1>3, <1>4, BeginFields
<1>6. Turns("restore", r) /\ "restore" \in Connection!Callers
  BY <1>2, <1>4, <1>5 DEF Turns, CallFitsOp, Serving, Spawning, Active, Connection!Callers
<1>7. Plain /\ Lessens
  BY <1>2, PlainKept DEF Lessens
<1>. QED  BY <1>2, <1>5, <1>6, <1>7, PlainStep

\* An error costs the host its life.
LEMMA RefusedKeeps ==
    ASSUME ConnectionInv, NEW c \in Connection!Callers, Alone(c), Connection!Refused(c), active' = active,
           UNCHANGED <<shims, intent, oldIntent, measured, chosen, overwritten, spent, purpose>>
    PROVE  ConnectionInv'
<1>. USE DEF ConnectionInv
<1>1. Connection!Kill /\ Connection!Over(c)
  BY DEF Connection!Refused
<1>2. /\ host' = Connection!NoHost /\ log' \in {log, Connection!Torn} /\ Lessens
      /\ host' = host => log' = log
  BY <1>1, Killed
<1>3. Turns(c, Connection!Finished) /\ Connection!Finished.step = "next"
  BY <1>1, EndsTurn, BeginFields
<1>4. Plain /\ ~host'.open
  BY <1>2, PlainKept, NoHostFields
<1>. QED  BY <1>2, <1>3, <1>4, PlainStep

\* A call that is served has the host of its project to itself.
LEMMA Served ==
    ASSUME ConnectionInv, NEW c \in Connection!Callers, call[c].step \in Serving
    PROVE  /\ Alone(c) /\ Connection!Holds(c) /\ call[c] \in Calls /\ call[c].op \in Connection!Requests
           /\ call[c].scope \in Scopes /\ host.scope = call[c].scope /\ call[c].op # "migrate"
<1>1. call[c].op # "migrate" /\ call[c].op # "none" /\ host.scope = call[c].scope
  BY DEF ConnectionInv, CallInv, CallFitsOp, Serving
<1>. QED  BY <1>1, Holder DEF ConnectionInv, ConnectionShape

LEMMA GoneKeeps ==
    ASSUME ConnectionInv, NEW c \in Connection!Callers, Connection!Gone(c)
    PROVE  ConnectionInv'
<1>1. call[c].step \in Serving
  BY DEF Connection!Gone, Serving
<1>. QED  BY <1>1, Served, RefusedKeeps DEF Connection!Gone, Connection!KeepWorld, Connection!history

\* The session of a host that lives is closed.
LEMMA ClosesKeeps ==
    ASSUME ConnectionInv, NEW c \in Connection!Callers, Alone(c), Connection!Over(c), active' = active,
           ~host.dead, host' = Connection!Closed(host), log' = log,
           UNCHANGED <<shims, intent, oldIntent, measured, chosen, overwritten, spent, purpose>>
    PROVE  ConnectionInv'
<1>. USE DEF ConnectionInv
<1>1. host.dead = FALSE /\ host' = Closed(host)
  BY DEF ConnectionShape, Hosts, Connection!Closed, Closed
<1>2. host'.open = FALSE
  BY <1>1, ClosedFields DEF ConnectionShape
<1>3. Plain /\ Lessens
  BY <1>1, PlainKept DEF Lessens
<1>4. Turns(c, Connection!Finished) /\ Connection!Finished.step = "next"
  BY EndsTurn, BeginFields
<1>. QED  BY <1>2, <1>3, <1>4, PlainStep

LEMMA CloseKeeps ==
    ASSUME ConnectionInv, NEW c \in Connection!Callers, Connection!Close(c)
    PROVE  ConnectionInv'
<1>1. call[c].step \in Serving
  BY DEF Connection!Close, Serving
<1>. QED  BY <1>1, Served, ClosesKeeps DEF Connection!Close, Connection!KeepFiles, Connection!KeepWorld, Connection!history

LEMMA SaveFailsKeeps ==
    ASSUME ConnectionInv, NEW c \in Connection!Callers, Connection!SaveFails(c)
    PROVE  ConnectionInv'
<1>1. call[c].step \in Serving /\ ~host.dead
  BY DEF Connection!SaveFails, Connection!Serves, Serving
<1>2. CASE call[c].op = "inspect"
  BY <1>1, <1>2, Served, ClosesKeeps DEF Connection!SaveFails, Connection!history
<1>3. CASE call[c].op # "inspect"
  BY <1>1, <1>3, Served, RefusedKeeps DEF Connection!SaveFails, Connection!history
<1>. QED  BY <1>2, <1>3

\* A step that only goes on, or is done.
LEMMA ServingKeeps ==
    ASSUME ConnectionInv, NEW c \in Connection!Callers, call[c].step \in Serving \ {"save", "close"},
           Plain, active' = active, log' = log,
           host' \in {host, [host EXCEPT !.tagged = {}, !.completed = {}]}, ~host.dead,
           \/ Connection!Over(c)
           \/ /\ Connection!Step(c, "answer") /\ call[c].step = "turn" /\ host' = host
    PROVE  ConnectionInv'
<1>. USE DEF ConnectionInv
<1>1. Alone(c) /\ call[c] \in Calls /\ call[c].scope \in Scopes /\ host.scope = call[c].scope
  BY Served
<1>2. Lessens
  BY DEF Lessens, ConnectionShape, Hosts
<1>3. CASE Connection!Over(c)
  <2>1. Turns(c, Connection!Finished) /\ Connection!Finished.step = "next"
    BY <1>1, <1>3, EndsTurn, BeginFields
  <2>. QED  BY <1>2, <2>1, PlainStep
<1>4. CASE Connection!Step(c, "answer") /\ call[c].step = "turn" /\ host' = host
  <2>1. "answer" \in CallSteps \ {"next", "scoped"} /\ "answer" \notin Spawning
    BY DEF CallSteps, Spawning
  <2>2. PICK r \in Calls : r = [call[c] EXCEPT !.step = "answer"]
    BY <1>1, <2>1, CallFields
  <2>3. r.step = "answer" /\ r.op = call[c].op /\ r.scope = call[c].scope
    BY <1>1, <2>1, <2>2, CallFields DEF Calls
  <2>4. call' = [call EXCEPT ![c] = r]
    BY <1>4, <2>2 DEF Connection!Step, Connection!Put
  <2>5. Follows(call[c].op, "answer")
    BY <1>4 DEF Follows, CallInv, CallFitsOp
  <2>6. Turns(c, r)
    BY <1>1, <1>4, <2>1, <2>3, <2>4, <2>5, StepTurns
  <2>. QED  BY <1>2, <1>4, <2>3, <2>6, PlainStep
<1>. QED  BY <1>3, <1>4

LEMMA RecordKeeps ==
    ASSUME ConnectionInv, NEW c \in Connection!Callers, Connection!Record(c)
    PROVE  ConnectionInv'
<1>1. /\ call[c].step = "turn" /\ ~host.dead /\ active' = active
      /\ UNCHANGED <<shims, intent, oldIntent, chosen, overwritten, spent, purpose>>
      /\ \/ /\ measured' = [measured EXCEPT ![host.scope] = "lately"]
            /\ Connection!Step(c, "answer") /\ host' = host /\ log' = log
         \/ Connection!Refused(c) /\ measured' = measured
  BY DEF Connection!Record, Connection!KeepWorld, Connection!history
<1>2. call[c].step \in Serving \ {"save", "close"}
  BY <1>1 DEF Serving
<1>3. CASE /\ measured' = [measured EXCEPT ![host.scope] = "lately"]
           /\ Connection!Step(c, "answer") /\ host' = host /\ log' = log
  <2>1. Plain
    BY <1>1, <1>3 DEF ConnectionInv, ConnectionShape, ChoiceInv, Pinned, Plain
  <2>. QED  BY <1>1, <1>2, <1>3, <2>1, ServingKeeps
<1>4. CASE Connection!Refused(c) /\ measured' = measured
  BY <1>1, <1>2, <1>4, Served, RefusedKeeps
<1>. QED  BY <1>1, <1>3, <1>4

LEMMA DiagnoseKeeps ==
    ASSUME ConnectionInv, NEW c \in Connection!Callers, Connection!Diagnose(c)
    PROVE  ConnectionInv'
<1>1. /\ call[c].step \in {"serve", "answer"} /\ ~host.dead /\ active' = active
      /\ UNCHANGED <<shims, intent, oldIntent, measured, chosen, overwritten, spent, purpose>>
      /\ \/ /\ host' = [host EXCEPT !.tagged = {}, !.completed = {}]
            /\ Connection!Over(c) /\ log' = log
         \/ Connection!Refused(c)
  BY DEF Connection!Diagnose, Connection!Serves, Connection!KeepWorld, Connection!history
<1>2. call[c].step \in Serving \ {"save", "close"}
  BY <1>1 DEF Serving
<1>3. CASE /\ host' = [host EXCEPT !.tagged = {}, !.completed = {}]
           /\ Connection!Over(c) /\ log' = log
  BY <1>1, <1>2, <1>3, PlainKept, ServingKeeps
<1>4. CASE Connection!Refused(c)
  BY <1>1, <1>2, <1>4, Served, RefusedKeeps
<1>. QED  BY <1>1, <1>3, <1>4

----------------------------------------------------------------------------------
(* Steps that connect, and that store a choice.                                  *)

Opened(h, mode, command) == [Closed(h) EXCEPT !.open = TRUE, !.selected = command, !.mode = mode]

LEMMA OpenedFields ==
    ASSUME host \in Hosts, NEW mode \in {"auto", "manual"}, NEW command \in Connection!Commands,
           host' = Opened(host, mode, command)
    PROVE  /\ host' \in Hosts /\ host'.scope = host.scope /\ host'.dead = FALSE /\ host'.open = TRUE
           /\ host'.selected = command /\ host'.mode = mode /\ DOMAIN host'.known = {}
           /\ host'.tagged = {} /\ host'.completed = {} /\ host'.queue = host.queue
<1>1. PICK k \in Hosts : k = Closed(host)
  BY ClosedFields
<1>2. /\ k.scope = host.scope /\ k.dead = FALSE /\ DOMAIN k.known = {}
      /\ k.tagged = {} /\ k.completed = {} /\ k.queue = host.queue
  BY <1>1, ClosedFields
<1>3. host' = [k EXCEPT !.open = TRUE, !.selected = command, !.mode = mode]
  BY <1>1 DEF Opened
<1>. QED  BY <1>1, <1>2, <1>3 DEF Hosts

\* While a call is served, the other one neither stores a choice nor measures.
LEMMA Others ==
    ASSUME ConnectionInv, NEW c \in Connection!Callers, call[c].step \in Serving
    PROVE  \A d \in Connection!Callers : d # c => call[d].step \notin Serving
<1>1. ASSUME NEW d \in Connection!Callers, d # c, call[d].step \in Serving PROVE FALSE
  <2>1. Connection!Holds(d) /\ Alone(c)
    BY <1>1, Served
  <2>. QED  BY <1>1, <2>1 DEF Alone
<1>. QED  BY <1>1

LEMMA ConnectsKeeps ==
    ASSUME ConnectionInv, NEW c \in Connection!Callers, call[c].step = "serve", ~host.dead,
           UNCHANGED <<shims, intent, oldIntent, measured, chosen, overwritten, spent, purpose, log>>,
           NEW r, Turns(c, r), r.step \in {"next", "save"},
           host' \in Hosts, HostInv', host'.scope = host.scope, host'.queue = host.queue,
           host'.known = host.known \/ DOMAIN host'.known = {},
           r.step = "save" => SaveFits(r)',
           r.step # "save" /\ host'.open /\ host'.scope \notin overwritten' => Suits(intent[host.scope])'
    PROVE  ConnectionInv'
<1>. USE DEF ConnectionInv
<1>1. /\ call' \in [Connection!Callers -> Calls] /\ CallInv'
      /\ call'[c] = r /\ \A d \in Connection!Callers : d # c => call'[d] = call[d]
  BY CallsKept
<1>2. ConnectionShape'
  BY <1>1 DEF ConnectionShape, Turns
<1>3. \A d \in Connection!Callers : d # c => call[d].step \notin Serving
  BY Others DEF Serving
<1>4. ChoiceInv'
  <2>1. \A i : Pinned(i)' <=> Pinned(i)
    BY DEF Pinned
  <2>2. (\A d \in Connection!Callers : call[d].step = "save" => SaveFits(call[d]))'
    <3>1. SUFFICES ASSUME NEW d \in Connection!Callers, (call[d].step = "save")' PROVE SaveFits(call[d])'
      BY DEF Connection!Callers
    <3>2. d = c
      BY <1>1, <1>3, <3>1 DEF Serving
    <3>3. SaveFits(r)'
      BY <1>1, <3>1, <3>2
    <3>. QED  BY <1>1, <3>2, <3>3 DEF SaveFits, Suits
  <2>3. (\A d \in Connection!Callers : call[d].step \in {"claim", "place"} => Pinned(call[d].draft))'
    BY <1>1, <2>1 DEF ChoiceInv, Connection!Callers
  <2>4. (Pinned(oldIntent) /\ \A p \in Scopes : Pinned(intent[p]) /\ (chosen[p] = Unpinned => shims # {}))'
    BY <2>1 DEF ChoiceInv
  <2>5. (host.open /\ host.scope \notin overwritten
           /\ (\A d \in Connection!Callers : call[d].step \notin {"save", "close"})
         => Suits(intent[host.scope]))'
    BY <1>1
  <2>6. Connection!ChoiceStands'
    BY DEF ChoiceInv, Connection!ChoiceStands
  <2>. QED  BY <2>2, <2>3, <2>4, <2>5, <2>6 DEF ChoiceInv, Connection!Callers
<1>5. log' \in [Scopes -> Logs]
  BY DEF ConnectionShape
<1>6. UsageInv'
  BY <1>5, UsageKept
<1>7. MeasureInv'
  BY <1>1, <1>3, MeasureKept DEF Serving
<1>. QED  BY <1>1, <1>2, <1>4, <1>6, <1>7

LEMMA InspectKeeps ==
    ASSUME ConnectionInv, NEW c \in Connection!Callers, Connection!Inspect(c)
    PROVE  ConnectionInv'
<1>. USE DEF ConnectionInv
<1>1. PICK i \in Connection!Intents \cup {Connection!NoIntent} : i = intent[host.scope]
  <2>1. host.scope \in Scopes
    BY Served DEF Connection!Inspect, Connection!Serves, Serving
  <2>. QED  BY <2>1 DEF ConnectionShape
<1>2. /\ call[c].step = "serve" /\ call[c].op = "inspect" /\ ~host.dead /\ active' = active /\ log' = log
      /\ UNCHANGED <<shims, intent, oldIntent, measured, chosen, overwritten, spent, purpose>>
      /\ \/ host' = host /\ Connection!Over(c) /\ (host.open \/ ~i.desired)
         \/ /\ Connection!Connected(i.mode, Connection!Launches(i)) /\ ~host.open /\ i.desired
            /\ IF i.mode = "auto" /\ i.command = Connection!NoCommand /\ "default" \notin shims
               THEN Connection!Saves(c, "auto", "default") ELSE Connection!Over(c)
         \/ host' = Connection!Closed(host) /\ Connection!Over(c)
  BY <1>1 DEF Connection!Inspect, Connection!Serves, Connection!KeepFiles, Connection!KeepWorld, Connection!history
<1>3. call[c].step \in Serving \ {"save", "close"} /\ Alone(c) /\ host.scope \in Scopes /\ call[c] \in Calls
      /\ call[c].scope = host.scope
  BY <1>2, Served DEF Serving
<1>4. CASE host' = host /\ Connection!Over(c)
  BY <1>2, <1>3, <1>4, PlainKept, ServingKeeps
<1>5. CASE host' = Connection!Closed(host) /\ Connection!Over(c)
  BY <1>2, <1>3, <1>5, ClosesKeeps
<1>6. CASE /\ Connection!Connected(i.mode, Connection!Launches(i)) /\ ~host.open /\ i.desired
           /\ IF i.mode = "auto" /\ i.command = Connection!NoCommand /\ "default" \notin shims
              THEN Connection!Saves(c, "auto", "default") ELSE Connection!Over(c)
  <2>1. /\ i.mode \in {"auto", "manual"} /\ Connection!Launches(i) \in Connection!Commands
        /\ i.mode = "auto" /\ Connection!Launches(i) # "default" => Connection!Launches(i) \notin shims
    <3>1. /\ i.mode \in {"auto", "manual"} /\ Connection!Launches(i) \in Connection!Commands
      BY <1>6 DEF Connection!Intents, Connection!NoIntent, Connection!Off, Connection!Intent,
                  Connection!Commands, Connection!NoCommand, Connection!Launches
    <3>2. Pinned(i)
      BY <1>1, <1>3 DEF ChoiceInv
    <3>. QED  BY <3>1, <3>2 DEF Pinned, Connection!Launches
  <2>2. host' = Opened(host, i.mode, Connection!Launches(i))
    BY <1>6 DEF Connection!Connected, Connection!Closed, Closed, Opened
  <2>3. /\ host' \in Hosts /\ host'.scope = host.scope /\ host'.dead = FALSE /\ host'.open = TRUE
        /\ host'.selected = Connection!Launches(i) /\ host'.mode = i.mode /\ DOMAIN host'.known = {}
        /\ host'.tagged = {} /\ host'.completed = {} /\ host'.queue = host.queue
    BY <2>1, <2>2, OpenedFields DEF ConnectionShape
  <2>4. HostInv'
    BY <1>2, <1>3, <2>1, <2>3, ConnectionConstants DEF HostInv
  <2>5. CASE Connection!Over(c) /\ ~(i.mode = "auto" /\ i.command = Connection!NoCommand /\ "default" \notin shims)
    <3>1. Turns(c, Connection!Finished) /\ Connection!Finished.step = "next"
      BY <1>2, <1>3, <2>5, EndsTurn, BeginFields
    <3>2. Suits(intent[host.scope])'
      BY <1>1, <1>2, <1>6, <2>3 DEF Suits
    <3>. QED  BY <1>2, <2>3, <2>4, <3>1, <3>2, ConnectsKeeps
  <2>6. CASE /\ Connection!Saves(c, "auto", "default")
             /\ i.mode = "auto" /\ i.command = Connection!NoCommand /\ "default" \notin shims
    <3>1. PICK d \in Connection!Intents : d = Connection!Intent(TRUE, "auto", "default")
      BY DEF Connection!Intents, Connection!Commands
    <3>2. PICK r \in Calls : r = [call[c] EXCEPT !.step = "save", !.draft = d]
      BY <1>3, <3>1 DEF Calls, CallSteps
    <3>3. r.step = "save" /\ r.op = "inspect" /\ r.scope = host.scope /\ r.draft = d
      BY <1>2, <1>3, <3>2 DEF Calls
    <3>4. call' = [call EXCEPT ![c] = r]
      BY <2>6, <3>1, <3>2 DEF Connection!Saves, Connection!Put
    <3>5. /\ "save" \in CallSteps \ {"next", "scoped"} /\ "save" \notin Spawning /\ Follows("inspect", "save")
      BY DEF CallSteps, Spawning, Follows
    <3>6. Turns(c, r)
      BY <1>2, <1>3, <2>3, <3>3, <3>4, <3>5, StepTurns
    <3>7. i = Unpinned
      BY <1>6, <2>6 DEF Unpinned, Connection!Intents, Connection!NoIntent, Connection!Off, Connection!Intent,
                  Connection!Commands, Connection!NoCommand
    <3>8. d.desired /\ d.mode = "auto" /\ d.command = "default" /\ Connection!Launches(d) = "default"
          /\ Connection!Launches(i) = "default"
      BY <2>6, <3>1 DEF Connection!Intent, Connection!Launches, Connection!NoCommand
    <3>9. SaveFits(r)'
      BY <1>1, <1>2, <2>3, <2>6, <3>3, <3>7, <3>8 DEF SaveFits, Pinned, Suits
    <3>. QED  BY <1>2, <2>3, <2>4, <3>3, <3>6, <3>9, ConnectsKeeps
  <2>. QED  BY <1>6, <2>5, <2>6
<1>. QED  BY <1>2, <1>4, <1>5, <1>6

LEMMA ConnectKeeps ==
    ASSUME ConnectionInv, NEW c \in Connection!Callers, NEW command \in Connection!Commands,
           Connection!Connect(c, command)
    PROVE  ConnectionInv'
<1>. USE DEF ConnectionInv
<1>1. PICK mode \in {"auto", "manual"} : mode = IF command = "custom" THEN "manual" ELSE "auto"
  OBVIOUS
<1>2. PICK op \in {"connect", "connectTo"} : op = IF command = "custom" THEN "connectTo" ELSE "connect"
  OBVIOUS
<1>3. PICK cmd : cmd = IF host.open /\ mode = "auto" THEN host.selected ELSE command
  OBVIOUS
<1>4. /\ call[c].step = "serve" /\ call[c].op = op /\ ~host.dead /\ active' = active
      /\ UNCHANGED <<shims, intent, oldIntent, measured, chosen, overwritten, spent, purpose>>
      /\ \/ /\ IF host.open /\ mode = "auto" THEN host' = host ELSE Connection!Connected(mode, command)
            /\ Connection!Saves(c, mode, cmd) /\ log' = log
         \/ Connection!Refused(c)
  BY <1>1, <1>2, <1>3 DEF Connection!Connect, Connection!Serves, Connection!KeepWorld, Connection!history
<1>5. call[c].step \in Serving /\ Alone(c) /\ host.scope \in Scopes /\ call[c] \in Calls
      /\ call[c].scope = host.scope
  BY <1>4, Served DEF Serving
<1>6. CASE Connection!Refused(c)
  BY <1>4, <1>5, <1>6, RefusedKeeps
<1>7. CASE /\ IF host.open /\ mode = "auto" THEN host' = host ELSE Connection!Connected(mode, command)
           /\ Connection!Saves(c, mode, cmd) /\ log' = log
  <2>1. /\ host' \in Hosts /\ host'.scope = host.scope /\ host'.dead = FALSE /\ host'.open = TRUE
        /\ host'.selected = cmd /\ host'.queue = host.queue /\ cmd \in Connection!Commands
        /\ HostInv' /\ (host'.known = host.known \/ DOMAIN host'.known = {})
        /\ \/ mode = "manual" /\ cmd = "custom" /\ host'.mode = "manual"
           \/ mode = "auto" /\ (host'.mode = "auto" => cmd = "default" \/ cmd \notin shims)
              /\ host'.mode \in {"auto", "manual"}
    <3>1. CASE host.open /\ mode = "auto"
      <4>1. host' = host /\ cmd = host.selected
        BY <1>3, <1>7, <3>1
      <4>2. cmd \in Connection!Commands /\ (host.mode = "auto" => cmd = "default" \/ cmd \notin shims)
        BY <3>1, <4>1 DEF HostInv
      <4>3. HostInv' /\ host' \in Hosts /\ host.dead = FALSE /\ host.open = TRUE /\ host.mode \in {"auto", "manual"}
        BY <1>4, <3>1, <4>1 DEF HostInv, ConnectionShape, Hosts
      <4>. QED  BY <3>1, <4>1, <4>2, <4>3
    <3>2. CASE ~(host.open /\ mode = "auto")
      <4>1. host' = Opened(host, mode, command) /\ cmd = command
        BY <1>3, <1>7, <3>2 DEF Connection!Connected, Connection!Closed, Closed, Opened
      <4>2. /\ host' \in Hosts /\ host'.scope = host.scope /\ host'.dead = FALSE /\ host'.open = TRUE
            /\ host'.selected = command /\ host'.mode = mode /\ DOMAIN host'.known = {}
            /\ host'.tagged = {} /\ host'.completed = {} /\ host'.queue = host.queue
        BY <4>1, <1>1, OpenedFields DEF ConnectionShape
      <4>3. mode = "auto" => command = "default"
        BY <1>1 DEF Connection!Commands
      <4>4. mode = "manual" => command = "custom"
        BY <1>1
      <4>5. HostInv'
        BY <1>4, <1>5, <4>2, <4>3, ConnectionConstants DEF HostInv
      <4>. QED  BY <1>1, <4>1, <4>2, <4>3, <4>4, <4>5
    <3>. QED  BY <3>1, <3>2
  <2>2. PICK d : d = Connection!Intent(TRUE, mode, IF mode = "auto" /\ cmd \in shims THEN Connection!NoCommand ELSE cmd)
    OBVIOUS
  <2>3. /\ d \in Connection!Intents /\ d.desired /\ d.mode = mode
        /\ d.command = IF mode = "auto" /\ cmd \in shims THEN Connection!NoCommand ELSE cmd
        /\ Connection!Launches(d) = IF mode = "auto" /\ cmd \in shims THEN "default" ELSE cmd
    BY <1>1, <2>1, <2>2 DEF Connection!Intents, Connection!Intent, Connection!Commands, Connection!NoCommand,
                       Connection!Launches
  <2>4. PICK r \in Calls : r = [call[c] EXCEPT !.step = "save", !.draft = d]
    BY <1>5, <2>3 DEF Calls, CallSteps
  <2>5. r.step = "save" /\ r.op = op /\ r.scope = host.scope /\ r.draft = d
    BY <1>4, <1>5, <2>4 DEF Calls
  <2>6. call' = [call EXCEPT ![c] = r]
    BY <1>7, <2>2, <2>4 DEF Connection!Saves, Connection!Put
  <2>7. /\ "save" \in CallSteps \ {"next", "scoped"} /\ "save" \notin Spawning /\ Follows(op, "save")
    BY <1>2 DEF CallSteps, Spawning, Follows
  <2>8. Turns(c, r)
    BY <1>4, <1>5, <2>1, <2>5, <2>6, <2>7, StepTurns
  <2>9. SaveFits(r)'
    <3>1. shims \in {{}, Connection!Commands} /\ Connection!NoCommand \notin shims
      BY DEF ConnectionShape, Connection!Commands, Connection!NoCommand
    <3>2. Pinned(d)'
      BY <1>4, <2>3, <3>1 DEF Pinned
    <3>3. Suits(d)'
      BY <1>4, <2>1, <2>3 DEF Suits
    <3>4. d = Unpinned => shims # {}
      BY <2>1, <2>3 DEF Unpinned, Connection!Intent, Connection!Commands, Connection!NoCommand
    <3>5. op # "inspect"
      BY <1>2
    <3>. QED  BY <1>4, <2>5, <3>2, <3>3, <3>4, <3>5 DEF SaveFits, Suits, Pinned
  <2>. QED  BY <1>4, <1>7, <2>1, <2>5, <2>8, <2>9, ConnectsKeeps
<1>. QED  BY <1>4, <1>6, <1>7

LEMMA StoresKeeps ==
    ASSUME ConnectionInv, Lessens, NEW c \in Connection!Callers, NEW r, Turns(c, r),
           r.step \notin {"turn", "answer"}, host' # host => Alone(c),
           UNCHANGED <<shims, oldIntent, log, measured, spent, purpose>>,
           {intent', chosen'} \subseteq [Scopes -> Connection!Intents \cup {Connection!NoIntent}],
           overwritten' \subseteq Scopes, ChoiceInv'
    PROVE  ConnectionInv'
<1>. USE DEF ConnectionInv
<1>1. /\ call' \in [Connection!Callers -> Calls] /\ CallInv'
      /\ call'[c] = r /\ \A d \in Connection!Callers : d # c => call'[d] = call[d]
  BY CallsKept
<1>2. /\ host' \in Hosts /\ HostInv'
      /\ IF host'.scope = host.scope THEN host'.queue \in {<<>>, host.queue} ELSE host'.queue = <<>>
      /\ \A t \in DOMAIN host'.known :
             t \in DOMAIN host.known /\ host'.known[t] = host.known[t] /\ host'.scope = host.scope
  BY Lessened
<1>3. ConnectionShape'
  BY <1>1, <1>2 DEF ConnectionShape, Turns
<1>4. UsageInv'
  BY <1>2, UsageKept DEF ConnectionShape
<1>5. MeasureInv'
  <2>1. ASSUME NEW d \in Connection!Callers, call'[d].step \in {"turn", "answer"}
        PROVE  call[d].step \in {"turn", "answer"} /\ host' = host
    <3>1. d # c /\ call[d].step \in {"turn", "answer"}
      BY <1>1, <2>1
    <3>2. call[d].op = "measure"
      BY <3>1 DEF CallInv, CallFitsOp
    <3>3. Connection!Holds(d)
      BY <3>1, <3>2, Holder DEF Serving
    <3>. QED  BY <3>1, <3>3 DEF Alone
  <2>. QED  BY <1>2, <2>1, MeasureKept
<1>. QED  BY <1>1, <1>2, <1>3, <1>4, <1>5

LEMMA SaveKeeps ==
    ASSUME ConnectionInv, NEW c \in Connection!Callers, Connection!Save(c)
    PROVE  ConnectionInv'
<1>. USE DEF ConnectionInv
<1>1. PICK p : p = host.scope
  OBVIOUS
<1>2. /\ call[c].step = "save" /\ active' = active /\ host' = host /\ Connection!Over(c)
      /\ UNCHANGED <<shims, oldIntent, log, measured, spent, purpose>>
      /\ intent' = [intent EXCEPT ![p] = call[c].draft]
      /\ chosen' = IF call[c].op = "inspect" THEN chosen ELSE [chosen EXCEPT ![p] = call[c].draft]
      /\ overwritten' = IF call[c].op = "inspect" THEN overwritten ELSE overwritten \ {p}
  BY <1>1 DEF Connection!Save, Connection!KeepWorld
<1>3. call[c].step \in Serving /\ Alone(c) /\ p \in Scopes /\ call[c].scope = p /\ call[c] \in Calls
  BY <1>1, <1>2, Served DEF Serving
<1>4. /\ Turns(c, Connection!Finished) /\ Connection!Finished.step = "next" /\ Lessens
      /\ call' = [call EXCEPT ![c] = Connection!Finished]
  BY <1>2, <1>3, EndsTurn, BeginFields DEF Lessens, Connection!Over, Connection!Put
<1>5. \A d \in Connection!Callers :
        /\ d # c => call'[d] = call[d] /\ call[d].step \notin Serving
        /\ d = c => call'[d].step = "next"
  BY <1>2, <1>3, <1>4, Others DEF ConnectionShape
<1>6. SaveFits(call[c]) /\ call[c].draft \in Connection!Intents \cup {Connection!NoIntent}
  BY <1>2, <1>3 DEF ChoiceInv, Calls
<1>7. /\ intent' \in [Scopes -> Connection!Intents \cup {Connection!NoIntent}]
      /\ chosen' \in [Scopes -> Connection!Intents \cup {Connection!NoIntent}] /\ overwritten' \subseteq Scopes
      /\ intent'[p] = call[c].draft /\ \A q \in Scopes \ {p} : intent'[q] = intent[q] /\ chosen'[q] = chosen[q]
  BY <1>2, <1>3, <1>6 DEF ConnectionShape
<1>8. \A q \in Scopes : (q \notin overwritten' => chosen'[q] \in {Connection!NoIntent, intent'[q]})
                        /\ (chosen'[q] = Unpinned => shims # {})
  <2>1. ASSUME NEW q \in Scopes, q # p
        PROVE  /\ q \notin overwritten' => chosen'[q] \in {Connection!NoIntent, intent'[q]}
               /\ chosen'[q] = Unpinned => shims # {}
    BY <1>2, <1>7, <2>1 DEF ChoiceInv, Connection!ChoiceStands
  <2>2. CASE call[c].op # "inspect"
    <3>1. chosen'[p] = call[c].draft
      BY <1>2, <1>3, <2>2 DEF ConnectionShape
    <3>. QED  BY <1>6, <1>7, <2>1, <2>2, <3>1 DEF SaveFits
  <2>3. CASE call[c].op = "inspect"
    <3>1. chosen' = chosen /\ overwritten' = overwritten
      BY <1>2, <2>3
    <3>2. shims = {}
      BY <1>6, <2>3 DEF SaveFits, ConnectionShape, Connection!Commands
    <3>3. p \notin overwritten => chosen[p] = Connection!NoIntent
      <4>1. p \notin overwritten => intent[p] = Unpinned
        BY <1>3, <1>6, <2>3 DEF SaveFits
      <4>2. chosen[p] # Unpinned
        BY <1>3, <3>2 DEF ChoiceInv
      <4>. QED  BY <1>3, <4>1, <4>2 DEF ChoiceInv, Connection!ChoiceStands
    <3>4. chosen[p] # Unpinned
      BY <1>3, <3>2 DEF ChoiceInv
    <3>. QED  BY <1>3, <2>1, <3>1, <3>3, <3>4
  <2>. QED  BY <2>2, <2>3
<1>9. ChoiceInv'
  <2>1. \A i : (Pinned(i)' <=> Pinned(i)) /\ (Suits(i)' <=> Suits(i))
    BY <1>2 DEF Pinned, Suits
  <2>2. (Pinned(oldIntent) /\ \A q \in Scopes : Pinned(intent[q]))'
    BY <1>2, <1>6, <1>7, <2>1 DEF ChoiceInv, SaveFits
  <2>3. (\A d \in Connection!Callers :
            /\ call[d].step = "save" => SaveFits(call[d])
            /\ call[d].step \in {"claim", "place"} => Pinned(call[d].draft))'
    BY <1>5, <2>1 DEF ChoiceInv, Connection!Callers, Serving
  <2>4. host.open => Suits(call[c].draft)
    BY <1>6 DEF SaveFits
  <2>5. (host.open /\ host.scope \notin overwritten => Suits(intent[host.scope]))'
    BY <1>1, <1>2, <1>7, <2>1, <2>4
  <2>6. Connection!ChoiceStands'
    BY <1>8 DEF Connection!ChoiceStands
  <2>7. (\A q \in Scopes : chosen[q] = Unpinned => shims # {})'
    BY <1>2, <1>8
  <2>. QED  BY <2>2, <2>3, <2>5, <2>6, <2>7 DEF ChoiceInv
<1>. QED  BY <1>2, <1>4, <1>7, <1>9, StoresKeeps

LEMMA DisconnectKeeps ==
    ASSUME ConnectionInv, NEW c \in Connection!Callers, Connection!Disconnect(c)
    PROVE  ConnectionInv'
<1>. USE DEF ConnectionInv
<1>1. PICK p : p = host.scope
  OBVIOUS
<1>2. /\ call[c].step = "serve" /\ call[c].op = "disconnect" /\ active' = active /\ host' = host
      /\ UNCHANGED <<shims, oldIntent, log, measured, spent, purpose>>
      /\ call' = [call EXCEPT ![c] = [call[c] EXCEPT !.step = "close"]]
      /\ intent' = [intent EXCEPT ![p] = Connection!Off] /\ chosen' = [chosen EXCEPT ![p] = Connection!Off]
      /\ overwritten' = overwritten \ {p}
  BY <1>1 DEF Connection!Disconnect, Connection!Serves, Connection!Step, Connection!Put, Connection!KeepWorld
<1>3. call[c].step \in Serving /\ Alone(c) /\ p \in Scopes /\ call[c].scope = p /\ call[c] \in Calls
  BY <1>1, <1>2, Served DEF Serving
<1>4. "close" \in CallSteps \ {"next", "scoped"} /\ "close" \notin Spawning /\ Follows("disconnect", "close")
  BY DEF CallSteps, Spawning, Follows
<1>5. PICK r \in Calls : r = [call[c] EXCEPT !.step = "close"]
  BY <1>3, <1>4, CallFields DEF Calls
<1>6. r.step = "close" /\ r.op = "disconnect" /\ r.scope = p
  BY <1>2, <1>3, <1>5 DEF Calls
<1>7. Turns(c, r) /\ Lessens
  BY <1>1, <1>2, <1>3, <1>4, <1>5, <1>6, StepTurns DEF Lessens
<1>8. \A d \in Connection!Callers :
        /\ d # c => call'[d] = call[d] /\ call[d].step \notin Serving
        /\ d = c => call'[d].step = "close"
  BY <1>2, <1>3, <1>5, <1>6, Others DEF ConnectionShape
<1>9. /\ Connection!Off \in Connection!Intents /\ Connection!Off # Unpinned /\ Pinned(Connection!Off)
  <2>1. /\ Connection!Off \in Connection!Intents /\ Connection!Off # Unpinned
        /\ Connection!Off.command = Connection!NoCommand
    BY DEF Connection!Intents, Connection!Off, Connection!Intent, Unpinned
  <2>2. Connection!NoCommand \notin shims
    BY DEF ConnectionShape, Connection!Commands, Connection!NoCommand
  <2>. QED  BY <2>1, <2>2 DEF Pinned
<1>10. /\ {intent', chosen'} \subseteq [Scopes -> Connection!Intents \cup {Connection!NoIntent}]
       /\ overwritten' \subseteq Scopes /\ intent'[p] = Connection!Off /\ chosen'[p] = Connection!Off
       /\ \A q \in Scopes \ {p} : intent'[q] = intent[q] /\ chosen'[q] = chosen[q]
  BY <1>2, <1>3, <1>9 DEF ConnectionShape
<1>11. ChoiceInv'
  <2>1. \A i : Pinned(i)' <=> Pinned(i)
    BY <1>2 DEF Pinned
  <2>2. (Pinned(oldIntent) /\ \A q \in Scopes : Pinned(intent[q]))'
    BY <1>2, <1>9, <1>10, <2>1 DEF ChoiceInv
  <2>3. (\A d \in Connection!Callers :
            /\ call[d].step = "save" => SaveFits(call[d])
            /\ call[d].step \in {"claim", "place"} => Pinned(call[d].draft))'
    BY <1>8, <2>1 DEF ChoiceInv, Connection!Callers, Serving
  <2>4. (~\A d \in Connection!Callers : call[d].step \notin {"save", "close"})'
    BY <1>8 DEF Connection!Callers
  <2>5. Connection!ChoiceStands'
    BY <1>2, <1>10 DEF ChoiceInv, Connection!ChoiceStands
  <2>6. (\A q \in Scopes : chosen[q] = Unpinned => shims # {})'
    BY <1>2, <1>9, <1>10 DEF ChoiceInv
  <2>. QED  BY <2>2, <2>3, <2>4, <2>5, <2>6 DEF ChoiceInv
<1>. QED  BY <1>2, <1>6, <1>7, <1>10, <1>11, StoresKeeps

LEMMA PlaceKeeps ==
    ASSUME ConnectionInv, NEW c \in Connection!Callers, Connection!Place(c)
    PROVE  ConnectionInv'
<1>. USE DEF ConnectionInv
<1>1. PICK p : p = call[c].scope
  OBVIOUS
<1>2. /\ call[c].step = "place" /\ active' = active /\ Connection!Migrated(c)
      /\ UNCHANGED <<shims, oldIntent, log, measured, spent, purpose, chosen>>
      /\ intent' = [intent EXCEPT ![p] = call[c].draft]
      /\ overwritten' = IF intent[p] = Connection!NoIntent THEN overwritten ELSE overwritten \cup {p}
  BY <1>1 DEF Connection!Place, Connection!KeepWorld
<1>3. call[c] \in Calls /\ p \in Scopes
  BY <1>1, <1>2 DEF ConnectionShape, CallInv, CallFitsOp
<1>4. call[c].op # "migrate" => Alone(c) /\ host = Connection!NoHost
  BY <1>2, Holder DEF Spawning, CallInv
<1>5. PICK s \in CallSteps \ {"next", "scoped"} : s = IF call[c].op = "migrate" THEN "desired" ELSE "serve"
  BY DEF CallSteps
<1>6. PICK r \in Calls : r = [call[c] EXCEPT !.step = s]
  BY <1>3, <1>5, CallFields
<1>7. r.step = s /\ r.op = call[c].op /\ r.scope = p
  BY <1>1, <1>3, <1>5, <1>6, CallFields DEF Calls
<1>8. /\ call' = [call EXCEPT ![c] = r]
      /\ IF call[c].op = "migrate" THEN host' = host ELSE host' = Connection!NewHost(p)
  BY <1>1, <1>2, <1>5, <1>6 DEF Connection!Migrated, Connection!Step, Connection!Put
<1>9. s \in Serving => host'.scope = p
  <2>1. s \in Serving => call[c].op # "migrate"
    BY <1>5 DEF Serving
  <2>2. Connection!NewHost(p).scope = p
    BY <1>3, HostFields
  <2>. QED  BY <1>8, <2>1, <2>2
<1>10. s \notin Spawning /\ s \notin {"save", "close", "claim", "place", "turn", "answer"} /\ Follows(call[c].op, s)
  BY <1>5 DEF Spawning, Follows
<1>11. Turns(c, r) /\ Lessens
  BY <1>1, <1>2, <1>3, <1>4, <1>7, <1>8, <1>9, <1>10, StepTurns DEF Lessens
<1>12. host' # host => Alone(c) /\ ~host'.open
  BY <1>3, <1>4, <1>8, HostFields
<1>13. \A d \in Connection!Callers :
        /\ d # c => call'[d] = call[d]
        /\ d = c => call'[d].step \notin {"save", "close", "claim", "place"}
  BY <1>7, <1>8, <1>10 DEF ConnectionShape
<1>14. Pinned(call[c].draft) /\ call[c].draft \in Connection!Intents \cup {Connection!NoIntent}
  BY <1>2, <1>3 DEF ChoiceInv, Calls
<1>15. /\ {intent', chosen'} \subseteq [Scopes -> Connection!Intents \cup {Connection!NoIntent}]
       /\ overwritten' \subseteq Scopes /\ intent'[p] = call[c].draft
       /\ \A q \in Scopes \ {p} : intent'[q] = intent[q]
  BY <1>2, <1>3, <1>14 DEF ConnectionShape
<1>16. /\ Connection!NoIntent # Unpinned /\ ~Connection!NoIntent.desired
  BY DEF Connection!NoIntent, Connection!Intent, Unpinned
<1>17. ChoiceInv'
  <2>1. \A i : Pinned(i)' <=> Pinned(i)
    BY <1>2 DEF Pinned
  <2>2. (Pinned(oldIntent) /\ \A q \in Scopes : Pinned(intent[q]))'
    BY <1>2, <1>14, <1>15, <2>1 DEF ChoiceInv
  <2>3. (\A d \in Connection!Callers : call[d].step = "save" => SaveFits(call[d]))'
    <3>1. SUFFICES ASSUME NEW d \in Connection!Callers, d # c, call[d].step = "save", call'[d] = call[d]
                   PROVE  SaveFits(call[d])'
      BY <1>13 DEF Connection!Callers
    <3>2. host' = host
      <4>1. call[d].step \in Serving
        BY <3>1 DEF Serving
      <4>2. Connection!Holds(d)
        BY <4>1, Served
      <4>. QED  BY <1>12, <3>1, <4>2 DEF Alone
    <3>3. SaveFits(call[d])
      BY <3>1 DEF ChoiceInv
    <3>4. ASSUME call[d].op = "inspect" 
          PROVE  call[d].scope \in overwritten' \/ intent'[call[d].scope] = Unpinned
      <4>1. call[d].scope \in Scopes /\ (call[d].scope \in overwritten \/ intent[call[d].scope] = Unpinned)
        BY <3>1, <3>3, <3>4 DEF SaveFits, CallInv, CallFitsOp
      <4>. QED  BY <1>2, <1>15, <1>16, <4>1
    <3>. QED  BY <1>2, <3>1, <3>2, <3>3, <3>4 DEF SaveFits, Suits, Pinned
  <2>4. (\A d \in Connection!Callers : call[d].step \in {"claim", "place"} => Pinned(call[d].draft))'
    BY <1>13, <2>1 DEF ChoiceInv, Connection!Callers
  <2>5. (host.open /\ host.scope \notin overwritten
           /\ (\A d \in Connection!Callers : call[d].step \notin {"save", "close"})
         => Suits(intent[host.scope]))'
    <3>1. SUFFICES ASSUME host'.open, host'.scope \notin overwritten',
                          \A d \in Connection!Callers : call'[d].step \notin {"save", "close"}
                   PROVE  Suits(intent[host.scope])'
      BY DEF Connection!Callers
    <3>2. host' = host /\ \A d \in Connection!Callers : call[d].step \notin {"save", "close"}
      BY <1>2, <1>12, <1>13, <3>1
    <3>3. host.open /\ host.scope \notin overwritten
      BY <1>2, <3>1, <3>2
    <3>4. Suits(intent[host.scope]) /\ host.scope \in Scopes
      BY <3>2, <3>3 DEF ChoiceInv, HostInv, ConnectionShape, Hosts, Connection!NewHost
    <3>5. host.scope # p
      BY <1>2, <1>16, <3>1, <3>2, <3>4 DEF Suits
    <3>. QED  BY <1>2, <1>15, <3>2, <3>4, <3>5 DEF Suits
  <2>6. Connection!ChoiceStands'
    BY <1>2, <1>15 DEF ChoiceInv, Connection!ChoiceStands
  <2>7. (\A q \in Scopes : chosen[q] = Unpinned => shims # {})'
    BY <1>2 DEF ChoiceInv
  <2>. QED  BY <2>2, <2>3, <2>4, <2>5, <2>6, <2>7 DEF ChoiceInv
<1>. QED  BY <1>2, <1>10, <1>7, <1>11, <1>12, <1>15, <1>17, StoresKeeps

----------------------------------------------------------------------------------
(* Steps of no call.                                                             *)

LEMMA WorldKeeps ==
    ASSUME ConnectionInv, Plain, host' \in Hosts, HostInv',
           active' \in Scopes \cup {NoScope}, call' \in [Connection!Callers -> Calls], CallInv',
           \A d \in Connection!Callers :
               \/ call'[d] = call[d]
               \/ call'[d].step = "next" /\ ~host'.open,
           host'.open => /\ host.open /\ host'.scope = host.scope
                         /\ host'.selected = host.selected /\ host'.mode = host.mode,
           IF host'.scope = host.scope THEN host'.queue \in {<<>>, host.queue} ELSE host'.queue = <<>>,
           \A t \in DOMAIN host'.known :
               t \in DOMAIN host.known /\ host'.known[t] = host.known[t] /\ host'.scope = host.scope,
           ~host'.dead => /\ ~host.dead /\ log' = log /\ host'.tagged = host.tagged
                          /\ host'.known = host.known /\ host'.queue = host.queue /\ host'.scope = host.scope
    PROVE  ConnectionInv'
<1>. USE DEF ConnectionInv
<1>1. /\ log' \in [Scopes -> Logs]
      /\ \A p \in Scopes : log'[p].own = log[p].own /\ log'[p].free = log[p].free
  BY LogKept DEF Plain
<1>2. ConnectionShape'
  BY <1>1 DEF ConnectionShape, Plain
<1>3. ChoiceInv'
  BY ChoiceKept DEF Plain
<1>4. UsageInv'
  BY <1>1, UsageKept DEF Plain
<1>5. MeasureInv'
  BY MeasureKept DEF Plain
<1>. QED  BY <1>2, <1>3, <1>4, <1>5

\* A session that is open is of a host that lives.
LEMMA OpenLives ==
    ASSUME HostInv, host.open
    PROVE  ~host.dead /\ host # Connection!NoHost /\ host.scope # NoScope
<1>1. host # Connection!NoHost
  BY NoHostFields
<1>2. ~host.dead
  BY DEF HostInv, Connection!NewHost
<1>. QED  BY <1>1, <1>2 DEF HostInv

LEMMA HangupKeeps ==
    ASSUME ConnectionInv, Connection!Hangup
    PROVE  ConnectionInv'
<1>. USE DEF ConnectionInv
<1>1. /\ host.open /\ host' = [host EXCEPT !.open = FALSE] /\ active' = active /\ call' = call /\ log' = log
      /\ UNCHANGED <<shims, intent, oldIntent, measured, chosen, overwritten, spent, purpose>>
  BY DEF Connection!Hangup, Connection!KeepFiles, Connection!KeepWorld, Connection!history
<1>2. ~host.dead /\ host # Connection!NoHost /\ host \in Hosts
  BY <1>1, OpenLives DEF ConnectionShape
<1>3. /\ host'.open = FALSE /\ host'.scope = host.scope /\ host'.dead = host.dead /\ host'.tagged = host.tagged
      /\ host'.known = host.known /\ host'.queue = host.queue
  BY <1>1, <1>2 DEF Hosts
<1>4. CallInv'
  BY <1>1, <1>2, <1>3, CallsStay
<1>5. Lessens /\ Plain
  BY <1>1, <1>2, PlainKept DEF Lessens, Hosts
<1>6. host' \in Hosts /\ HostInv'
  BY <1>1, <1>5, Lessened
<1>. QED  BY <1>1, <1>2, <1>3, <1>4, <1>5, <1>6, WorldKeeps DEF ConnectionShape

LEMMA CompleteKeeps ==
    ASSUME ConnectionInv, NEW t \in Connection!Measures, Connection!Complete(t)
    PROVE  ConnectionInv'
<1>. USE DEF ConnectionInv
<1>1. /\ host.open /\ t \in host.tagged /\ host' = [host EXCEPT !.completed = @ \cup {t}]
      /\ active' = active /\ call' = call /\ log' = log
      /\ UNCHANGED <<shims, intent, oldIntent, measured, chosen, overwritten, spent, purpose>>
  BY DEF Connection!Complete, Connection!KeepFiles, Connection!KeepWorld, Connection!history
<1>2. ~host.dead /\ host # Connection!NoHost /\ host \in Hosts
  BY <1>1, OpenLives DEF ConnectionShape
<1>3. /\ host' \in Hosts /\ host'.open = host.open /\ host'.scope = host.scope /\ host'.dead = host.dead
      /\ host'.tagged = host.tagged /\ host'.known = host.known /\ host'.queue = host.queue
      /\ host'.selected = host.selected /\ host'.mode = host.mode /\ host'.completed = host.completed \cup {t}
  BY <1>1, <1>2 DEF Hosts
<1>4. CallInv'
  BY <1>1, <1>2, <1>3, CallsStay
<1>5. Plain
  BY <1>1, PlainKept
<1>6. HostInv'
  BY <1>1, <1>2, <1>3 DEF HostInv
<1>. QED  BY <1>1, <1>2, <1>3, <1>4, <1>5, <1>6, WorldKeeps DEF ConnectionShape

\* What a death may do to the state of the measurements.
LEMMA CutFiles ==
    ASSUME ConnectionShape, measured' \in Connection!Cut
    PROVE  measured' \in [Scopes -> {"no", "lately", "torn"}]
<1>1. measured' \in {measured, [measured EXCEPT ![host.scope] = "torn"]}
  BY DEF Connection!Cut
<1>. QED  BY <1>1 DEF ConnectionShape

LEMMA AppendFailsKeeps ==
    ASSUME ConnectionInv, Connection!AppendFails
    PROVE  ConnectionInv'
<1>. USE DEF ConnectionInv
<1>1. /\ ~host.dead /\ host' = [Connection!NewHost(host.scope) EXCEPT !.dead = TRUE]
      /\ log' \in {log, Connection!Torn} /\ measured' \in Connection!Cut /\ active' = active /\ call' = call
      /\ UNCHANGED <<shims, intent, oldIntent, chosen, overwritten, spent, purpose>>
  BY DEF Connection!AppendFails, Connection!history
<1>2. host.dead = FALSE /\ host # Connection!NoHost /\ host.scope \in Scopes \cup {NoScope}
  BY <1>1, NoHostFields DEF ConnectionShape, Hosts
<1>3. PICK p \in Scopes \cup {NoScope} : p = host.scope /\ host' = [Connection!NewHost(p) EXCEPT !.dead = TRUE]
  BY <1>1, <1>2
<1>4. host'.scope = host.scope /\ host'.dead = TRUE /\ host'.open = FALSE
  BY <1>3, DeadFields
<1>5. CallInv'
  BY <1>1, <1>2, <1>4, CallsStay
<1>6. Plain
  BY <1>1, CutFiles DEF Plain, ConnectionShape, ChoiceInv, Pinned
<1>7. Lessens
  BY <1>1, <1>2 DEF Lessens
<1>8. /\ host' \in Hosts /\ HostInv'
      /\ IF host'.scope = host.scope THEN host'.queue \in {<<>>, host.queue} ELSE host'.queue = <<>>
      /\ \A t \in DOMAIN host'.known :
             t \in DOMAIN host.known /\ host'.known[t] = host.known[t] /\ host'.scope = host.scope
  BY <1>1, <1>7, Lessened
<1>. QED  BY <1>1, <1>4, <1>5, <1>6, <1>8, WorldKeeps DEF ConnectionShape

LEMMA CooledKeeps ==
    ASSUME ConnectionInv, NEW p \in Scopes, Connection!Cooled(p)
    PROVE  ConnectionInv'
<1>. USE DEF ConnectionInv
<1>1. /\ measured' = [measured EXCEPT ![p] = "no"] /\ active' = active /\ call' = call /\ log' = log /\ host' = host
      /\ UNCHANGED <<shims, intent, oldIntent, chosen, overwritten, spent, purpose>>
  BY DEF Connection!Cooled, Connection!KeepWorld, Connection!history
<1>2. CallInv' /\ HostInv' /\ Plain
  BY <1>1, CallsStay DEF HostInv, Plain, ConnectionShape, ChoiceInv, Pinned
<1>. QED  BY <1>1, <1>2, WorldKeeps DEF ConnectionShape

LEMMA SwitchKeeps ==
    ASSUME ConnectionInv, NEW p \in Scopes \cup {NoScope}, Connection!Switch(p)
    PROVE  ConnectionInv'
<1>. USE DEF ConnectionInv
<1>1. /\ active' = p /\ call["main"] = Connection!Finished /\ call' = call /\ log' = log /\ host' = host
      /\ UNCHANGED <<shims, intent, oldIntent, measured, chosen, overwritten, spent, purpose>>
  BY DEF Connection!Switch, Connection!KeepFiles, Connection!history
<1>2. call["main"].step = "next"
  BY <1>1, BeginFields
<1>3. CallInv'
  BY <1>1, <1>2 DEF CallInv, CallFitsOp, Connection!Holds
<1>4. HostInv' /\ Plain
  BY <1>1, PlainKept DEF HostInv
<1>. QED  BY <1>1, <1>3, <1>4, WorldKeeps DEF ConnectionShape

LEMMA DiesKeeps ==
    ASSUME ConnectionInv, Connection!Dies
    PROVE  ConnectionInv'
<1>. USE DEF ConnectionInv
<1>1. /\ Connection!Kill /\ measured' \in Connection!Cut /\ active' = active
      /\ call' = [c \in Connection!Callers |->
                    IF c = "restore" THEN [Connection!Finished EXCEPT !.op = "migrate"] ELSE Connection!Finished]
      /\ UNCHANGED <<shims, intent, oldIntent, chosen, overwritten, spent, purpose>>
  BY DEF Connection!Dies, Connection!history
<1>2. /\ host' = Connection!NoHost /\ log' \in {log, Connection!Torn} /\ Lessens
  BY <1>1, Killed
<1>3. PICK m \in Calls : m = [Connection!Finished EXCEPT !.op = "migrate"] /\ m.op = "migrate" /\ m.step = "next"
  BY BeginFields
<1>4. PICK f \in Calls : f = Connection!Finished /\ f.op = "none" /\ f.step = "next"
  BY BeginFields
<1>5. call' \in [Connection!Callers -> Calls] /\ call'["main"] = f /\ call'["restore"] = m
  BY <1>1, <1>3, <1>4, ConnectionConstants
<1>6. CallInv'
  <2>1. \A c \in Connection!Callers : call'[c].step = "next" /\ call'[c].op \in {"none", "migrate"}
    BY <1>3, <1>4, <1>5, ConnectionConstants
  <2>2. \A c \in Connection!Callers : CallFitsOp(call'[c])
    BY <2>1 DEF CallFitsOp
  <2>3. ~Connection!Holds("main")'
    BY <2>1, ConnectionConstants DEF Connection!Holds
  <2>. QED  BY <1>3, <1>4, <1>5, <2>1, <2>2, <2>3, ConnectionConstants DEF CallInv, Serving, Spawning
<1>7. Plain
  BY <1>1, <1>2, CutFiles DEF Plain, ConnectionShape, ChoiceInv, Pinned
<1>8. /\ host' \in Hosts /\ HostInv'
      /\ IF host'.scope = host.scope THEN host'.queue \in {<<>>, host.queue} ELSE host'.queue = <<>>
      /\ \A t \in DOMAIN host'.known :
             t \in DOMAIN host.known /\ host'.known[t] = host.known[t] /\ host'.scope = host.scope
  BY <1>1, <1>2, Lessened
<1>9. host'.dead = TRUE /\ host'.open = FALSE /\ \A d \in Connection!Callers : call'[d].step = "next"
  BY <1>2, <1>3, <1>4, <1>5, NoHostFields, ConnectionConstants
<1>. QED  BY <1>1, <1>5, <1>6, <1>7, <1>8, <1>9, WorldKeeps DEF ConnectionShape

----------------------------------------------------------------------------------
(* Steps that measure.                                                           *)

LEMMA CountMono ==
    ASSUME NEW q \in Seq(Deltas), NEW t
    PROVE  Count(q, OwnOf(t)) <= Count(q, OfThread(t))
<1>1. At(q, OwnOf(t)) \in SUBSET At(q, OfThread(t))
  BY DEF At, OwnOf, OfThread
<1>. QED  BY <1>1, CountNatural, FS_Subset DEF Count

\* How far the measurements have come.
LEMMA Begun ==
    ASSUME UsageInv
    PROVE  \E k \in 0..MaxMeasures : Connection!Started = 1..k /\ Connection!Cardinality(Connection!Started) = k
<1>1. PICK k \in 0..MaxMeasures : Connection!Started = 1..k
  BY DEF UsageInv
<1>2. Cardinality(1..k) = k
  BY <1>1, ConnectionConstants, FS_Interval
<1>. QED  BY <1>1, <1>2, ConnectionConstants

LEMMA BegunNext ==
    ASSUME NEW k \in 0..MaxMeasures, Connection!Started' = 1..k
    PROVE  Connection!Cardinality(Connection!Started)' = k
<1>1. Cardinality(1..k) = k
  BY ConnectionConstants, FS_Interval
<1>2. Connection!Cardinality(Connection!Started)' = Cardinality(Connection!Started')
  BY Zenon DEF Connection!Cardinality, Cardinality
<1>. QED  BY <1>1, <1>2

\* What a measurement that begins makes of the host.
Measuring(t) ==
    [host EXCEPT !.known = [u \in DOMAIN host.known \cup {t} |-> IF u = t THEN 0 ELSE host.known[u]],
                 !.tagged = host.tagged \cup {t}]

LEMMA MeasuringFields ==
    ASSUME host \in Hosts, NEW t \in Connection!Measures, host' = Measuring(t)
    PROVE  /\ host' \in Hosts /\ host'.scope = host.scope /\ host'.dead = host.dead /\ host'.open = host.open
           /\ host'.selected = host.selected /\ host'.mode = host.mode /\ host'.queue = host.queue
           /\ host'.tagged = host.tagged \cup {t} /\ host'.completed = host.completed
           /\ DOMAIN host'.known = DOMAIN host.known \cup {t} /\ host'.known[t] = 0
           /\ \A u \in DOMAIN host.known : u # t => host'.known[u] = host.known[u]
<1>1. PICK ts \in SUBSET Connection!Measures : host.known \in [ts -> Nat]
  BY DEF Hosts, Counts
<1>2. PICK k : k = [u \in DOMAIN host.known \cup {t} |-> IF u = t THEN 0 ELSE host.known[u]]
  OBVIOUS
<1>3. /\ ts \cup {t} \in SUBSET Connection!Measures /\ k \in [ts \cup {t} -> Nat]
      /\ DOMAIN k = DOMAIN host.known \cup {t} /\ k[t] = 0
      /\ \A u \in DOMAIN host.known : u # t => k[u] = host.known[u]
  BY <1>1, <1>2
<1>4. k \in Counts
  BY <1>3 DEF Counts
<1>5. PICK g \in SUBSET Connection!Measures : g = host.tagged \cup {t}
  BY DEF Hosts
<1>5a. host' = [host EXCEPT !.known = k, !.tagged = g]
  BY <1>2, <1>5 DEF Measuring
<1>6. /\ host'.scope = host.scope /\ host'.dead = host.dead /\ host'.open = host.open
      /\ host'.selected = host.selected /\ host'.mode = host.mode /\ host'.queue = host.queue
      /\ host'.tagged = g /\ host'.completed = host.completed /\ host'.known = k
      /\ host' \in Hosts
  BY <1>4, <1>5a DEF Hosts
<1>. QED  BY <1>3, <1>5, <1>6

LEMMA MeasureKeeps ==
    ASSUME ConnectionInv, NEW c \in Connection!Callers, Connection!Measure(c)
    PROVE  ConnectionInv'
<1>. USE DEF ConnectionInv
<1>1. PICK k \in 0..MaxMeasures : Connection!Started = 1..k /\ Connection!Cardinality(Connection!Started) = k
  BY Begun
<1>2. PICK t : t = k + 1
  OBVIOUS
<1>3. /\ call[c].step = "serve" /\ call[c].op = "measure" /\ ~host.dead /\ active' = active
      /\ UNCHANGED <<shims, intent, oldIntent, measured, chosen, overwritten, spent>>
      /\ \/ /\ host.open /\ t \in Connection!Measures /\ host' = Measuring(t)
            /\ purpose' = [purpose EXCEPT ![t] = active]
            /\ call' = [call EXCEPT ![c] = [call[c] EXCEPT !.step = "turn"]] /\ log' = log
         \/ Connection!Refused(c) /\ purpose' = purpose
  <2>1. /\ call[c].step = "serve" /\ call[c].op = "measure" /\ ~host.dead /\ active' = active
        /\ UNCHANGED <<shims, intent, oldIntent, measured, chosen, overwritten, spent>>
        /\ \/ /\ host.open /\ Connection!Cardinality(Connection!Started) + 1 \in Connection!Measures
              /\ host' = Measuring(Connection!Cardinality(Connection!Started) + 1)
              /\ purpose' = [purpose EXCEPT ![Connection!Cardinality(Connection!Started) + 1] = active]
              /\ call' = [call EXCEPT ![c] = [call[c] EXCEPT !.step = "turn"]] /\ log' = log
           \/ Connection!Refused(c) /\ purpose' = purpose
    BY DEF Connection!Measure, Connection!Serves, Connection!Step, Connection!Put, Connection!history, Measuring
  <2>. QED  BY <1>1, <1>2, <2>1
<1>4. call[c].step \in Serving /\ Alone(c) /\ host.scope \in Scopes /\ call[c] \in Calls
      /\ call[c].scope = host.scope
  BY <1>3, Served DEF Serving
<1>5. CASE Connection!Refused(c) /\ purpose' = purpose
  BY <1>3, <1>4, <1>5, RefusedKeeps
<1>6. CASE /\ host.open /\ t \in Connection!Measures /\ host' = Measuring(t)
           /\ purpose' = [purpose EXCEPT ![t] = active]
           /\ call' = [call EXCEPT ![c] = [call[c] EXCEPT !.step = "turn"]] /\ log' = log
  <2>1. active = host.scope
    <3>1. c = "main"
      BY <1>3, ConnectionConstants DEF CallInv
    <3>. QED  BY <1>3, <1>4, <3>1 DEF CallInv
  <2>2. /\ host' \in Hosts /\ host'.scope = host.scope /\ host'.dead = host.dead /\ host'.open = host.open
        /\ host'.selected = host.selected /\ host'.mode = host.mode /\ host'.queue = host.queue
        /\ host'.tagged = host.tagged \cup {t} /\ host'.completed = host.completed
        /\ DOMAIN host'.known = DOMAIN host.known \cup {t} /\ host'.known[t] = 0
        /\ \A u \in DOMAIN host.known : u # t => host'.known[u] = host.known[u]
    BY <1>6, MeasuringFields DEF ConnectionShape
  <2>3. HostInv'
    BY <1>3, <1>4, <2>2, ConnectionConstants DEF HostInv
  <2>4. "turn" \in CallSteps \ {"next", "scoped"} /\ "turn" \notin Spawning /\ Follows("measure", "turn")
    BY DEF CallSteps, Spawning, Follows
  <2>5. PICK r \in Calls : r = [call[c] EXCEPT !.step = "turn"]
    BY <1>4, <2>4, CallFields DEF Calls
  <2>6. r.step = "turn" /\ r.op = "measure" /\ r.scope = host.scope
    BY <1>3, <1>4, <2>5 DEF Calls
  <2>7. Turns(c, r)
    BY <1>3, <1>4, <1>6, <2>2, <2>4, <2>5, <2>6, StepTurns
  <2>8. /\ call' \in [Connection!Callers -> Calls] /\ CallInv'
        /\ call'[c] = r /\ \A d \in Connection!Callers : d # c => call'[d] = call[d]
    BY <2>7, CallsKept
  <2>9. /\ purpose' \in [Connection!Measures -> Scopes \cup {NoScope}] /\ purpose'[t] = host.scope
        /\ \A u \in Connection!Measures : u # t => purpose'[u] = purpose[u]
    BY <1>6, <2>1 DEF ConnectionShape
  <2>10. ConnectionShape'
    BY <1>3, <1>6, <2>2, <2>8, <2>9 DEF ConnectionShape
  <2>11. ChoiceInv'
    BY <1>3, <2>2, <2>6, <2>8, ChoiceKept DEF ChoiceInv, Pinned
  <2>12. t \in 1..MaxMeasures /\ t \notin Connection!Started /\ Connection!Started' = 1..t
    <3>1. k \in Nat /\ t = k + 1 /\ t \in 1..MaxMeasures
      BY <1>1, <1>2, <1>6, ConnectionConstants
    <3>2. Connection!Started' = Connection!Started \cup {t}
      BY <1>4, <1>6, <2>9, ConnectionConstants DEF Connection!Started
    <3>3. 1..t = (1..k) \cup {t} /\ t \notin 1..k
      BY <3>1
    <3>. QED  BY <1>1, <3>1, <3>2, <3>3
  <2>13. spent[t] = 0 /\ purpose[t] = NoScope
    BY <1>6, <2>12 DEF UsageInv, Connection!Started
  <2>14. \A u : Connection!Waiting(u)' = Connection!Waiting(u) /\ Cardinality(Queued(u)') = Cardinality(Queued(u))
    <3>1. host.queue \in Seq(Deltas) /\ host'.queue \in Seq(Deltas)
      BY <2>2 DEF ConnectionShape, Hosts
    <3>. QED  BY <2>2, <3>1, Waits, WaitsNext
  <2>15. \A p \in Scopes : \A u \in Connection!Measures :
            Logged(p, u)' = Logged(p, u) /\ log[p].own[u] \in Nat /\ log[p].free[u] \in Nat
    BY <1>6 DEF Logged, ConnectionShape, Logs
  <2>16. UsageInv'
    <3>1. (\E n \in 0..MaxMeasures : Connection!Started = 1..n)'
      BY <2>12, ConnectionConstants
    <3>2. (\A u \in Connection!Measures \ Connection!Started : spent[u] = 0)'
      BY <1>3, <2>9, <2>12 DEF UsageInv, Connection!Started, Connection!Measures
    <3>3. \A u \in DOMAIN host'.known : purpose'[u] = host'.scope /\ host'.known[u] = spent'[u]
      <4>1. \A u \in DOMAIN host.known : u \in Connection!Measures
        BY DEF ConnectionShape, Hosts, Counts
      <4>. QED  BY <1>3, <2>2, <2>9, <2>13, <4>1 DEF UsageInv
    <3>4. \A n \in DOMAIN host'.queue : purpose'[host'.queue[n].thread] = host'.scope
      <4>1. \A n \in DOMAIN host.queue : host.queue[n].thread \in Connection!Measures
        <5>1. host.queue \in Seq(Deltas)
          BY DEF ConnectionShape, Hosts
        <5>2. \A n \in DOMAIN host.queue : host.queue[n] \in Deltas
          BY <5>1
        <5>. QED  BY <5>2 DEF Deltas
      <4>. QED  BY <2>2, <2>9, <4>1 DEF UsageInv
    <3>5. (host.scope \in Scopes =>
             \A u \in Connection!Measures : Logged(host.scope, u) + Cardinality(Queued(u)) <= spent[u])'
      <4>1. \A u \in Connection!Measures : Logged(host.scope, u) + Cardinality(Queued(u)) <= spent[u]
        BY <1>4 DEF UsageInv
      <4>2. \A u \in Connection!Measures :
              Logged(host.scope, u)' = Logged(host.scope, u)
        BY <1>4, <1>6, <2>2 DEF Logged
      <4>. QED  BY <1>3, <2>14, <4>1, <4>2 DEF Connection!Measures
    <3>6. Connection!UsageIsOfItsProject'
      <4>1. SUFFICES ASSUME NEW p \in Scopes, NEW u \in Connection!Measures
                     PROVE  /\ log[p].own[u] + log[p].free[u] > 0 => purpose'[u] = p
                            /\ log[p].own[u] + log[p].free[u] <= spent[u]
        BY <1>3, <1>6 DEF Connection!UsageIsOfItsProject, Connection!Measures
      <4>2. /\ log[p].own[u] + log[p].free[u] > 0 => purpose[u] = p
            /\ log[p].own[u] + log[p].free[u] <= spent[u]
        BY DEF UsageInv, Connection!UsageIsOfItsProject
      <4>3. CASE u = t
        BY <2>13, <2>15, <4>2, <4>3
      <4>4. CASE u # t
        BY <2>9, <4>2, <4>4
      <4>. QED  BY <4>3, <4>4
    <3>. QED  BY <3>1, <3>2, <3>3, <3>4, <3>5, <3>6 DEF UsageInv
  <2>17. MeasureInv'
    <3>1. Connection!Cardinality(Connection!Started)' = t
      BY <2>12, BegunNext
    <3>2. \A d \in Connection!Callers : d # c => call[d].step \notin Serving
      BY <1>4, Others
    <3>3. log[host.scope].own[t] + Connection!Waiting(t) = 0
      <4>1. host.queue \in Seq(Deltas)
        BY DEF ConnectionShape, Hosts
      <4>2. /\ Connection!Waiting(t) = Count(host.queue, OwnOf(t))
            /\ Cardinality(Queued(t)) = Count(host.queue, OfThread(t))
            /\ Count(host.queue, OwnOf(t)) <= Count(host.queue, OfThread(t))
            /\ Count(host.queue, OwnOf(t)) \in Nat /\ Count(host.queue, OfThread(t)) \in Nat
        BY <4>1, Waits, CountMono, CountNatural
      <4>3. log[host.scope].own[t] \in Nat /\ log[host.scope].free[t] \in Nat
        BY <1>4, <1>6, <2>15
      <4>4. (log[host.scope].own[t] + log[host.scope].free[t]) + Cardinality(Queued(t)) <= 0
        BY <1>4, <1>6, <2>13 DEF UsageInv, Logged
      <4>. QED  BY <4>2, <4>3, <4>4
    <3>4. t \in host'.tagged /\ log'[host'.scope].own[t] + Connection!Waiting(t)' = host'.known[t]
      BY <1>6, <2>2, <2>14, <3>3
    <3>. QED  BY <2>8, <3>1, <3>2, <3>4 DEF MeasureInv, Serving, Connection!Callers
  <2>. QED  BY <2>3, <2>8, <2>10, <2>11, <2>16, <2>17
<1>. QED  BY <1>3, <1>5, <1>6

LEMMA NotifyKeeps ==
    ASSUME ConnectionInv, NEW t \in Connection!Measures, Connection!Notify(t)
    PROVE  ConnectionInv'
<1>. USE DEF ConnectionInv
<1>1. PICK e : e = [thread |-> t, amount |-> (spent[t] + 1) - host.known[t], tagged |-> t \in host.tagged]
  OBVIOUS
<1>2. /\ host.open /\ t \in DOMAIN host.known /\ spent' = [spent EXCEPT ![t] = spent[t] + 1]
      /\ host' = [host EXCEPT !.known[t] = spent[t] + 1, !.queue = Append(host.queue, e)]
      /\ active' = active /\ call' = call /\ log' = log
      /\ UNCHANGED <<shims, intent, oldIntent, measured, chosen, overwritten, purpose>>
  BY <1>1 DEF Connection!Notify, Connection!KeepFiles, Connection!history
<1>3. ~host.dead /\ host # Connection!NoHost /\ host \in Hosts /\ host.scope \in Scopes
  BY <1>2, OpenLives DEF ConnectionShape, Hosts
<1>4. PICK total \in Nat : total = spent[t] + 1 /\ spent[t] \in Nat
  BY DEF ConnectionShape
<1>5. purpose[t] = host.scope /\ host.known[t] = spent[t]
  BY <1>2 DEF UsageInv
<1>6. e \in Deltas /\ e.thread = t /\ (e.tagged <=> t \in host.tagged)
  <2>1. (spent[t] + 1) - host.known[t] = 1
    BY <1>4, <1>5
  <2>2. CASE t \in host.tagged
    <3>1. e = [thread |-> t, amount |-> 1, tagged |-> TRUE]
      BY <1>1, <2>1, <2>2
    <3>. QED  BY <2>2, <3>1 DEF Deltas
  <2>3. CASE t \notin host.tagged
    <3>0. (t \in host.tagged) = FALSE
      BY <2>3
    <3>1. e = [thread |-> t, amount |-> 1, tagged |-> FALSE]
      BY <1>1, <2>1, <3>0, Zenon
    <3>. QED  BY <2>3, <3>1 DEF Deltas
  <2>. QED  BY <2>2, <2>3
<1>7. PICK q \in Seq(Deltas) : q = Append(host.queue, e)
  <2>1. host.queue \in Seq(Deltas)
    BY <1>3 DEF Hosts
  <2>2. Append(host.queue, e) \in Seq(Deltas)
    BY <1>6, <2>1
  <2>. QED  BY <2>2
<1>8. PICK ts \in SUBSET Connection!Measures : host.known \in [ts -> Nat] /\ t \in ts
  BY <1>2, <1>3 DEF Hosts, Counts
<1>9. PICK k : k = [host.known EXCEPT ![t] = total]
  OBVIOUS
<1>10. /\ k \in [ts -> Nat] /\ DOMAIN k = DOMAIN host.known /\ k[t] = total
       /\ \A u \in DOMAIN host.known : u # t => k[u] = host.known[u]
  BY <1>8, <1>9
<1>11. k \in Counts
  BY <1>10 DEF Counts
<1>12. host' = [host EXCEPT !.known = k, !.queue = q]
  BY <1>2, <1>3, <1>4, <1>7, <1>9 DEF Hosts
<1>13. /\ host' \in Hosts /\ host'.scope = host.scope /\ host'.dead = host.dead /\ host'.open = host.open
       /\ host'.selected = host.selected /\ host'.mode = host.mode /\ host'.queue = q
       /\ host'.tagged = host.tagged /\ host'.completed = host.completed /\ host'.known = k
  BY <1>3, <1>11, <1>12 DEF Hosts
<1>14. /\ spent' \in [Connection!Measures -> Nat] /\ spent'[t] = total
       /\ \A u \in Connection!Measures : u # t => spent'[u] = spent[u]
  BY <1>2, <1>4 DEF ConnectionShape
<1>15. CallInv' /\ ConnectionShape'
  BY <1>2, <1>3, <1>13, <1>14, CallsStay DEF ConnectionShape
<1>16. HostInv'
  BY <1>2, <1>3, <1>10, <1>13 DEF HostInv
<1>17. ChoiceInv'
  BY <1>2, <1>13, ChoiceKept DEF ChoiceInv, Pinned
<1>18. Connection!Started' = Connection!Started
  BY <1>2 DEF Connection!Started
<1>19. \A u : /\ Cardinality(Queued(u)') = Cardinality(Queued(u)) + (IF u = t THEN 1 ELSE 0)
              /\ Connection!Waiting(u)' = Connection!Waiting(u) + (IF u = t /\ t \in host.tagged THEN 1 ELSE 0)
              /\ Cardinality(Queued(u)) \in Nat /\ Connection!Waiting(u) \in Nat
  <2>1. SUFFICES ASSUME NEW u
                 PROVE  /\ Cardinality(Queued(u)') = Cardinality(Queued(u)) + (IF u = t THEN 1 ELSE 0)
                        /\ Connection!Waiting(u)' = Connection!Waiting(u) + (IF u = t /\ t \in host.tagged THEN 1 ELSE 0)
                        /\ Cardinality(Queued(u)) \in Nat /\ Connection!Waiting(u) \in Nat
    OBVIOUS
  <2>2. host.queue \in Seq(Deltas) /\ host'.queue \in Seq(Deltas)
    BY <1>3, <1>13 DEF Hosts
  <2>3. (e \in OfThread(u) <=> u = t) /\ (e \in OwnOf(u) <=> u = t /\ t \in host.tagged)
    BY <1>6 DEF OfThread, OwnOf
  <2>4. /\ Cardinality(Queued(u)') = Count(q, OfThread(u)) /\ Connection!Waiting(u)' = Count(q, OwnOf(u))
        /\ Cardinality(Queued(u)) = Count(host.queue, OfThread(u))
        /\ Connection!Waiting(u) = Count(host.queue, OwnOf(u))
    BY <1>13, <2>2, Waits, WaitsNext
  <2>5. /\ Count(q, OfThread(u)) = Count(host.queue, OfThread(u)) + (IF u = t THEN 1 ELSE 0)
        /\ Count(q, OwnOf(u)) = Count(host.queue, OwnOf(u)) + (IF u = t /\ t \in host.tagged THEN 1 ELSE 0)
    BY <1>6, <1>7, <2>2, <2>3, AppendCount
  <2>6. Count(host.queue, OfThread(u)) \in Nat /\ Count(host.queue, OwnOf(u)) \in Nat
    BY <2>2, CountNatural
  <2>. QED  BY <2>4, <2>5, <2>6
<1>20. UsageInv'
  <2>1. (\E n \in 0..MaxMeasures : Connection!Started = 1..n)'
    BY <1>18 DEF UsageInv
  <2>2. (\A u \in Connection!Measures \ Connection!Started : spent[u] = 0)'
    <3>1. t \in Connection!Started
      BY <1>3, <1>5, ConnectionConstants DEF Connection!Started
    <3>. QED  BY <1>14, <1>18, <3>1 DEF UsageInv, Connection!Measures
  <2>3. (\A u \in DOMAIN host.known : purpose[u] = host.scope /\ host.known[u] = spent[u])'
    <3>1. \A u \in DOMAIN host.known : u \in Connection!Measures
      BY <1>8
    <3>. QED  BY <1>2, <1>5, <1>10, <1>13, <1>14, <3>1 DEF UsageInv
  <2>4. (\A n \in DOMAIN host.queue : purpose[host.queue[n].thread] = host.scope)'
    <3>1. SUFFICES ASSUME NEW n \in DOMAIN q PROVE purpose[q[n].thread] = host.scope
      BY <1>2, <1>13
    <3>2. host.queue \in Seq(Deltas)
      BY <1>3 DEF Hosts
    <3>3. (n \in DOMAIN host.queue /\ q[n] = host.queue[n]) \/ q[n] = e
      BY <1>6, <1>7, <3>2
    <3>. QED  BY <1>5, <1>6, <3>3 DEF UsageInv
  <2>5. (host.scope \in Scopes =>
           \A u \in Connection!Measures : Logged(host.scope, u) + Cardinality(Queued(u)) <= spent[u])'
    <3>1. SUFFICES ASSUME NEW u \in Connection!Measures
                   PROVE  Logged(host.scope, u) + Cardinality(Queued(u)') <= spent'[u]
      BY <1>2, <1>13 DEF Logged, Connection!Measures
    <3>2. Logged(host.scope, u) + Cardinality(Queued(u)) <= spent[u]
      BY <1>3 DEF UsageInv
    <3>3. Logged(host.scope, u) \in Nat /\ spent[u] \in Nat
      <4>1. log[host.scope].own[u] \in Nat /\ log[host.scope].free[u] \in Nat
        BY <1>3 DEF ConnectionShape, Logs
      <4>. QED  BY <4>1 DEF ConnectionShape, Logged
    <3>4. Cardinality(Queued(u)) \in Nat /\ Cardinality(Queued(u)') = Cardinality(Queued(u)) + (IF u = t THEN 1 ELSE 0)
      BY <1>19
    <3>5. spent'[u] = spent[u] + (IF u = t THEN 1 ELSE 0)
      BY <1>4, <1>14, <3>3
    <3>. QED  BY <3>2, <3>3, <3>4, <3>5
  <2>6. Connection!UsageIsOfItsProject'
    <3>1. SUFFICES ASSUME NEW p \in Scopes, NEW u \in Connection!Measures
                   PROVE  /\ log[p].own[u] + log[p].free[u] > 0 => purpose[u] = p
                          /\ log[p].own[u] + log[p].free[u] <= spent'[u]
      BY <1>2 DEF Connection!UsageIsOfItsProject, Connection!Measures
    <3>2. /\ log[p].own[u] + log[p].free[u] > 0 => purpose[u] = p
          /\ log[p].own[u] + log[p].free[u] <= spent[u]
      BY DEF UsageInv, Connection!UsageIsOfItsProject
    <3>3. spent[u] \in Nat /\ spent[u] <= spent'[u] /\ log[p].own[u] \in Nat /\ log[p].free[u] \in Nat
      <4>1. log[p].own[u] \in Nat /\ log[p].free[u] \in Nat
        BY DEF ConnectionShape, Logs
      <4>2. spent[u] \in Nat
        BY DEF ConnectionShape
      <4>3. spent[u] <= spent'[u]
        BY <1>4, <1>14, <4>2
      <4>. QED  BY <4>1, <4>2, <4>3
    <3>4. PICK n \in Nat, m \in Nat, l \in Nat : /\ n = log[p].own[u] + log[p].free[u] /\ m = spent[u] /\ l = spent'[u]
      BY <1>14, <3>3
    <3>. QED  BY <3>2, <3>3, <3>4
  <2>. QED  BY <2>1, <2>2, <2>3, <2>4, <2>5, <2>6 DEF UsageInv
<1>21. MeasureInv'
  <2>1. PICK n \in 0..MaxMeasures : Connection!Started = 1..n /\ Connection!Cardinality(Connection!Started) = n
    BY Begun
  <2>2. Connection!Cardinality(Connection!Started)' = n
    BY <1>18, <2>1, BegunNext
  <2>3. SUFFICES ASSUME NEW d \in Connection!Callers, call[d].step \in {"turn", "answer"}
                 PROVE  /\ n \in host'.tagged
                        /\ ~log[host.scope].torn =>
                             log[host.scope].own[n] + Connection!Waiting(n)' = host'.known[n]
    BY <1>2, <1>13, <2>2 DEF MeasureInv, Connection!Callers
  <2>4. /\ n \in host.tagged
        /\ ~log[host.scope].torn => log[host.scope].own[n] + Connection!Waiting(n) = host.known[n]
    BY <1>3, <2>1, <2>3 DEF MeasureInv
  <2>5. n \in DOMAIN host.known /\ log[host.scope].own[n] \in Nat /\ host.known[n] \in Nat
    BY <1>3, <1>8, <2>4 DEF HostInv, ConnectionShape, Logs, Hosts
  <2>6. host'.known[n] = host.known[n] + (IF n = t THEN 1 ELSE 0)
    BY <1>4, <1>5, <1>10, <1>13, <2>5
  <2>7. Connection!Waiting(n)' = Connection!Waiting(n) + (IF n = t THEN 1 ELSE 0) /\ Connection!Waiting(n) \in Nat
    BY <1>19, <2>4
  <2>. QED  BY <1>13, <2>4, <2>5, <2>6, <2>7
<1>. QED  BY <1>15, <1>16, <1>17, <1>20, <1>21

\* What is appended to a log counts for its thread.
LEMMA AppendedFields ==
    ASSUME NEW l \in Logs, NEW e \in Deltas, NEW m \in Logs, m = Connection!Appended(l, e)
    PROVE  /\ m.torn = l.torn
           /\ \A u \in Connection!Measures :
                 /\ m.own[u] = l.own[u] + (IF e.tagged /\ u = e.thread THEN 1 ELSE 0)
                 /\ m.own[u] + m.free[u] = l.own[u] + l.free[u] + (IF u = e.thread THEN 1 ELSE 0)
<1>1. e.thread \in Connection!Measures /\ e.amount = 1 /\ e.tagged \in BOOLEAN
  BY DEF Deltas
<1>2. /\ l.own \in [Connection!Measures -> Nat] /\ l.free \in [Connection!Measures -> Nat]
  BY DEF Logs
<1>3. CASE e.tagged
  <2>1. PICK own : own = [l.own EXCEPT ![e.thread] = l.own[e.thread] + 1]
    OBVIOUS
  <2>2. m = [l EXCEPT !.own = own]
    BY <1>1, <1>3, <2>1 DEF Connection!Appended, Logs
  <2>3. m.torn = l.torn /\ m.own = own /\ m.free = l.free
    BY <2>2 DEF Logs
  <2>4. \A u \in Connection!Measures : own[u] = l.own[u] + (IF u = e.thread THEN 1 ELSE 0)
    BY <1>1, <1>2, <2>1
  <2>5. \A u \in Connection!Measures : l.own[u] \in Nat /\ l.free[u] \in Nat
    BY <1>2
  <2>. QED  BY <1>3, <2>3, <2>4, <2>5
<1>4. CASE ~e.tagged
  <2>1. PICK free : free = [l.free EXCEPT ![e.thread] = l.free[e.thread] + 1]
    OBVIOUS
  <2>2. m = [l EXCEPT !.free = free]
    BY <1>1, <1>4, <2>1 DEF Connection!Appended, Logs
  <2>3. m.torn = l.torn /\ m.own = l.own /\ m.free = free
    BY <2>2 DEF Logs
  <2>4. \A u \in Connection!Measures : free[u] = l.free[u] + (IF u = e.thread THEN 1 ELSE 0)
    BY <1>1, <1>2, <2>1
  <2>5. \A u \in Connection!Measures : l.own[u] \in Nat /\ l.free[u] \in Nat
    BY <1>2
  <2>. QED  BY <1>4, <2>3, <2>4, <2>5
<1>. QED  BY <1>3, <1>4

LEMMA AppendedLog ==
    ASSUME NEW l \in Logs, NEW e \in Deltas
    PROVE  Connection!Appended(l, e) \in Logs
<1>1. e.thread \in Connection!Measures /\ e.amount = 1
  BY DEF Deltas
<1>2. /\ l.own \in [Connection!Measures -> Nat] /\ l.free \in [Connection!Measures -> Nat]
  BY DEF Logs
<1>3. PICK own \in [Connection!Measures -> Nat] : own = [l.own EXCEPT ![e.thread] = l.own[e.thread] + 1]
  <2>1. l.own[e.thread] + 1 \in Nat
    BY <1>1, <1>2
  <2>. QED  BY <1>2, <2>1
<1>4. PICK free \in [Connection!Measures -> Nat] : free = [l.free EXCEPT ![e.thread] = l.free[e.thread] + 1]
  <2>1. l.free[e.thread] + 1 \in Nat
    BY <1>1, <1>2
  <2>. QED  BY <1>2, <2>1
<1>5. [l EXCEPT !.own = own] \in Logs /\ [l EXCEPT !.free = free] \in Logs
  BY <1>3, <1>4 DEF Logs
<1>6. Connection!Appended(l, e) \in {[l EXCEPT !.own = own], [l EXCEPT !.free = free]}
  BY <1>1, <1>3, <1>4 DEF Connection!Appended, Logs
<1>. QED  BY <1>5, <1>6

LEMMA AppendKeeps ==
    ASSUME ConnectionInv, Connection!Append1
    PROVE  ConnectionInv'
<1>. USE DEF ConnectionInv
<1>1. PICK e : e = Head(host.queue)
  OBVIOUS
<1>2. PICK p : p = host.scope
  OBVIOUS
<1>3. /\ ~host.dead /\ host.queue # <<>>
      /\ log' = [log EXCEPT ![p] = IF log[p].torn THEN log[p] ELSE Connection!Appended(log[p], e)]
      /\ host' = [host EXCEPT !.queue = Tail(host.queue)]
      /\ active' = active /\ call' = call
      /\ UNCHANGED <<shims, intent, oldIntent, measured, chosen, overwritten, spent, purpose>>
  BY <1>1, <1>2 DEF Connection!Append1, Connection!KeepWorld, Connection!history
<1>4. host # Connection!NoHost /\ host \in Hosts /\ p \in Scopes /\ host.queue \in Seq(Deltas) /\ log[p] \in Logs
  BY <1>2, <1>3, NoHostFields DEF ConnectionShape, Hosts, HostInv
<1>5. e \in Deltas
  BY <1>1, <1>3, <1>4, TailCount
<1>6. PICK q \in Seq(Deltas) : q = Tail(host.queue)
  BY <1>3, <1>4, TailCount
<1>7. host' = [host EXCEPT !.queue = q]
  BY <1>3, <1>6
<1>8. /\ host' \in Hosts /\ host'.scope = host.scope /\ host'.dead = host.dead /\ host'.open = host.open
      /\ host'.selected = host.selected /\ host'.mode = host.mode /\ host'.queue = q
      /\ host'.tagged = host.tagged /\ host'.completed = host.completed /\ host'.known = host.known
  BY <1>4, <1>6, <1>7 DEF Hosts
<1>9. PICK m \in Logs : m = IF log[p].torn THEN log[p] ELSE Connection!Appended(log[p], e)
  BY <1>4, <1>5, AppendedLog
<1>10. /\ log' \in [Scopes -> Logs] /\ log'[p] = m /\ \A r \in Scopes : r # p => log'[r] = log[r]
  BY <1>3, <1>4, <1>9 DEF ConnectionShape
<1>11. CallInv' /\ ConnectionShape'
  BY <1>3, <1>4, <1>8, <1>10, CallsStay DEF ConnectionShape
<1>12. HostInv'
  BY <1>3, <1>8 DEF HostInv
<1>13. ChoiceInv'
  BY <1>3, <1>8, ChoiceKept DEF ChoiceInv, Pinned
<1>14. Connection!Started' = Connection!Started
  BY <1>3 DEF Connection!Started
<1>15. ASSUME NEW u
       PROVE  /\ Cardinality(Queued(u)) = Cardinality(Queued(u)') + (IF u = e.thread THEN 1 ELSE 0)
              /\ Connection!Waiting(u) = Connection!Waiting(u)' + (IF e.tagged /\ u = e.thread THEN 1 ELSE 0)
              /\ Cardinality(Queued(u)') \in Nat /\ Connection!Waiting(u)' \in Nat
  <2>1. /\ Cardinality(Queued(u)') = Count(q, OfThread(u)) /\ Connection!Waiting(u)' = Count(q, OwnOf(u))
        /\ Cardinality(Queued(u)) = Count(host.queue, OfThread(u))
        /\ Connection!Waiting(u) = Count(host.queue, OwnOf(u))
    BY <1>4, <1>6, <1>8, Waits, WaitsNext
  <2>2. (e \in OfThread(u) <=> u = e.thread) /\ (e \in OwnOf(u) <=> e.tagged /\ u = e.thread)
    BY <1>5 DEF OfThread, OwnOf
  <2>3. /\ Count(host.queue, OfThread(u)) = Count(q, OfThread(u)) + (IF u = e.thread THEN 1 ELSE 0)
        /\ Count(host.queue, OwnOf(u)) = Count(q, OwnOf(u)) + (IF e.tagged /\ u = e.thread THEN 1 ELSE 0)
    BY <1>1, <1>3, <1>4, <1>6, <2>2, TailCount
  <2>4. Count(q, OfThread(u)) \in Nat /\ Count(q, OwnOf(u)) \in Nat
    BY <1>6, CountNatural
  <2>. QED  BY <2>1, <2>3, <2>4
<1>16. \A r \in Scopes : \A u \in Connection!Measures :
          /\ log[r].own[u] \in Nat /\ log[r].free[u] \in Nat
          /\ log'[r].own[u] \in Nat /\ log'[r].free[u] \in Nat
  BY <1>10 DEF ConnectionShape, Logs
<1>17. \A u \in Connection!Measures :
          \/ log'[p] = log[p] /\ log[p].torn
          \/ /\ ~log[p].torn
             /\ log'[p].own[u] = log[p].own[u] + (IF e.tagged /\ u = e.thread THEN 1 ELSE 0)
             /\ log'[p].own[u] + log'[p].free[u] =
                   log[p].own[u] + log[p].free[u] + (IF u = e.thread THEN 1 ELSE 0)
  <2>1. CASE log[p].torn
    BY <1>9, <1>10, <2>1
  <2>2. CASE ~log[p].torn
    <3>1. m = Connection!Appended(log[p], e)
      BY <1>9, <2>2
    <3>. QED  BY <1>4, <1>5, <1>9, <1>10, <2>2, <3>1, AppendedFields
  <2>. QED  BY <2>1, <2>2
<1>18. \A u \in Connection!Measures :
          /\ Logged(p, u)' + Cardinality(Queued(u)') <= spent[u]
          /\ Logged(p, u)' \in Nat /\ Cardinality(Queued(u)') \in Nat
  <2>1. SUFFICES ASSUME NEW u \in Connection!Measures
                 PROVE  /\ Logged(p, u)' + Cardinality(Queued(u)') <= spent[u]
                        /\ Logged(p, u)' \in Nat /\ Cardinality(Queued(u)') \in Nat
    OBVIOUS
  <2>2. Logged(p, u) + Cardinality(Queued(u)) <= spent[u]
    BY <1>2, <1>4 DEF UsageInv
  <2>3. /\ Logged(p, u)' \in Nat /\ Logged(p, u) \in Nat
        /\ Logged(p, u)' <= Logged(p, u) + (IF u = e.thread THEN 1 ELSE 0)
    <3>1. \/ log'[p] = log[p]
          \/ log'[p].own[u] + log'[p].free[u] = log[p].own[u] + log[p].free[u] + (IF u = e.thread THEN 1 ELSE 0)
      BY <1>17
    <3>2. /\ log[p].own[u] \in Nat /\ log[p].free[u] \in Nat /\ log'[p].own[u] \in Nat /\ log'[p].free[u] \in Nat
      BY <1>4, <1>16
    <3>3. CASE u = e.thread
      <4>1. \/ log'[p] = log[p]
            \/ log'[p].own[u] + log'[p].free[u] = log[p].own[u] + log[p].free[u] + 1
        BY <3>1, <3>3
      <4>2. log'[p].own[u] + log'[p].free[u] <= log[p].own[u] + log[p].free[u] + 1
        BY <3>2, <4>1
      <4>3. Logged(p, u)' \in Nat /\ Logged(p, u) \in Nat /\ Logged(p, u)' <= Logged(p, u) + 1
        BY <3>2, <4>2 DEF Logged
      <4>4. (IF u = e.thread THEN 1 ELSE 0) = 1
        BY <3>3
      <4>. QED  BY <4>3, <4>4
    <3>4. CASE u # e.thread
      <4>1. \/ log'[p] = log[p]
            \/ log'[p].own[u] + log'[p].free[u] = log[p].own[u] + log[p].free[u] + 0
        BY <3>1, <3>4
      <4>2. log'[p].own[u] + log'[p].free[u] <= log[p].own[u] + log[p].free[u] + 0
        BY <3>2, <4>1
      <4>3. Logged(p, u)' \in Nat /\ Logged(p, u) \in Nat /\ Logged(p, u)' <= Logged(p, u) + 0
        BY <3>2, <4>2 DEF Logged
      <4>4. (IF u = e.thread THEN 1 ELSE 0) = 0
        BY <3>4
      <4>. QED  BY <4>3, <4>4
    <3>. QED  BY <3>3, <3>4
  <2>4. /\ Cardinality(Queued(u)) = Cardinality(Queued(u)') + (IF u = e.thread THEN 1 ELSE 0)
        /\ Cardinality(Queued(u)') \in Nat
    BY <1>15
  <2>5. spent[u] \in Nat
    BY DEF ConnectionShape
  <2>. QED  BY <2>2, <2>3, <2>4, <2>5
<1>19. UsageInv'
  <2>1. (\E n \in 0..MaxMeasures : Connection!Started = 1..n)'
    BY <1>14 DEF UsageInv
  <2>2. (\A u \in Connection!Measures \ Connection!Started : spent[u] = 0)'
    BY <1>3, <1>14 DEF UsageInv, Connection!Measures
  <2>3. (\A u \in DOMAIN host.known : purpose[u] = host.scope /\ host.known[u] = spent[u])'
    BY <1>3, <1>8 DEF UsageInv
  <2>4. (\A n \in DOMAIN host.queue : purpose[host.queue[n].thread] = host.scope)'
    <3>1. SUFFICES ASSUME NEW n \in DOMAIN q PROVE purpose[q[n].thread] = host.scope
      BY <1>3, <1>8
    <3>2. n + 1 \in DOMAIN host.queue /\ q[n] = host.queue[n + 1]
      BY <1>3, <1>4, <1>6
    <3>. QED  BY <3>2 DEF UsageInv
  <2>5. (host.scope \in Scopes =>
           \A u \in Connection!Measures : Logged(host.scope, u) + Cardinality(Queued(u)) <= spent[u])'
    BY <1>2, <1>3, <1>8, <1>18 DEF Connection!Measures, Logged
  <2>6. Connection!UsageIsOfItsProject'
    <3>1. SUFFICES ASSUME NEW r \in Scopes, NEW u \in Connection!Measures
                   PROVE  /\ log'[r].own[u] + log'[r].free[u] > 0 => purpose[u] = r
                          /\ log'[r].own[u] + log'[r].free[u] <= spent[u]
      BY <1>3 DEF Connection!UsageIsOfItsProject, Connection!Measures
    <3>2. /\ log[r].own[u] + log[r].free[u] > 0 => purpose[u] = r
          /\ log[r].own[u] + log[r].free[u] <= spent[u]
      BY DEF UsageInv, Connection!UsageIsOfItsProject
    <3>3. CASE r # p
      BY <1>10, <3>2, <3>3
    <3>4. CASE r = p
      <4>1. log'[r].own[u] + log'[r].free[u] <= spent[u]
        <5>1. Logged(p, u)' + Cardinality(Queued(u)') <= spent[u] /\ Logged(p, u)' \in Nat
              /\ Cardinality(Queued(u)') \in Nat /\ spent[u] \in Nat
          BY <1>18 DEF ConnectionShape
        <5>2. Logged(p, u)' <= spent[u]
          BY <5>1
        <5>. QED  BY <3>4, <5>2 DEF Logged
      <4>2. CASE u = e.thread
        <5>1. purpose[e.thread] = host.scope
          <6>1. 1 \in DOMAIN host.queue /\ e = host.queue[1]
            BY <1>1, <1>3, <1>4
          <6>. QED  BY <6>1 DEF UsageInv
        <5>. QED  BY <1>2, <3>4, <4>1, <4>2, <5>1
      <4>3. CASE u # e.thread
        <5>1. log'[p].own[u] + log'[p].free[u] = log[p].own[u] + log[p].free[u]
          <6>1. \/ log'[p] = log[p]
                \/ log'[p].own[u] + log'[p].free[u] = log[p].own[u] + log[p].free[u] + 0
            BY <1>17, <4>3
          <6>2. log[p].own[u] \in Nat /\ log[p].free[u] \in Nat
            BY <1>4, <1>16
          <6>. QED  BY <6>1, <6>2
        <5>. QED  BY <3>2, <3>4, <4>1, <5>1
      <4>. QED  BY <4>2, <4>3
    <3>. QED  BY <3>3, <3>4
  <2>. QED  BY <2>1, <2>2, <2>3, <2>4, <2>5, <2>6 DEF UsageInv
<1>20. MeasureInv'
  <2>1. PICK n \in 0..MaxMeasures : Connection!Started = 1..n /\ Connection!Cardinality(Connection!Started) = n
    BY Begun
  <2>2. Connection!Cardinality(Connection!Started)' = n
    BY <1>14, <2>1, BegunNext
  <2>3. SUFFICES ASSUME NEW d \in Connection!Callers, call[d].step \in {"turn", "answer"}
                 PROVE  /\ n \in host.tagged
                        /\ ~log'[p].torn => log'[p].own[n] + Connection!Waiting(n)' = host.known[n]
    BY <1>2, <1>3, <1>8, <2>2 DEF MeasureInv, Connection!Callers
  <2>4. /\ n \in host.tagged
        /\ ~log[p].torn => log[p].own[n] + Connection!Waiting(n) = host.known[n]
    BY <1>2, <1>3, <2>1, <2>3 DEF MeasureInv
  <2>5. n \in Connection!Measures
    BY <1>4, <2>4 DEF Hosts
  <2>6. ~log'[p].torn => ~log[p].torn
    BY <1>17, <2>5
  <2>7. ~log[p].torn => log'[p].own[n] = log[p].own[n] + (IF e.tagged /\ n = e.thread THEN 1 ELSE 0)
    BY <1>17, <2>5
  <2>8. /\ Connection!Waiting(n) = Connection!Waiting(n)' + (IF e.tagged /\ n = e.thread THEN 1 ELSE 0)
        /\ Connection!Waiting(n)' \in Nat /\ log[p].own[n] \in Nat /\ log'[p].own[n] \in Nat
    BY <1>4, <1>15, <1>16, <2>5
  <2>9. Connection!Waiting(n)' \in Nat /\ log[p].own[n] \in Nat /\ log'[p].own[n] \in Nat
    BY <2>8
  <2>10. ASSUME ~log'[p].torn
        PROVE  log'[p].own[n] + Connection!Waiting(n)' = host.known[n]
    <3>1. log[p].own[n] + Connection!Waiting(n) = host.known[n]
      BY <2>4, <2>6, <2>10
    <3>2. CASE e.tagged /\ n = e.thread
      <4>1. log'[p].own[n] = log[p].own[n] + 1 /\ Connection!Waiting(n) = Connection!Waiting(n)' + 1
        BY <2>6, <2>7, <2>8, <2>10, <3>2
      <4>2. log[p].own[n] + (Connection!Waiting(n)' + 1) = host.known[n]
        BY <3>1, <4>1
      <4>. QED  BY <2>9, <4>1, <4>2
    <3>3. CASE ~(e.tagged /\ n = e.thread)
      <4>1. log'[p].own[n] = log[p].own[n] + 0 /\ Connection!Waiting(n) = Connection!Waiting(n)' + 0
        BY <2>6, <2>7, <2>8, <2>10, <3>3
      <4>. QED  BY <2>9, <3>1, <4>1
    <3>. QED  BY <3>2, <3>3
  <2>. QED  BY <2>4, <2>10
<1>. QED  BY <1>11, <1>12, <1>13, <1>19, <1>20

----------------------------------------------------------------------------------
(* The theorems.                                                                 *)

LEMMA ConnectionBegins ==
    ASSUME Init
    PROVE  ConnectionInv
<1>1. Connection!ConnectionsInit
  BY DEF Init
<1>2. /\ active \in Scopes \cup {NoScope} /\ shims \in {{}, Connection!Commands}
      /\ intent \in [Scopes -> {Connection!NoIntent, Unpinned}]
      /\ oldIntent \in {Connection!NoIntent, Connection!Intent(TRUE, "manual", "custom")}
      /\ host = Connection!NoHost
      /\ call = [c \in Connection!Callers |->
                    IF c = "restore" THEN [Connection!Finished EXCEPT !.op = "migrate"] ELSE Connection!Finished]
      /\ log = [p \in Scopes |-> [own |-> [t \in Connection!Measures |-> 0],
                                  free |-> [t \in Connection!Measures |-> 0], torn |-> FALSE]]
      /\ measured = [p \in Scopes |-> "no"] /\ spent = [t \in Connection!Measures |-> 0]
      /\ purpose = [t \in Connection!Measures |-> NoScope]
      /\ chosen = [p \in Scopes |-> Connection!NoIntent] /\ overwritten = {}
  BY <1>1 DEF Connection!ConnectionsInit, Unpinned
<1>3. \A c \in Connection!Callers :
          call[c] \in Calls /\ call[c].step = "next" /\ call[c].op \in {"none", "migrate"}
  BY <1>2 DEF Connection!Finished, Calls, CallSteps, Connection!Intents
<1>4. call["main"].op = "none" /\ call["restore"].op = "migrate"
  BY <1>2, ConnectionConstants DEF Connection!Finished
<1>5. /\ Connection!NoIntent # Unpinned /\ Unpinned \in Connection!Intents
      /\ Connection!Intent(TRUE, "manual", "custom") \in Connection!Intents
      /\ Pinned(Connection!NoIntent) /\ Pinned(Connection!Intent(TRUE, "manual", "custom")) /\ Pinned(Unpinned)
  BY <1>2 DEF Connection!Intents, Connection!NoIntent, Unpinned, Connection!Intent, Pinned, Connection!Commands,
              Connection!NoCommand
<1>6. ConnectionShape
  <2>1. log \in [Scopes -> Logs]
    BY <1>2 DEF Logs
  <2>2. call \in [Connection!Callers -> Calls]
    BY <1>2, <1>3
  <2>3. host \in Hosts
    BY <1>2, NoHostFields
  <2>. QED  BY <1>2, <1>5, <2>1, <2>2, <2>3 DEF ConnectionShape
<1>7. CallInv
  <2>1. \A c \in Connection!Callers : CallFitsOp(call[c])
    BY <1>3 DEF CallFitsOp
  <2>2. ~Connection!Holds("main")
    BY <1>3, ConnectionConstants DEF Connection!Holds
  <2>. QED  BY <1>3, <1>4, <2>1, <2>2, ConnectionConstants DEF CallInv, Serving, Spawning
<1>8. HostInv
  BY <1>2, NoHostFields DEF HostInv, Connection!NoHost
<1>9. ChoiceInv
  BY <1>2, <1>3, <1>5, NoHostFields DEF ChoiceInv, Connection!ChoiceStands
<1>10. UsageInv
  <2>1. Connection!Started = 1..0
    BY <1>2 DEF Connection!Started
  <2>2. host.scope \notin Scopes
    BY <1>2, NoHostFields, ConnectionConstants
  <2>3. Connection!UsageIsOfItsProject
    BY <1>2 DEF Connection!UsageIsOfItsProject
  <2>. QED  BY <1>2, <2>1, <2>2, <2>3, NoHostFields, ConnectionConstants DEF UsageInv
<1>11. MeasureInv
  BY <1>3 DEF MeasureInv
<1>. QED  BY <1>6, <1>7, <1>8, <1>9, <1>10, <1>11 DEF ConnectionInv

LEMMA ConnectionStays ==
    ASSUME ConnectionInv, UNCHANGED connectionVars
    PROVE  ConnectionInv'
<1>. USE DEF ConnectionInv
<1>1. UNCHANGED <<shims, active, intent, oldIntent, host, call, log, measured, spent, purpose, chosen, overwritten>>
  BY DEF connectionVars
<1>2. ConnectionShape' /\ CallInv' /\ HostInv' /\ ChoiceInv'
  BY <1>1 DEF ConnectionShape, CallInv, Connection!Holds, HostInv, ChoiceInv, SaveFits, Suits, Pinned,
              Connection!ChoiceStands
<1>3. \A t : Queued(t)' = Queued(t) /\ Connection!Waiting(t)' = Connection!Waiting(t)
  BY <1>1 DEF Queued, Connection!Waiting
<1>4. Connection!Started' = Connection!Started
  BY <1>1 DEF Connection!Started
<1>5. UsageInv' /\ MeasureInv'
  BY <1>1, <1>3, <1>4 DEF UsageInv, MeasureInv, Logged, Connection!UsageIsOfItsProject
<1>. QED  BY <1>2, <1>5

LEMMA CallsKeep ==
    ASSUME ConnectionInv, NEW c \in Connection!Callers, Connection!Calls(c)
    PROVE  ConnectionInv'
<1>1. {"default", "custom"} = Connection!Commands
  BY DEF Connection!Commands
<1>2. CASE Connection!Connect(c, "default") \/ Connection!Connect(c, "custom")
  BY <1>1, <1>2, ConnectKeeps
<1>. QED  BY <1>2, ScopeKeeps, EnterKeeps, MigrateKeeps, ClaimKeeps, PlaceKeeps, PlaceFailsKeeps, InspectKeeps,
          SaveKeeps, SaveFailsKeeps, DisconnectKeeps, CloseKeeps, MeasureKeeps, RecordKeeps, DiagnoseKeeps, GoneKeeps
          DEF Connection!Calls

LEMMA ConnectionNextKeeps ==
    ASSUME ConnectionInv, Connection!ConnectionsNext
    PROVE  ConnectionInv'
  BY CommandKeeps, CallsKeep, DesiredKeeps, HangupKeeps, AppendKeeps, AppendFailsKeeps, DiesKeeps, NotifyKeeps,
     CompleteKeeps, CooledKeeps, SwitchKeeps DEF Connection!ConnectionsNext

\* The invariant holds in every state of the Desktop, whichever part of it is looked at.
THEOREM ConnectionInvariantHolds == Spec => []ConnectionInv
<1>1. Init => ConnectionInv
  BY ConnectionBegins
<1>2. ConnectionInv /\ [Next]_vars => ConnectionInv'
  <2>. SUFFICES ASSUME ConnectionInv, [Next]_vars PROVE ConnectionInv'
    OBVIOUS
  <2>1. CASE ConnectionStep
    BY <2>1, ConnectionNextKeeps DEF ConnectionStep
  <2>2. CASE UNCHANGED connectionVars
    BY <2>2, ConnectionStays
  <2>. QED  BY <2>1, <2>2
            DEF Next, ProjectsStep, UpdatesStep, ReviewStep, KnowledgeStep, SessionsStep, AgentStep, vars
<1>. QED  BY <1>1, <1>2, PTL DEF Spec

\* While no request is served, a session that is open is one that its project's stored
\* choice asks for, and that choice is the user's last, whichever thread brings the older
\* version's choice in and whatever fails (connect, disconnectByUser,
\* restoreDesiredConnection, project_codex_intent_path): for every set of projects.
THEOREM ChoiceHolds == Spec => []ChoiceIsKept
<1>1. ConnectionInv => ChoiceIsKept
  <2>. SUFFICES ASSUME ConnectionInv PROVE Connection!SessionIsDesired /\ Connection!ChoiceStands
    BY DEF ChoiceIsKept, Of
  <2>. USE DEF ConnectionInv
  <2>1. SUFFICES ASSUME Connection!Free, host.open, host.scope \notin overwritten
                 PROVE  Suits(intent[host.scope])
    BY DEF Connection!SessionIsDesired, Suits, ChoiceInv
  <2>2. ASSUME NEW c \in Connection!Callers, call[c].step \in {"save", "close"}
        PROVE  FALSE
    <3>1. Connection!Holds(c)
      BY <2>2, Served DEF Serving
    <3>. QED  BY <2>1, <2>2, <3>1 DEF Connection!Free
  <2>. QED  BY <2>1, <2>2 DEF ChoiceInv
<1>. QED  BY <1>1, ConnectionInvariantHolds, PTL

\* What Codex told of a measurement is in the log of its project, once, and in no other, or
\* on its way there, whatever is switched, lost or killed in between (codex-usage.ts,
\* store.ts): for every set of projects and any number of measurements.
THEOREM UsageHolds == Spec => []UsageIsAttributed
<1>1. ConnectionInv => UsageIsAttributed
  BY DEF ConnectionInv, UsageIsAttributed, Of, UsageInv, MeasureInv, Connection!MeasuredIsLogged
<1>. QED  BY <1>1, ConnectionInvariantHolds, PTL

(***************************************************************************)
(* The sessions.                                                           *)
(***************************************************************************)

LEMMA SessionsConstants ==
    /\ IsFiniteSet(Scopes) /\ NoScope \notin Scopes
    /\ "automatic" \notin Scopes /\ "unassigned" \notin Scopes /\ "missing" \notin Scopes
    /\ "background" \notin Refreshes /\ Observed \subseteq SUBSET Scopes /\ MaxDeeds \in Nat
<1>1. \A S : Sessions!IsFiniteSet(S) <=> IsFiniteSet(S)
  BY Zenon DEF Sessions!IsFiniteSet, IsFiniteSet
<1>. QED  BY <1>1, ProviderSessionsAssumption DEF Sessions!SessionsAssumption

--------------------------------------------------------------------------------------
(* Binding a session.                                                           *)

\* One project is what there is of a set of projects with one element.
LEMMA One ==
    ASSUME NEW ps \in SUBSET Scopes
    PROVE  /\ (Sessions!Cardinality(ps) = 1) <=> (\E p \in Scopes : ps = {p})
           /\ \A p : Sessions!The({p}) = p
           /\ Sessions!Cardinality(ps) = 1 => Sessions!The(ps) \in ps
           /\ Sessions!Alone(ps) \in Scopes \cup {NoScope}
           /\ ps = {} => Sessions!Alone(ps) = NoScope
<1>1. \A S : Sessions!Cardinality(S) = Cardinality(S)
  BY Zenon DEF Sessions!Cardinality, Cardinality
<1>2. IsFiniteSet(ps)
  BY SessionsConstants, FS_Subset
<1>3. (Cardinality(ps) = 1) <=> (\E x : ps = {x})
  BY <1>2, FS_Singleton
<1>4. \A p : Sessions!The({p}) = p
  BY DEF Sessions!The
<1>5. (Sessions!Cardinality(ps) = 1) <=> (\E p \in Scopes : ps = {p})
  BY <1>1, <1>3
<1>6. Sessions!Cardinality(ps) = 1 => Sessions!The(ps) \in ps
  BY <1>4, <1>5
<1>7. Sessions!Alone(ps) \in Scopes \cup {NoScope} /\ (ps = {} => Sessions!Alone(ps) = NoScope)
  BY <1>5, <1>6 DEF Sessions!Alone
<1>. QED  BY <1>4, <1>5, <1>6, <1>7

\* Evidence that touches a project decides alone.
LEMMA OverrideBinds ==
    ASSUME NEW b \in Sessions!Bindings, NEW ps \in SUBSET Scopes,
           NEW why \in Sessions!Attributions, NEW conflict \in Sessions!Attributions
    PROVE  /\ Sessions!Override(b, ps, why, conflict) \in Sessions!Bindings
           /\ Sessions!Override(b, ps, why, conflict).project =
                IF ps = {} THEN b.project ELSE Sessions!Alone(ps)
           /\ Sessions!Override(b, ps, why, conflict).why \in {b.why, why, conflict}
<1>1. CASE ps = {}
  BY <1>1, One DEF Sessions!Override
<1>2. CASE ps # {} /\ Sessions!Cardinality(ps) = 1
  <2>1. Sessions!Override(b, ps, why, conflict) = Sessions!Binding(Sessions!The(ps), why)
    BY <1>2 DEF Sessions!Override
  <2>. QED  BY <1>2, <2>1, One DEF Sessions!Binding, Sessions!Bindings, Sessions!Alone
<1>3. CASE ps # {} /\ Sessions!Cardinality(ps) # 1
  <2>1. Sessions!Override(b, ps, why, conflict) = Sessions!Binding(NoScope, conflict)
    BY <1>3 DEF Sessions!Override
  <2>. QED  BY <1>3, <2>1 DEF Sessions!Binding, Sessions!Bindings, Sessions!Alone
<1>. QED  BY <1>1, <1>2, <1>3

\* What Codex knows, and what was asked for, overrides what was found before.
LEMMA StepBinds ==
    ASSUME NEW b \in Sessions!Bindings, ~Sessions!ByContext(b),
           NEW roots \in SUBSET Scopes, NEW of \in SUBSET Scopes
    PROVE  /\ Sessions!ProviderProjectBinding(b, roots, of) \in Sessions!Bindings
           /\ Sessions!ProviderProjectBinding(b, roots, of).project =
                IF roots \cap of = {} THEN b.project ELSE Sessions!Alone(roots \cap of)
           /\ Sessions!ProviderProjectBinding(b, roots, of).why \in
                {b.why, "provider-project", "provider-project-conflict"}
           /\ Sessions!WorkspaceBinding(b, roots, of) \in Sessions!Bindings
           /\ Sessions!WorkspaceBinding(b, roots, of).project =
                IF roots \cap of = {} THEN b.project ELSE Sessions!Alone(roots \cap of)
           /\ Sessions!WorkspaceBinding(b, roots, of).why \in
                {b.why, "provider-workspace", "provider-workspace-conflict"}
<1>0. PICK ps \in SUBSET Scopes : ps = roots \cap of
  OBVIOUS
<1>1. /\ "provider-project" \in Sessions!Attributions /\ "provider-project-conflict" \in Sessions!Attributions
      /\ "provider-workspace" \in Sessions!Attributions /\ "provider-workspace-conflict" \in Sessions!Attributions
  BY DEF Sessions!Attributions
<1>2. /\ Sessions!ProviderProjectBinding(b, roots, of) =
            Sessions!Override(b, ps, "provider-project", "provider-project-conflict")
      /\ Sessions!WorkspaceBinding(b, roots, of) =
            Sessions!Override(b, ps, "provider-workspace", "provider-workspace-conflict")
  BY <1>0 DEF Sessions!ProviderProjectBinding, Sessions!WorkspaceBinding
<1>3. /\ Sessions!Override(b, ps, "provider-project", "provider-project-conflict") \in Sessions!Bindings
      /\ Sessions!Override(b, ps, "provider-project", "provider-project-conflict").project =
            IF ps = {} THEN b.project ELSE Sessions!Alone(ps)
      /\ Sessions!Override(b, ps, "provider-project", "provider-project-conflict").why \in
            {b.why, "provider-project", "provider-project-conflict"}
  BY <1>1, OverrideBinds
<1>4. /\ Sessions!Override(b, ps, "provider-workspace", "provider-workspace-conflict") \in Sessions!Bindings
      /\ Sessions!Override(b, ps, "provider-workspace", "provider-workspace-conflict").project =
            IF ps = {} THEN b.project ELSE Sessions!Alone(ps)
      /\ Sessions!Override(b, ps, "provider-workspace", "provider-workspace-conflict").why \in
            {b.why, "provider-workspace", "provider-workspace-conflict"}
  BY <1>1, OverrideBinds
<1>. QED  BY <1>0, <1>2, <1>3, <1>4

LEMMA ToldBinds ==
    ASSUME NEW b \in Sessions!Bindings, NEW seen \in SUBSET Sessions!Places, NEW of \in SUBSET Scopes
    PROVE  /\ Sessions!ContextBinding(b, seen, of) \in Sessions!Bindings
           /\ Sessions!ContextBinding(b, seen, of).project =
                IF (UNION seen) \cap of = {} THEN b.project ELSE Sessions!Alone((UNION seen) \cap of)
           /\ Sessions!ContextBinding(b, seen, of).why \in
                {b.why, "provider-context", "provider-context-conflict"}
<1>0. PICK ps \in SUBSET Scopes : ps = (UNION seen) \cap of
  OBVIOUS
<1>1. "provider-context" \in Sessions!Attributions /\ "provider-context-conflict" \in Sessions!Attributions
  BY DEF Sessions!Attributions
<1>2. Sessions!ContextBinding(b, seen, of) =
        Sessions!Override(b, ps, "provider-context", "provider-context-conflict")
  BY <1>0 DEF Sessions!ContextBinding
<1>3. /\ Sessions!Override(b, ps, "provider-context", "provider-context-conflict") \in Sessions!Bindings
      /\ Sessions!Override(b, ps, "provider-context", "provider-context-conflict").project =
            IF ps = {} THEN b.project ELSE Sessions!Alone(ps)
      /\ Sessions!Override(b, ps, "provider-context", "provider-context-conflict").why \in
            {b.why, "provider-context", "provider-context-conflict"}
  BY <1>1, OverrideBinds
<1>. QED  BY <1>0, <1>2, <1>3

\* The user's word is the last one.
LEMMA ManualBinds ==
    ASSUME NEW b \in Sessions!Bindings, NEW v \in Sessions!Verdicts, NEW of \in SUBSET Scopes
    PROVE  /\ Sessions!ManualBinding(b, v, of) \in Sessions!Bindings
           /\ Sessions!ManualBinding(b, v, of).project = Sessions!Decided(v, of, b.project)
           /\ v = "automatic" => Sessions!ManualBinding(b, v, of) = b
           /\ v = "unassigned" => Sessions!ManualBinding(b, v, of).project = NoScope
           /\ v \in Scopes => Sessions!ManualBinding(b, v, of).project \in {v, NoScope}
<1>. USE SessionsConstants
<1>1. CASE v = "automatic"
  <2>1. Sessions!ManualBinding(b, v, of) = b /\ Sessions!Decided(v, of, b.project) = b.project
    BY <1>1 DEF Sessions!ManualBinding, Sessions!Decided
  <2>. QED  BY <1>1, <2>1
<1>2. CASE v = "unassigned"
  <2>1. /\ Sessions!ManualBinding(b, v, of) = Sessions!Binding(NoScope, "user-unassigned")
        /\ Sessions!Decided(v, of, b.project) = NoScope
    BY <1>2 DEF Sessions!ManualBinding, Sessions!Decided
  <2>. QED  BY <1>2, <2>1 DEF Sessions!Binding, Sessions!Bindings, Sessions!Attributions
<1>3. CASE v \in of
  <2>1. /\ Sessions!ManualBinding(b, v, of) = Sessions!Binding(v, "manual")
        /\ Sessions!Decided(v, of, b.project) = v
    BY <1>3 DEF Sessions!ManualBinding, Sessions!Decided
  <2>. QED  BY <1>3, <2>1 DEF Sessions!Binding, Sessions!Bindings, Sessions!Attributions
<1>4. CASE v \in Scopes \ of
  <2>1. /\ Sessions!ManualBinding(b, v, of) = Sessions!Binding(NoScope, "manual-project-unavailable")
        /\ Sessions!Decided(v, of, b.project) = NoScope
    BY <1>4 DEF Sessions!ManualBinding, Sessions!Decided
  <2>. QED  BY <1>4, <2>1 DEF Sessions!Binding, Sessions!Bindings, Sessions!Attributions
<1>. QED  BY <1>1, <1>2, <1>3, <1>4 DEF Sessions!Verdicts

Automatic == Sessions!Attributions \ {"manual", "user-unassigned", "unlisted"}

\* What evidence alone says of a session of Codex.
ByEvidence(c, seen, of) ==
    Sessions!ContextBinding(
        Sessions!WorkspaceBinding(
            Sessions!ProviderProjectBinding(Sessions!CwdBinding(c.cwd, of), c.provider, of),
            c.workspace, of),
        seen, of)

LEMMA EvidenceBinds ==
    ASSUME NEW c \in Sessions!Catalogs, NEW seen \in SUBSET Sessions!Places, NEW of \in SUBSET Scopes
    PROVE  /\ ByEvidence(c, seen, of) \in Sessions!Bindings
           /\ ByEvidence(c, seen, of).project = Sessions!Alone(Sessions!Evidence(c, seen, of))
           /\ ByEvidence(c, seen, of).why \in Automatic
<1> DEFINE near == Sessions!Deepest(c.cwd \cap of)
           b1 == Sessions!CwdBinding(c.cwd, of)
           b2 == Sessions!ProviderProjectBinding(b1, c.provider, of)
           b3 == Sessions!WorkspaceBinding(b2, c.workspace, of)
           b4 == Sessions!ContextBinding(b3, seen, of)
           s1 == (UNION seen) \cap of
           s2 == c.workspace \cap of
           s3 == c.provider \cap of
<1>0. /\ near \in SUBSET Scopes /\ s1 \in SUBSET Scopes /\ s2 \in SUBSET Scopes /\ s3 \in SUBSET Scopes
  BY DEF Sessions!Catalogs, Sessions!Places, Sessions!Deepest
<1>1. /\ b1 \in Sessions!Bindings /\ b1.project = Sessions!Alone(near) /\ b1.why \in {"cwd", "unattributed"}
  <2>1. CASE Sessions!Cardinality(near) = 1
    <3>1. b1 = Sessions!Binding(Sessions!The(near), "cwd")
      BY <2>1 DEF Sessions!CwdBinding
    <3>2. Sessions!The(near) \in Scopes /\ Sessions!Alone(near) = Sessions!The(near)
      BY <1>0, <2>1, One DEF Sessions!Alone
    <3>. QED  BY <3>1, <3>2 DEF Sessions!Binding, Sessions!Bindings, Sessions!Attributions
  <2>2. CASE Sessions!Cardinality(near) # 1
    <3>1. b1 = Sessions!Binding(NoScope, "unattributed") /\ Sessions!Alone(near) = NoScope
      BY <2>2 DEF Sessions!CwdBinding, Sessions!Alone
    <3>. QED  BY <3>1 DEF Sessions!Binding, Sessions!Bindings, Sessions!Attributions
  <2>. QED  BY <2>1, <2>2
<1>2. /\ b2 \in Sessions!Bindings /\ b2.project = IF s3 = {} THEN b1.project ELSE Sessions!Alone(s3)
      /\ b2.why \in {b1.why, "provider-project", "provider-project-conflict"}
  <2>1. b1 \in Sessions!Bindings /\ ~Sessions!ByContext(b1) /\ c.provider \in SUBSET Scopes
    BY <1>1 DEF Sessions!ByContext, Sessions!Catalogs, Sessions!Places
  <2> HIDE DEF b1
  <2>. QED  BY <2>1, StepBinds
<1>3. /\ b3 \in Sessions!Bindings /\ b3.project = IF s2 = {} THEN b2.project ELSE Sessions!Alone(s2)
      /\ b3.why \in {b2.why, "provider-workspace", "provider-workspace-conflict"}
  <2>1. b2 \in Sessions!Bindings /\ ~Sessions!ByContext(b2) /\ c.workspace \in SUBSET Scopes
    BY <1>1, <1>2 DEF Sessions!ByContext, Sessions!Catalogs, Sessions!Places
  <2> HIDE DEF b2
  <2>. QED  BY <2>1, StepBinds
<1>4. /\ b4 \in Sessions!Bindings /\ b4.project = IF s1 = {} THEN b3.project ELSE Sessions!Alone(s1)
      /\ b4.why \in {b3.why, "provider-context", "provider-context-conflict"}
  <2>1. b3 \in Sessions!Bindings
    BY <1>3
  <2> HIDE DEF b3
  <2>. QED  BY <2>1, ToldBinds
<1>5. Sessions!Evidence(c, seen, of) = IF s1 # {} THEN s1 ELSE IF s2 # {} THEN s2 ELSE IF s3 # {} THEN s3 ELSE near
  <2> DEFINE told == <<s1, s2, s3>>
             strong == {i \in 1..3 : told[i] # {}}
             first == CHOOSE i \in strong : \A j \in strong : i <= j
  <2>1. Sessions!Evidence(c, seen, of) = IF strong = {} THEN near ELSE told[first]
    BY DEF Sessions!Evidence
  <2>2. told[1] = s1 /\ told[2] = s2 /\ told[3] = s3
    OBVIOUS
  <2> HIDE DEF told, s1, s2, s3, near
  <2>3. (1 \in strong <=> s1 # {}) /\ (2 \in strong <=> s2 # {}) /\ (3 \in strong <=> s3 # {}) /\ strong \subseteq 1..3
    BY <2>2
  <2>4. ASSUME NEW i \in 1..3, i \in strong, \A j \in 1..3 : j < i => j \notin strong
        PROVE  first = i
    <3>1. \A j \in strong : i <= j
      BY <2>3, <2>4
    <3>2. \A k \in strong : (\A j \in strong : k <= j) => k = i
      BY <2>3, <2>4, <3>1
    <3> HIDE DEF strong
    <3>. QED  BY <2>4, <3>1, <3>2
  <2> HIDE DEF strong, first
  <2>5. CASE s1 # {}
    BY <2>1, <2>2, <2>3, <2>4, <2>5
  <2>6. CASE s1 = {} /\ s2 # {}
    <3>1. first = 2
      BY <2>3, <2>4, <2>6
    <3>. QED  BY <2>1, <2>2, <2>3, <2>6, <3>1
  <2>7. CASE s1 = {} /\ s2 = {} /\ s3 # {}
    <3>1. first = 3
      BY <2>3, <2>4, <2>7
    <3>. QED  BY <2>1, <2>2, <2>3, <2>7, <3>1
  <2>8. CASE s1 = {} /\ s2 = {} /\ s3 = {}
    <3>1. strong = {}
      <4>1. \A i \in 1..3 : i = 1 \/ i = 2 \/ i = 3
        OBVIOUS
      <4>. QED  BY <2>3, <2>8, <4>1
    <3>. QED  BY <2>1, <2>8, <3>1
  <2>. QED  BY <2>5, <2>6, <2>7, <2>8
<1>6. ByEvidence(c, seen, of) = b4
  BY DEF ByEvidence
<1> HIDE DEF b1, b2, b3, b4, s1, s2, s3, near
<1>7. b4.why \in Automatic
  BY <1>1, <1>2, <1>3, <1>4 DEF Automatic, Sessions!Attributions
<1>. QED  BY <1>1, <1>2, <1>3, <1>4, <1>5, <1>6, <1>7

LEMMA CodexBinds ==
    ASSUME NEW c \in Sessions!Catalogs, NEW seen \in SUBSET Sessions!Places,
           NEW v \in Sessions!Verdicts, NEW of \in SUBSET Scopes
    PROVE  Sessions!CodexBinding(c, seen, v, of) = Sessions!ManualBinding(ByEvidence(c, seen, of), v, of)
BY DEF Sessions!CodexBinding, ByEvidence

\* The places that were seen agree when all of them are nearest to one and the same checkout.
LEMMA HooksBind ==
    ASSUME NEW seen \in SUBSET Sessions!Places, NEW of \in SUBSET Scopes, seen # {}
    PROVE  /\ Sessions!HookEvents(seen, of) \in Sessions!Bindings
           /\ Sessions!HookEvents(seen, of).project =
                Sessions!Alone({p \in of : \A place \in seen : Sessions!Deepest(place \cap of) = {p}})
           /\ Sessions!HookEvents(seen, of).why \in Automatic
<1> DEFINE nearest == {Sessions!Deepest(place \cap of) : place \in seen}
           matched == UNION {ps \in nearest : Sessions!Cardinality(ps) = 1}
           agreed == {p \in of : \A place \in seen : Sessions!Deepest(place \cap of) = {p}}
           apart == Sessions!Binding(NoScope, IF Sessions!Cardinality(matched) > 1 THEN "mixed-projects" ELSE "unattributed")
<1>1. /\ \A ps \in nearest : ps \in SUBSET Scopes /\ ps \subseteq of
      /\ matched \in SUBSET Scopes /\ agreed \in SUBSET Scopes
  BY DEF Sessions!Deepest
<1>2. Sessions!HookEvents(seen, of) =
        IF Sessions!Cardinality(matched) = 1 /\ \A ps \in nearest : Sessions!Cardinality(ps) = 1
        THEN Sessions!Binding(Sessions!The(matched), "cwd") ELSE apart
  BY DEF Sessions!HookEvents
<1>3. /\ \A p : (p \in agreed) <=> (p \in of /\ \A ps \in nearest : ps = {p})
      /\ \E ps \in nearest : TRUE
      /\ \A p : (p \in matched) <=> (\E ps \in nearest : Sessions!Cardinality(ps) = 1 /\ p \in ps)
  OBVIOUS
<1>4. apart \in Sessions!Bindings /\ apart.project = NoScope /\ apart.why \in Automatic
  BY DEF Sessions!Binding, Sessions!Bindings, Sessions!Attributions, Automatic
<1> HIDE DEF nearest, matched, agreed, apart
<1>5. CASE Sessions!Cardinality(matched) = 1 /\ \A ps \in nearest : Sessions!Cardinality(ps) = 1
  <2>1. PICK q \in Scopes : matched = {q}
    BY <1>1, <1>5, One
  <2>2. \A ps \in nearest : ps = {q}
    <3>. SUFFICES ASSUME NEW ps \in nearest PROVE ps = {q}
      OBVIOUS
    <3>1. PICK p \in Scopes : ps = {p}
      BY <1>1, <1>5, One
    <3>2. p \in matched
      BY <1>3, <1>5, <3>1
    <3>. QED  BY <2>1, <3>1, <3>2
  <2>3. agreed = {q}
    <3>1. q \in of
      BY <1>1, <1>3, <2>2
    <3>2. q \in agreed
      BY <1>3, <2>2, <3>1
    <3>3. \A p \in agreed : p = q
      BY <1>3, <2>2
    <3>. QED  BY <3>2, <3>3
  <2>4. Sessions!Alone(agreed) = q /\ Sessions!The(matched) = q
    <3>1. Sessions!Cardinality({q}) = 1 /\ Sessions!The({q}) = q
      BY <2>1, One
    <3>. QED  BY <2>1, <2>3, <3>1 DEF Sessions!Alone
  <2>5. Sessions!HookEvents(seen, of) = Sessions!Binding(q, "cwd")
    BY <1>2, <1>5, <2>4
  <2>6. Sessions!Binding(q, "cwd") \in Sessions!Bindings /\ Sessions!Binding(q, "cwd").project = q
        /\ Sessions!Binding(q, "cwd").why \in Automatic
    BY DEF Sessions!Binding, Sessions!Bindings, Sessions!Attributions, Automatic
  <2>. QED  BY <2>4, <2>5, <2>6 DEF agreed
<1>6. CASE ~(Sessions!Cardinality(matched) = 1 /\ \A ps \in nearest : Sessions!Cardinality(ps) = 1)
  <2>1. agreed = {}
    <3>. SUFFICES ASSUME NEW p \in agreed PROVE FALSE
      OBVIOUS
    <3>1. p \in Scopes /\ \A ps \in nearest : ps = {p}
      BY <1>1, <1>3
    <3>2. Sessions!Cardinality({p}) = 1
      BY <3>1, One
    <3>3. \A ps \in nearest : Sessions!Cardinality(ps) = 1
      BY <3>1, <3>2
    <3>4. matched = {p}
      <4>1. p \in matched
        BY <1>3, <3>1, <3>3
      <4>2. \A r \in matched : r = p
        BY <1>3, <3>1
      <4>. QED  BY <4>1, <4>2
    <3>. QED  BY <1>6, <3>2, <3>3, <3>4
  <2>2. Sessions!Alone(agreed) = NoScope
    BY <1>1, <2>1, One
  <2>. QED  BY <1>2, <1>4, <1>6, <2>2 DEF agreed
<1>. QED  BY <1>5, <1>6

\* A session is bound as its evidence, and before all the user, decides: whatever it is.
LEMMA AllBindingsAgree == Sessions!BindingsAgree
<1>. SUFFICES ASSUME NEW of \in SUBSET Scopes, NEW seen \in SUBSET Sessions!Places,
                     NEW verdict \in Sessions!Verdicts
     PROVE  /\ \A c \in Sessions!Catalogs :
                Sessions!CodexBinding(c, seen, verdict, of).project =
                    Sessions!Decided(verdict, of, Sessions!Alone(Sessions!Evidence(c, seen, of)))
            /\ seen # {} =>
                Sessions!HookBinding(seen, verdict, of).project =
                    Sessions!Decided(verdict, of,
                        Sessions!Alone({p \in of : \A place \in seen : Sessions!Deepest(place \cap of) = {p}}))
  BY DEF Sessions!BindingsAgree
<1>1. ASSUME NEW c \in Sessions!Catalogs
      PROVE  Sessions!CodexBinding(c, seen, verdict, of).project =
                 Sessions!Decided(verdict, of, Sessions!Alone(Sessions!Evidence(c, seen, of)))
  <2>1. PICK e \in Sessions!Bindings :
          e = ByEvidence(c, seen, of) /\ e.project = Sessions!Alone(Sessions!Evidence(c, seen, of))
    BY EvidenceBinds
  <2>2. Sessions!ManualBinding(e, verdict, of).project = Sessions!Decided(verdict, of, e.project)
    BY ManualBinds
  <2>. QED  BY <2>1, <2>2, CodexBinds
<1>2. ASSUME seen # {}
      PROVE  Sessions!HookBinding(seen, verdict, of).project =
                 Sessions!Decided(verdict, of,
                     Sessions!Alone({p \in of : \A place \in seen : Sessions!Deepest(place \cap of) = {p}}))
  <2>1. PICK e \in Sessions!Bindings :
          /\ e = Sessions!HookEvents(seen, of)
          /\ e.project = Sessions!Alone({p \in of : \A place \in seen : Sessions!Deepest(place \cap of) = {p}})
    BY <1>2, HooksBind
  <2>2. Sessions!ManualBinding(e, verdict, of).project = Sessions!Decided(verdict, of, e.project)
    BY ManualBinds
  <2>. QED  BY <2>1, <2>2 DEF Sessions!HookBinding
<1>. QED  BY <1>1, <1>2

--------------------------------------------------------------------------------------
(* What is answered.                                                            *)

\* What is sought honours the decisions that are read.
LEMMA SoughtFits ==
    ASSUME SessionsShape
    PROVE  /\ Sessions!Sought \in Sessions!Bindings
           /\ Sessions!Sought # Sessions!Unlisted =>
                /\ Sessions!ReadDecisions = "automatic" => Sessions!Sought.why \notin {"manual", "user-unassigned"}
                /\ Sessions!ReadDecisions = "unassigned" => Sessions!Sought.project = NoScope
                /\ Sessions!ReadDecisions \in Scopes => Sessions!Sought.project \in {Sessions!ReadDecisions, NoScope}
<1> DEFINE v == Sessions!ReadDecisions
<1>1. /\ catalog \in Sessions!Catalogs /\ spool.seen \in SUBSET Sessions!Places /\ registered \in SUBSET Scopes
      /\ v \in Sessions!Verdicts
  BY SessionsConstants DEF SessionsShape, Sessions!SessionsTypeOK, Sessions!Observations, Sessions!ReadDecisions,
     Sessions!Verdicts
<1>2. Sessions!Unlisted \in Sessions!Bindings
  BY DEF Sessions!Unlisted, Sessions!Binding, Sessions!Bindings, Sessions!Attributions
<1>3. ASSUME NEW e \in Sessions!Bindings, e.why \in Automatic
      PROVE  LET b == Sessions!ManualBinding(e, v, registered)
             IN /\ b \in Sessions!Bindings
                /\ v = "automatic" => b.why \notin {"manual", "user-unassigned"}
                /\ v = "unassigned" => b.project = NoScope
                /\ v \in Scopes => b.project \in {v, NoScope}
  <2> HIDE DEF v
  <2>. QED  BY <1>1, <1>3, ManualBinds DEF Automatic
<1>4. CASE Sessions!Sought = Sessions!Unlisted
  BY <1>2, <1>4
<1>5. CASE Sessions!Sought # Sessions!Unlisted
  <2>1. \E e \in Sessions!Bindings : e.why \in Automatic /\ Sessions!Sought = Sessions!ManualBinding(e, v, registered)
    <3>1. CASE kind = "codex"
      <4>1. Sessions!Sought = Sessions!CodexBinding(catalog, spool.seen, v, registered)
        BY <1>5, <3>1 DEF Sessions!Sought, Sessions!CodexAnswer
      <4> HIDE DEF v
      <4>. QED  BY <1>1, <4>1, CodexBinds, EvidenceBinds
    <3>2. CASE kind # "codex"
      <4>1. Sessions!Sought = Sessions!ManualBinding(Sessions!HookEvents(spool.seen, registered), v, registered)
            /\ spool.seen # {}
        BY <1>5, <3>2 DEF Sessions!Sought, Sessions!HookAnswer, Sessions!HookBinding
      <4> HIDE DEF v
      <4>. QED  BY <1>1, <4>1, HooksBind
    <3>. QED  BY <3>1, <3>2
  <2>. QED  BY <1>3, <2>1
<1>. QED  BY <1>4, <1>5

\* An answer made of the decisions in force honours them.
LEMMA FreshHonours ==
    ASSUME SessionsInv, NEW fresh \in BOOLEAN, fresh => order.step # "removed" /\ ~forgotten
    PROVE  /\ Sessions!Ready(Sessions!Sought, fresh) \in Sessions!Answers
           /\ Stands(Sessions!Ready(Sessions!Sought, fresh))
           /\ Sessions!Sought # Sessions!Unlisted => Tells(Sessions!Ready(Sessions!Sought, fresh))
<1> DEFINE a == Sessions!Ready(Sessions!Sought, fresh)
<1>1. Sessions!Sought \in Sessions!Bindings
  BY SoughtFits DEF SessionsInv
<1>2. a \in Sessions!Answers /\ a.state = "ready" /\ a.binding = Sessions!Sought /\ a.fresh = fresh
  BY <1>1 DEF Sessions!Ready, Sessions!Answers
<1> HIDE DEF a
<1>3. Sessions!Honours(a)
  <2>. SUFFICES ASSUME a.fresh, a.binding # Sessions!Unlisted, ~strayed
       PROVE  CASE decided = "automatic" -> a.binding.why \notin {"manual", "user-unassigned"}
                [] decided = "unassigned" -> a.binding.project = NoScope
                [] OTHER -> a.binding.project \in {decided, NoScope}
    BY DEF Sessions!Honours
  <2>1. Sessions!ReadDecisions = decided
    BY <1>2 DEF SessionsInv, Sessions!DecisionsStand
  <2>2. decided \in Sessions!Verdicts
    BY DEF SessionsInv, SessionsShape, Sessions!SessionsTypeOK
  <2>3. /\ decided = "automatic" => a.binding.why \notin {"manual", "user-unassigned"}
        /\ decided = "unassigned" => a.binding.project = NoScope
        /\ decided \in Scopes => a.binding.project \in {decided, NoScope}
    BY <1>2, <2>1, SoughtFits DEF SessionsInv
  <2>. QED  BY <2>2, <2>3 DEF Sessions!Verdicts
<1>4. Sessions!Sought # Sessions!Unlisted => Tells(a)
  BY <1>2 DEF Tells
<1>. QED  BY <1>2, <1>3, <1>4 DEF a, Stands

--------------------------------------------------------------------------------------
(* The steps of reconciliations.                                                *)

LEMMA Blank ==
    /\ Sessions!NoAnswer \in Sessions!Answers /\ ~Sessions!NoAnswer.fresh
    /\ Sessions!Unavailable \in Sessions!Answers /\ ~Sessions!Unavailable.fresh
    /\ Sessions!Resting \in Runs /\ Sessions!Resting.step = "idle" /\ Sessions!Resting.answer = Sessions!NoAnswer
    /\ Sessions!NoAnswer.state # "ready"
<1>1. Sessions!NoAnswer \in Sessions!Answers /\ ~Sessions!NoAnswer.fresh /\ Sessions!NoAnswer.state # "ready"
  BY DEF Sessions!NoAnswer, Sessions!Answers, Sessions!Unlisted, Sessions!Binding, Sessions!Bindings, Sessions!Attributions
<1>2. Sessions!Unavailable \in Sessions!Answers /\ ~Sessions!Unavailable.fresh
  BY <1>1 DEF Sessions!Unavailable, Sessions!Answers
<1>3. Sessions!Resting \in Runs /\ Sessions!Resting.step = "idle" /\ Sessions!Resting.answer = Sessions!NoAnswer
  BY <1>1 DEF Sessions!Resting, Runs, Sessions!RunSteps
<1>. QED  BY <1>1, <1>2, <1>3

\* An answer that may be under way, and one that may be in a file.
Fits(a) == a \in Sessions!Answers /\ Stands(a)
FileFits(a) == Fits(a) /\ (a = Sessions!NoAnswer \/ Tells(a))
RunFits(c) ==
    c \in Runs /\ Fits(c.answer) /\ (c.step \in {"answered", "written", "clear"} => Tells(c.answer))

LEMMA OldHonours == \A a : ~a.fresh => Stands(a) /\ Stands(a)'
BY DEF Stands, Sessions!Honours

\* All that there is fits.
LEMMA FitsNow ==
    ASSUME SessionsInv
    PROVE  /\ Fits(view.answer) /\ FileFits(stored) /\ FileFits(scratch)
           /\ \A r \in Sessions!Runs : RunFits(recons[r])
           /\ Fits(Sessions!NoAnswer) /\ FileFits(Sessions!NoAnswer) /\ RunFits(Sessions!Resting)
           /\ Fits(Sessions!Unavailable)
<1>1. view.answer \in Sessions!Answers
  BY DEF SessionsInv, SessionsShape, Sessions!SessionsTypeOK
<1>2. stored \in Sessions!Answers /\ scratch \in Sessions!Answers /\ \A r \in Sessions!Runs : recons[r] \in Runs
  BY DEF SessionsInv, SessionsShape, Sessions!SessionsTypeOK
<1>3. \A c \in Runs : c.answer \in Sessions!Answers
  BY DEF Runs
<1>4. Fits(Sessions!NoAnswer) /\ Fits(Sessions!Unavailable)
  BY Blank, OldHonours DEF Fits
<1>5. RunFits(Sessions!Resting)
  BY <1>4, Blank DEF RunFits
<1>. QED  BY <1>1, <1>2, <1>3, <1>4, <1>5 DEF Fits, FileFits, RunFits, SessionsInv, AnswersInv

\* Whatever a reconciliation changes, it leaves the decisions as they are.
LEMMA RunKeeps ==
    ASSUME SessionsInv, NEW r \in Sessions!Runs, NEW c, RunFits(c), recons' = [recons EXCEPT ![r] = c],
           NEW v, Fits(v), NEW s, FileFits(s), NEW t, FileFits(t),
           view' = [view EXCEPT !.answer = v], stored' = s, scratch' = t,
           UNCHANGED <<kind, catalog, spool, decisions, registered, current, order, deeds, decided, forgotten, strayed>>
    PROVE  SessionsInv'
<1>1. /\ recons' \in [Sessions!Runs -> Runs] /\ \A q \in Sessions!Runs : recons'[q] = IF q = r THEN c ELSE recons[q]
  BY DEF SessionsInv, SessionsShape, RunFits
<1>2. /\ view' \in [knows : Scopes, project : Scopes \cup {NoScope}, answer : Sessions!Answers] /\ view'.answer = v
  BY DEF SessionsInv, SessionsShape, Sessions!SessionsTypeOK, Fits
<1>3. SessionsShape'
  <2>1. stored' \in Sessions!Answers /\ scratch' \in Sessions!Answers
    BY DEF FileFits, Fits
  <2>2. \A q \in Sessions!Runs : recons'[q].step \in Sessions!RunSteps /\ recons'[q].answer \in Sessions!Answers
    BY <1>1 DEF Runs
  <2>. QED  BY <1>1, <1>2, <2>1, <2>2 DEF SessionsInv, SessionsShape, Sessions!SessionsTypeOK
<1>4. OrderInv' /\ Sessions!DecisionsStand'
  BY DEF SessionsInv, OrderInv, Sessions!DecisionsStand, Sessions!ReadDecisions, Sessions!Meant
<1>5. \A a : Stands(a)' <=> Stands(a)
  BY DEF Stands, Sessions!Honours
<1>6. AnswersInv'
  <2>1. \A q \in Sessions!Runs : RunFits(recons'[q])
    BY <1>1, FitsNow
  <2>2. Stands(v)' /\ Stands(s)' /\ Stands(t)'
    BY <1>5 DEF Fits, FileFits
  <2>3. \A q \in Sessions!Runs : Stands(recons'[q].answer) /\
            (recons'[q].step \in {"answered", "written", "clear"} => Tells(recons'[q].answer))
    BY <2>1 DEF RunFits, Fits
  <2>4. \A q \in Sessions!Runs : Stands(recons[q].answer)'
    BY <2>3, <1>5
  <2>. QED  BY <1>2, <2>2, <2>3, <2>4 DEF AnswersInv, FileFits
<1>. QED  BY <1>3, <1>4, <1>6 DEF SessionsInv

LEMMA SameView ==
    ASSUME SessionsInv, UNCHANGED view
    PROVE  view' = [view EXCEPT !.answer = view.answer]
BY DEF SessionsInv, SessionsShape, Sessions!SessionsTypeOK

\* The record of a reconciliation that takes its next step, and of one that tells.
LEMMA NextRun ==
    ASSUME SessionsInv, NEW r \in Sessions!Runs, recons[r].step \in {"answered", "written", "clear"},
           NEW step \in Sessions!RunSteps
    PROVE  /\ Tells(recons[r].answer) /\ FileFits(recons[r].answer)
           /\ RunFits([recons[r] EXCEPT !.step = step])
<1>1. recons[r] \in Runs /\ RunFits(recons[r])
  BY FitsNow DEF SessionsInv, SessionsShape
<1>2. [recons[r] EXCEPT !.step = step].answer = recons[r].answer /\ [recons[r] EXCEPT !.step = step] \in Runs
  BY <1>1 DEF Runs
<1>. QED  BY <1>1, <1>2 DEF RunFits, FileFits

LEMMA ToldRun ==
    ASSUME SessionsInv, NEW r \in Sessions!Runs, NEW a, Fits(a), Sessions!Tell(r, a)
    PROVE  \E c : RunFits(c) /\ recons' = [recons EXCEPT ![r] = c]
<1>1. [step |-> "done", answer |-> a] \in Runs
  BY DEF Fits, Runs, Sessions!RunSteps
<1>2. RunFits([step |-> "done", answer |-> a])
  BY <1>1 DEF RunFits
<1>. QED  BY <1>2, FitsNow DEF Sessions!Tell, Sessions!SetRun

LEMMA ReconcileKeeps ==
    ASSUME SessionsInv, NEW r \in Sessions!Runs, Sessions!Reconcile(r)
    PROVE  SessionsInv'
<1>1. PICK fresh \in BOOLEAN : fresh = (order.step # "removed" /\ ~forgotten)
  BY DEF SessionsInv, SessionsShape, Sessions!SessionsTypeOK
<1>2. PICK a : a = Sessions!Ready(Sessions!Sought, fresh)
  OBVIOUS
<1>3. Fits(a) /\ (Sessions!Sought # Sessions!Unlisted => Tells(a))
  BY <1>1, <1>2, FreshHonours DEF Fits
<1>4. \E c : RunFits(c) /\ recons' = [recons EXCEPT ![r] = c]
  <2>1. CASE Sessions!Sought = Sessions!Unlisted
    <3>1. Sessions!Tell(r, a)
      BY <1>1, <1>2, <2>1 DEF Sessions!Reconcile
    <3>. QED  BY <1>3, <3>1, ToldRun
  <2>2. CASE Sessions!Sought # Sessions!Unlisted
    <3>1. recons' = [recons EXCEPT ![r] = [step |-> "answered", answer |-> a]]
      BY <1>1, <1>2, <2>2 DEF Sessions!Reconcile, Sessions!SetRun
    <3>2. [step |-> "answered", answer |-> a] \in Runs
      BY <1>3 DEF Fits, Runs, Sessions!RunSteps
    <3>3. RunFits([step |-> "answered", answer |-> a])
      BY <1>3, <2>2, <3>2 DEF RunFits
    <3>. QED  BY <3>1, <3>3
  <2>. QED  BY <2>1, <2>2
<1>5. UNCHANGED <<view, stored, scratch, kind, catalog, spool, decisions, registered, current, order, deeds, decided,
                  forgotten, strayed>>
  BY DEF Sessions!Reconcile, Sessions!sessionFiles
<1>. QED  BY <1>4, <1>5, FitsNow, SameView, RunKeeps

LEMMA CodexUnavailableKeeps ==
    ASSUME SessionsInv, NEW r \in Sessions!Runs, Sessions!CodexUnavailable(r)
    PROVE  SessionsInv'
<1>1. \E c : RunFits(c) /\ recons' = [recons EXCEPT ![r] = c]
  BY FitsNow, ToldRun DEF Sessions!CodexUnavailable
<1>2. UNCHANGED <<view, stored, scratch, kind, catalog, spool, decisions, registered, current, order, deeds, decided,
                  forgotten, strayed>>
  BY DEF Sessions!CodexUnavailable, Sessions!sessionFiles
<1>. QED  BY <1>1, <1>2, FitsNow, SameView, RunKeeps

LEMMA WritesKeep ==
    ASSUME SessionsInv, NEW r \in Sessions!Runs, Sessions!WriteScratch(r) \/ Sessions!RemoveStored(r)
    PROVE  SessionsInv'
<1>1. PICK step \in Sessions!RunSteps :
        recons[r].step \in {"answered", "written"} /\ recons' = [recons EXCEPT ![r] = [recons[r] EXCEPT !.step = step]]
  BY DEF Sessions!WriteScratch, Sessions!RemoveStored, Sessions!StepRun, Sessions!SetRun, Sessions!RunSteps
<1>2. PICK s, t : stored' = s /\ scratch' = t /\ FileFits(s) /\ FileFits(t)
  <2>1. stored' \in {stored, Sessions!NoAnswer} /\ scratch' \in {scratch, recons[r].answer}
    BY DEF Sessions!WriteScratch, Sessions!RemoveStored
  <2>. QED  BY <1>1, <2>1, FitsNow, NextRun
<1>3. UNCHANGED <<view, kind, catalog, spool, decisions, registered, current, order, deeds, decided, forgotten, strayed>>
  BY DEF Sessions!WriteScratch, Sessions!RemoveStored
<1>4. RunFits([recons[r] EXCEPT !.step = step])
  BY <1>1, NextRun
<1>. QED  BY <1>1, <1>2, <1>3, <1>4, FitsNow, SameView, RunKeeps

LEMMA RenameScratchKeeps ==
    ASSUME SessionsInv, NEW r \in Sessions!Runs, Sessions!RenameScratch(r)
    PROVE  SessionsInv'
<1>1. \E c : RunFits(c) /\ recons' = [recons EXCEPT ![r] = c]
  <2>1. Fits(recons[r].answer)
    BY FitsNow DEF RunFits
  <2>2. recons' = [recons EXCEPT ![r] = Sessions!Resting] \/ Sessions!Tell(r, recons[r].answer)
    BY DEF Sessions!RenameScratch, Sessions!SetRun
  <2>. QED  BY <2>1, <2>2, FitsNow, ToldRun
<1>2. PICK s, t : stored' = s /\ scratch' = t /\ FileFits(s) /\ FileFits(t)
  BY FitsNow DEF Sessions!RenameScratch
<1>3. UNCHANGED <<view, kind, catalog, spool, decisions, registered, current, order, deeds, decided, forgotten, strayed>>
  BY DEF Sessions!RenameScratch
<1>. QED  BY <1>1, <1>2, <1>3, FitsNow, SameView, RunKeeps

LEMMA ReconcileEnds ==
    ASSUME SessionsInv, NEW r \in Sessions!Runs, Sessions!ReconcileFails(r) \/ Sessions!Deliver(r)
    PROVE  SessionsInv'
<1>1. recons' = [recons EXCEPT ![r] = Sessions!Resting]
  BY DEF Sessions!ReconcileFails, Sessions!Deliver, Sessions!SetRun
<1>2. PICK v : Fits(v) /\ view' = [view EXCEPT !.answer = v]
  <2>1. view' = view \/ view' = [view EXCEPT !.answer = recons[r].answer]
    BY DEF Sessions!ReconcileFails, Sessions!Deliver
  <2>. QED  BY <2>1, FitsNow, SameView DEF RunFits
<1>3. UNCHANGED <<stored, scratch, kind, catalog, spool, decisions, registered, current, order, deeds, decided,
                  forgotten, strayed>>
  BY DEF Sessions!ReconcileFails, Sessions!Deliver, Sessions!sessionFiles
<1>. QED  BY <1>1, <1>2, <1>3, FitsNow, RunKeeps

--------------------------------------------------------------------------------------
(* The user's decisions, and the world.                                         *)

\* As long as the decisions are not replaced, what is answered stays as good as it was.
LEMMA AnswersStay ==
    ASSUME SessionsInv, UNCHANGED <<recons, stored, scratch, decided, forgotten, strayed>>,
           view'.answer \in {view.answer, Sessions!NoAnswer}
    PROVE  AnswersInv'
<1>1. \A a : Stands(a)' <=> Stands(a)
  BY DEF Stands, Sessions!Honours
<1>2. Stands(view'.answer)
  BY FitsNow DEF Fits
<1>. QED  BY <1>1, <1>2 DEF SessionsInv, AnswersInv

\* When they are, every answer is old.
LEMMA AgedFits ==
    ASSUME SessionsInv
    PROVE  /\ \A a \in Sessions!Answers :
                /\ Sessions!Aged(a) \in Sessions!Answers /\ ~Sessions!Aged(a).fresh
                /\ Tells(a) => Tells(Sessions!Aged(a))
           /\ Sessions!Aged(Sessions!NoAnswer) = Sessions!NoAnswer
           /\ Sessions!Aged(stored) = Sessions!NoAnswer \/ Tells(Sessions!Aged(stored))
<1>1. ASSUME NEW a \in Sessions!Answers
      PROVE  /\ Sessions!Aged(a) \in Sessions!Answers /\ ~Sessions!Aged(a).fresh
             /\ Tells(a) => Tells(Sessions!Aged(a))
  BY DEF Sessions!Aged, Sessions!Answers, Tells
<1>2. Sessions!Aged(Sessions!NoAnswer) = Sessions!NoAnswer
  BY Blank DEF Sessions!Aged, Sessions!Answers
<1>. QED  BY <1>1, <1>2, FitsNow DEF FileFits, Fits

LEMMA AgeKeeps ==
    ASSUME SessionsInv, Sessions!AgeAll
    PROVE  /\ AnswersInv' /\ recons' \in [Sessions!Runs -> Runs]
           /\ \A r \in Sessions!Runs : recons'[r].step \in Sessions!RunSteps /\ recons'[r].answer \in Sessions!Answers
           /\ view' \in [knows : Scopes, project : Scopes \cup {NoScope}, answer : Sessions!Answers]
           /\ stored' \in Sessions!Answers /\ scratch' \in Sessions!Answers
<1>1. /\ view \in [knows : Scopes, project : Scopes \cup {NoScope}, answer : Sessions!Answers]
      /\ recons \in [Sessions!Runs -> Runs] /\ stored \in Sessions!Answers /\ scratch \in Sessions!Answers
  BY DEF SessionsInv, SessionsShape, Sessions!SessionsTypeOK
<1>2. /\ view' \in [knows : Scopes, project : Scopes \cup {NoScope}, answer : Sessions!Answers]
      /\ ~view'.answer.fresh
  <2>1. PICK a \in Sessions!Answers : a = Sessions!Aged(view.answer) /\ ~a.fresh
    BY <1>1, AgedFits
  <2>2. view' = [view EXCEPT !.answer = a]
    BY <2>1 DEF Sessions!AgeAll
  <2>. QED  BY <1>1, <2>1, <2>2
<1>3. ASSUME NEW r \in Sessions!Runs
      PROVE  /\ recons'[r] \in Runs /\ recons'[r].step \in Sessions!RunSteps /\ recons'[r].answer \in Sessions!Answers
             /\ ~recons'[r].answer.fresh
             /\ recons'[r].step \in {"answered", "written", "clear"} => Tells(recons'[r].answer)
  <2>1. PICK c \in Runs : c = recons[r]
    BY <1>1
  <2>2. /\ c.answer \in Sessions!Answers
        /\ c.step \in {"answered", "written", "clear"} => Tells(c.answer)
    BY <2>1 DEF Runs, SessionsInv, AnswersInv
  <2>3. PICK a \in Sessions!Answers : a = Sessions!Aged(c.answer) /\ ~a.fresh /\ (Tells(c.answer) => Tells(a))
    BY <2>2, AgedFits
  <2>4. recons'[r] = [c EXCEPT !.answer = a]
    BY <2>1, <2>3 DEF Sessions!AgeAll
  <2>. QED  BY <2>2, <2>3, <2>4 DEF Runs
<1>4. recons' = [r \in Sessions!Runs |-> recons'[r]]
  BY DEF Sessions!AgeAll
<1>5. recons' \in [Sessions!Runs -> Runs]
  BY <1>3, <1>4
<1>6. /\ stored' \in Sessions!Answers /\ scratch' \in Sessions!Answers /\ ~stored'.fresh /\ ~scratch'.fresh
      /\ \A a \in {stored', scratch'} : a = Sessions!NoAnswer \/ Tells(a)
  <2>1. stored' = Sessions!Aged(stored) /\ scratch' = Sessions!Aged(scratch)
    BY DEF Sessions!AgeAll
  <2>2. FileFits(stored) /\ FileFits(scratch)
    BY FitsNow
  <2>3. \A a : FileFits(a) => Sessions!Aged(a) = Sessions!NoAnswer \/ Tells(Sessions!Aged(a))
    BY AgedFits DEF FileFits, Fits
  <2>. QED  BY <1>1, <2>1, <2>2, <2>3, AgedFits
<1>7. AnswersInv'
  <2>1. \A a : ~a.fresh => Stands(a)'
    BY OldHonours
  <2>2. Stands(view.answer)' /\ \A a \in {stored', scratch'} : Stands(a)'
    BY <1>2, <1>6, <2>1
  <2>3. \A r \in Sessions!Runs : Stands(recons[r].answer)'
    BY <1>3, <2>1
  <2>. QED  BY <1>3, <1>6, <2>2, <2>3 DEF AnswersInv
<1>. QED  BY <1>2, <1>3, <1>5, <1>6, <1>7

\* The forms of an order.
LEMMA OrderForms ==
    ASSUME SessionsInv
    PROVE  /\ Sessions!NoOrder.step = "idle" /\ Sessions!NoOrder.verdict = "automatic"
           /\ Sessions!NoOrder \in [step : {"idle", "asked", "drafted", "removed"},
                  action : Sessions!Actions \cup {"none"}, shown : Scopes \cup {NoScope}, verdict : Sessions!Verdicts]
           /\ order \in [step : {"idle", "asked", "drafted", "removed"},
                  action : Sessions!Actions \cup {"none"}, shown : Scopes \cup {NoScope}, verdict : Sessions!Verdicts]
BY DEF Sessions!NoOrder, Sessions!Verdicts, Sessions!Actions, SessionsInv, SessionsShape, Sessions!SessionsTypeOK

LEMMA ClickKeeps ==
    ASSUME SessionsInv, NEW action \in Sessions!Actions, Sessions!Click(action)
    PROVE  SessionsInv'
<1>1. view.project \in Scopes
  BY DEF SessionsInv, SessionsShape, Sessions!SessionsTypeOK, Sessions!Click
<1>2. PICK p \in Scopes : p = view.project
  BY <1>1
<1>3. order' = [Sessions!NoOrder EXCEPT !.step = "asked", !.action = action, !.shown = p]
  BY <1>2 DEF Sessions!Click
<1>4. /\ order' \in [step : {"idle", "asked", "drafted", "removed"}, action : Sessions!Actions \cup {"none"},
                     shown : Scopes \cup {NoScope}, verdict : Sessions!Verdicts]
      /\ order'.step = "asked" /\ order'.action = action /\ order'.shown = p
  BY <1>3, OrderForms
<1>5. deeds' \in 0..MaxDeeds
  BY SessionsConstants DEF SessionsInv, SessionsShape, Sessions!SessionsTypeOK, Sessions!Click
<1>6. SessionsShape'
  BY <1>4, <1>5 DEF SessionsInv, SessionsShape, Sessions!SessionsTypeOK, Sessions!Click, Sessions!sessionFiles
<1>7. OrderInv' /\ Sessions!DecisionsStand'
  BY <1>4
  DEF OrderInv, SessionsInv, Sessions!DecisionsStand, Sessions!ReadDecisions, Sessions!Click, Sessions!sessionFiles
<1>8. AnswersInv'
  BY AnswersStay DEF Sessions!Click, Sessions!sessionFiles
<1>. QED  BY <1>6, <1>7, <1>8 DEF SessionsInv

\* The decisions are read, and what follows is drafted.
LEMMA DraftKeeps ==
    ASSUME SessionsInv, Sessions!AssignToActive \/ Sessions!BlockAutomatic \/ Sessions!ClearDecision
    PROVE  SessionsInv'
<1>1. /\ order.step = "asked" /\ order.action \in Sessions!Actions /\ order.shown \in Scopes
      /\ UNCHANGED <<kind, catalog, spool, decisions, stored, scratch, registered, current, recons, view, deeds,
                     forgotten, strayed>>
  BY DEF SessionsInv, OrderInv, Sessions!AssignToActive, Sessions!BlockAutomatic, Sessions!ClearDecision,
     Sessions!sessionFiles
<1>2. CASE order' = Sessions!NoOrder
  <2>1. CASE decided' = decided
    <3>1. SessionsShape'
      BY <1>1, <1>2, <2>1, OrderForms DEF SessionsInv, SessionsShape, Sessions!SessionsTypeOK
    <3>2. OrderInv' /\ Sessions!DecisionsStand'
      BY <1>1, <1>2, <2>1, OrderForms
      DEF OrderInv, SessionsInv, Sessions!DecisionsStand, Sessions!ReadDecisions
    <3>. QED  BY <1>1, <2>1, <3>1, <3>2, AnswersStay DEF SessionsInv
  <2>2. CASE decided' # decided
    <3>1. Sessions!ReadDecisions = "automatic" /\ decided' = "automatic"
      <4>1. Sessions!AssignToActive \/ Sessions!BlockAutomatic => decided' = decided
        BY DEF Sessions!AssignToActive, Sessions!BlockAutomatic, Sessions!Replaces
      <4>2. Sessions!ClearDecision
        BY <2>2, <4>1
      <4>. QED  BY <2>2, <4>2 DEF Sessions!ClearDecision, Sessions!Replaces
    <3>2. forgotten \/ strayed
      BY <1>1, <2>2, <3>1 DEF SessionsInv, Sessions!DecisionsStand
    <3>3. SessionsShape'
      BY <1>1, <1>2, <3>1, OrderForms DEF SessionsInv, SessionsShape, Sessions!SessionsTypeOK, Sessions!Verdicts
    <3>4. OrderInv' /\ Sessions!DecisionsStand'
      BY <1>1, <1>2, <3>1, OrderForms
      DEF OrderInv, Sessions!DecisionsStand, Sessions!ReadDecisions
    <3>5. AnswersInv'
      <4>1. \A a : Stands(a)' <=> Stands(a)
        BY <1>1, <3>2 DEF Stands, Sessions!Honours
      <4>. QED  BY <1>1, <4>1 DEF SessionsInv, AnswersInv
    <3>. QED  BY <3>3, <3>4, <3>5 DEF SessionsInv
  <2>. QED  BY <2>1, <2>2
<1>3. CASE order' # Sessions!NoOrder
  <2>1. PICK verdict :
          /\ Sessions!Replaces(verdict)
          /\ IF order.action = "assign" THEN verdict = current
             ELSE verdict = IF order.action = "block-auto" THEN "unassigned" ELSE "automatic"
    <3>1. Sessions!ClearDecision => Sessions!Replaces("automatic")
      BY <1>3 DEF Sessions!ClearDecision
    <3>. QED  BY <3>1 DEF Sessions!AssignToActive, Sessions!BlockAutomatic, Sessions!ClearDecision
  <2>2. verdict \in Sessions!Verdicts /\ (order.action = "assign" => verdict \in Scopes)
    BY <2>1 DEF SessionsInv, SessionsShape, Sessions!SessionsTypeOK, Sessions!Verdicts
  <2>3. order' = [order EXCEPT !.step = "drafted", !.verdict = verdict] /\ decided' = decided
    BY <2>1 DEF Sessions!Replaces
  <2>4. /\ order' \in [step : {"idle", "asked", "drafted", "removed"}, action : Sessions!Actions \cup {"none"},
                       shown : Scopes \cup {NoScope}, verdict : Sessions!Verdicts]
        /\ order'.step = "drafted" /\ order'.action = order.action /\ order'.shown = order.shown
        /\ order'.verdict = verdict
    BY <2>2, <2>3, OrderForms
  <2>5. SessionsShape'
    BY <1>1, <2>3, <2>4 DEF SessionsInv, SessionsShape, Sessions!SessionsTypeOK
  <2>6. order.action # "assign" => verdict = Sessions!Meant'
    BY <1>1, <2>1, <2>4 DEF Sessions!Meant, Sessions!Actions
  <2>7. OrderInv'
    BY <1>1, <2>2, <2>4, <2>6 DEF OrderInv
  <2>8. Sessions!DecisionsStand'
    BY <1>1, <2>3 DEF SessionsInv, Sessions!DecisionsStand, Sessions!ReadDecisions
  <2>. QED  BY <1>1, <2>3, <2>5, <2>7, <2>8, AnswersStay DEF SessionsInv
<1>. QED  BY <1>2, <1>3

LEMMA RemoveDecisionsKeeps ==
    ASSUME SessionsInv, Sessions!RemoveDecisions
    PROVE  SessionsInv'
<1>1. /\ order' \in [step : {"idle", "asked", "drafted", "removed"}, action : Sessions!Actions \cup {"none"},
                     shown : Scopes \cup {NoScope}, verdict : Sessions!Verdicts]
      /\ order'.step = "removed" /\ order'.action = order.action /\ order'.shown = order.shown
      /\ order'.verdict = order.verdict /\ order.step = "drafted"
  BY OrderForms DEF Sessions!RemoveDecisions
<1>2. SessionsShape'
  BY <1>1 DEF SessionsInv, SessionsShape, Sessions!SessionsTypeOK, Sessions!RemoveDecisions
<1>3. OrderInv' /\ Sessions!DecisionsStand'
  BY <1>1 DEF SessionsInv, OrderInv, Sessions!Meant, Sessions!DecisionsStand
<1>. QED  BY <1>2, <1>3, AnswersStay DEF SessionsInv, Sessions!RemoveDecisions

LEMMA CommitDecisionsKeeps ==
    ASSUME SessionsInv, Sessions!CommitDecisions
    PROVE  SessionsInv'
<1>1. /\ order.step = "removed" /\ order.action \in Sessions!Actions /\ order.shown \in Scopes
      /\ order.verdict \in Sessions!Verdicts
      /\ order.action = "assign" => Sessions!Meant = order.shown
      /\ order.action # "assign" => order.verdict = Sessions!Meant
  BY OrderForms DEF Sessions!CommitDecisions, SessionsInv, OrderInv, Sessions!Meant
<1>2. Sessions!Meant \in Sessions!Verdicts
  BY <1>1 DEF Sessions!Verdicts
<1>3. /\ strayed' = (order.action = "assign" /\ order.verdict # order.shown) /\ order' = Sessions!NoOrder
      /\ decisions' = order.verdict /\ decided' = Sessions!Meant /\ forgotten' = FALSE /\ Sessions!AgeAll
      /\ UNCHANGED <<kind, catalog, spool, registered, current, deeds>>
  BY DEF Sessions!CommitDecisions
<1>4. SessionsShape'
  BY <1>1, <1>2, <1>3, AgeKeeps, OrderForms DEF SessionsInv, SessionsShape, Sessions!SessionsTypeOK
<1>5. OrderInv'
  BY <1>3, OrderForms DEF OrderInv
<1>6. Sessions!DecisionsStand'
  <2>1. decisions' # "missing"
    BY <1>1, <1>3, SessionsConstants DEF Sessions!Verdicts
  <2>2. ~strayed' => decisions' = decided'
    BY <1>1, <1>3
  <2>. QED  BY <2>1, <2>2 DEF Sessions!DecisionsStand, Sessions!ReadDecisions
<1>. QED  BY <1>3, <1>4, <1>5, <1>6, AgeKeeps DEF SessionsInv

LEMMA DecisionFailsKeeps ==
    ASSUME SessionsInv, Sessions!DecisionFails
    PROVE  SessionsInv'
<1>1. /\ order' = Sessions!NoOrder /\ deeds' \in 0..MaxDeeds
      /\ UNCHANGED <<kind, catalog, spool, decisions, registered, current, decided, strayed>>
  BY SessionsConstants DEF Sessions!DecisionFails, SessionsInv, SessionsShape, Sessions!SessionsTypeOK
<1>2. CASE order.step = "removed"
  <2>1. forgotten' = TRUE /\ Sessions!AgeAll
    BY <1>2 DEF Sessions!DecisionFails
  <2>2. SessionsShape'
    BY <1>1, <2>1, AgeKeeps, OrderForms DEF SessionsInv, SessionsShape, Sessions!SessionsTypeOK
  <2>3. OrderInv' /\ Sessions!DecisionsStand'
    BY <1>1, <2>1, OrderForms DEF OrderInv, Sessions!DecisionsStand
  <2>. QED  BY <2>1, <2>2, <2>3, AgeKeeps DEF SessionsInv
<1>3. CASE order.step # "removed"
  <2>1. UNCHANGED <<forgotten, recons, view, stored, scratch>>
    BY <1>3 DEF Sessions!DecisionFails
  <2>2. SessionsShape'
    BY <1>1, <2>1, OrderForms DEF SessionsInv, SessionsShape, Sessions!SessionsTypeOK
  <2>3. OrderInv' /\ Sessions!DecisionsStand'
    BY <1>1, <1>3, <2>1, OrderForms
    DEF SessionsInv, OrderInv, Sessions!DecisionsStand, Sessions!ReadDecisions
  <2>. QED  BY <1>1, <2>1, <2>2, <2>3, AnswersStay DEF SessionsInv
<1>. QED  BY <1>2, <1>3

\* What is seen, which projects there are, and what the window heard of them.
LEMMA SessionsWorldKeeps ==
    ASSUME SessionsInv,
           \/ \E place \in Observed : Sessions!ObserveContext(place) \/ Sessions!ObserveHook(place)
           \/ Sessions!Spoil
           \/ \E p \in Scopes : Sessions!RegisterOrDrop(p) \/ Sessions!ActivateScope(p)
           \/ Sessions!HearOfActivation \/ Sessions!WindowLoads
    PROVE  SessionsInv'
<1>1. UNCHANGED <<kind, catalog, decisions, stored, scratch, order, recons, decided, forgotten, strayed>>
  BY DEF Sessions!ObserveContext, Sessions!ObserveHook, Sessions!Observe, Sessions!Spoil, Sessions!RegisterOrDrop,
     Sessions!ActivateScope, Sessions!HearOfActivation, Sessions!WindowLoads, Sessions!sessionFiles
<1>2. spool' \in Sessions!Observations
  <2>1. spool \in Sessions!Observations
    BY DEF SessionsInv, SessionsShape, Sessions!SessionsTypeOK
  <2>2. \/ spool' = spool \/ spool' = [spool EXCEPT !.sound = FALSE]
        \/ \E place \in Observed : spool' = [spool EXCEPT !.seen = @ \cup {place}]
    BY DEF Sessions!ObserveContext, Sessions!ObserveHook, Sessions!Observe, Sessions!Spoil, Sessions!RegisterOrDrop,
       Sessions!ActivateScope, Sessions!HearOfActivation, Sessions!WindowLoads, Sessions!sessionFiles
  <2>3. CASE spool' = spool \/ spool' = [spool EXCEPT !.sound = FALSE]
    BY <2>1, <2>3 DEF Sessions!Observations
  <2>4. ASSUME NEW place \in Observed, spool' = [spool EXCEPT !.seen = @ \cup {place}]
        PROVE  spool' \in Sessions!Observations
    <3>1. PICK seen \in SUBSET Sessions!Places : seen = spool.seen \cup {place}
      BY <2>1, SessionsConstants DEF Sessions!Observations, Sessions!Places
    <3>2. spool' = [spool EXCEPT !.seen = seen]
      BY <2>4, <3>1
    <3>. QED  BY <2>1, <3>2 DEF Sessions!Observations
  <2>. QED  BY <2>2, <2>3, <2>4
<1>3. registered' \subseteq Scopes /\ current' \in Scopes
  BY DEF SessionsInv, SessionsShape, Sessions!SessionsTypeOK, Sessions!ObserveContext, Sessions!ObserveHook,
     Sessions!Observe, Sessions!Spoil, Sessions!RegisterOrDrop, Sessions!ActivateScope, Sessions!HearOfActivation,
     Sessions!WindowLoads
<1>4. deeds' \in 0..MaxDeeds
  BY SessionsConstants
  DEF SessionsInv, SessionsShape, Sessions!SessionsTypeOK, Sessions!ObserveContext, Sessions!ObserveHook,
     Sessions!Observe, Sessions!Spoil, Sessions!RegisterOrDrop, Sessions!ActivateScope, Sessions!HearOfActivation,
     Sessions!WindowLoads
<1>5. /\ view' \in [knows : Scopes, project : Scopes \cup {NoScope}, answer : Sessions!Answers]
      /\ view'.answer \in {view.answer, Sessions!NoAnswer}
  <2>1. /\ view \in [knows : Scopes, project : Scopes \cup {NoScope}, answer : Sessions!Answers]
        /\ current \in Scopes
    BY DEF SessionsInv, SessionsShape, Sessions!SessionsTypeOK
  <2>2. /\ Sessions!Closed(current) \in [knows : Scopes, project : Scopes \cup {NoScope}, answer : Sessions!Answers]
        /\ Sessions!Closed(current).answer = Sessions!NoAnswer
    BY <2>1, Blank DEF Sessions!Closed
  <2>3. \/ view' = view \/ view' = Sessions!Closed(current)
        \/ \E p \in Scopes : view' = [view EXCEPT !.project = p]
    BY <2>1
    DEF Sessions!ObserveContext, Sessions!ObserveHook, Sessions!Observe, Sessions!Spoil, Sessions!RegisterOrDrop,
       Sessions!ActivateScope, Sessions!HearOfActivation, Sessions!WindowLoads
  <2>. QED  BY <2>1, <2>2, <2>3
<1>6. SessionsShape'
  BY <1>1, <1>2, <1>3, <1>4, <1>5 DEF SessionsInv, SessionsShape, Sessions!SessionsTypeOK
<1>7. OrderInv' /\ Sessions!DecisionsStand'
  BY <1>1 DEF SessionsInv, OrderInv, Sessions!Meant, Sessions!DecisionsStand, Sessions!ReadDecisions
<1>. QED  BY <1>1, <1>5, <1>6, <1>7, AnswersStay DEF SessionsInv

LEMMA DeathKeeps ==
    ASSUME SessionsInv, Sessions!Death
    PROVE  SessionsInv'
<1>1. /\ order' = Sessions!NoOrder /\ scratch' = Sessions!NoAnswer /\ view' = Sessions!Closed(current)
      /\ recons' = [r \in Sessions!Runs |-> Sessions!Resting]
      /\ forgotten' = (forgotten \/ order.step = "removed")
      /\ stored' = IF order.step = "removed" THEN Sessions!Aged(stored) ELSE stored
      /\ UNCHANGED <<kind, catalog, spool, decisions, registered, current, decided, strayed>>
  BY DEF Sessions!Death
<1>2. /\ view' \in [knows : Scopes, project : Scopes \cup {NoScope}, answer : Sessions!Answers]
      /\ view'.answer = Sessions!NoAnswer
  BY <1>1, Blank DEF Sessions!Closed, SessionsInv, SessionsShape, Sessions!SessionsTypeOK
<1>3. /\ FileFits(stored) /\ stored' \in Sessions!Answers
      /\ stored' = Sessions!NoAnswer \/ Tells(stored')
      /\ order.step = "removed" => ~stored'.fresh
      /\ order.step # "removed" => stored' = stored
  BY <1>1, FitsNow, AgedFits DEF FileFits, Fits
<1>4. SessionsShape'
  <2>1. deeds' \in 0..MaxDeeds
    BY SessionsConstants DEF SessionsInv, SessionsShape, Sessions!SessionsTypeOK, Sessions!Death
  <2>2. /\ recons' \in [Sessions!Runs -> Runs]
        /\ \A r \in Sessions!Runs : recons'[r].step \in Sessions!RunSteps /\ recons'[r].answer \in Sessions!Answers
    BY <1>1, Blank DEF Runs
  <2>. QED  BY <1>1, <1>2, <1>3, <2>1, <2>2, Blank, OrderForms
            DEF SessionsInv, SessionsShape, Sessions!SessionsTypeOK
<1>5. OrderInv' /\ Sessions!DecisionsStand'
  BY <1>1, OrderForms DEF SessionsInv, OrderInv, Sessions!DecisionsStand, Sessions!ReadDecisions
<1>6. AnswersInv'
  <2>1. \A a : ~a.fresh => Stands(a)'
    BY OldHonours
  <2>2. Stands(Sessions!NoAnswer)'
    BY <2>1, Blank
  <2>3. Stands(stored)'
    <3>1. CASE order.step = "removed"
      BY <1>3, <2>1, <3>1
    <3>2. CASE order.step # "removed"
      BY <1>1, <1>3, <3>2 DEF FileFits, Fits, Stands, Sessions!Honours
    <3>. QED  BY <3>1, <3>2
  <2>. QED  BY <1>1, <1>2, <1>3, <2>2, <2>3, Blank DEF AnswersInv
<1>. QED  BY <1>4, <1>5, <1>6 DEF SessionsInv

--------------------------------------------------------------------------------------
(* Every step.                                                                  *)

LEMMA SessionsBegin ==
    ASSUME Init
    PROVE  SessionsInv
<1>1. /\ Sessions!SessionsInit
  BY DEF Init
<1>2. SessionsShape
  <2>1. /\ recons \in [Sessions!Runs -> Runs]
        /\ \A r \in Sessions!Runs : recons[r].step \in Sessions!RunSteps /\ recons[r].answer \in Sessions!Answers
    BY <1>1, Blank DEF Sessions!SessionsInit, Runs
  <2>2. view \in [knows : Scopes, project : Scopes \cup {NoScope}, answer : Sessions!Answers]
    BY <1>1, Blank DEF Sessions!SessionsInit, Sessions!Closed
  <2>3. decided \in Sessions!Verdicts
    BY <1>1 DEF Sessions!SessionsInit, Sessions!ReadDecisions, Sessions!Verdicts
  <2>4. order \in [step : {"idle", "asked", "drafted", "removed"}, action : Sessions!Actions \cup {"none"},
                   shown : Scopes \cup {NoScope}, verdict : Sessions!Verdicts]
    BY <1>1 DEF Sessions!SessionsInit, Sessions!NoOrder, Sessions!Verdicts
  <2>5. /\ kind \in {"codex", "hooks"} /\ catalog \in Sessions!Catalogs /\ spool \in Sessions!Observations
        /\ registered \subseteq Scopes /\ current \in Scopes /\ decisions \in Sessions!Verdicts \cup {"missing"}
        /\ stored \in Sessions!Answers /\ scratch \in Sessions!Answers
    BY <1>1, Blank DEF Sessions!SessionsInit
  <2>6. deeds \in 0..MaxDeeds
    <3>1. deeds = 0
      BY <1>1 DEF Sessions!SessionsInit
    <3>. QED  BY <3>1, SessionsConstants
  <2>7. forgotten \in BOOLEAN /\ strayed \in BOOLEAN
    BY <1>1 DEF Sessions!SessionsInit
  <2>. QED  BY <2>1, <2>2, <2>3, <2>4, <2>5, <2>6, <2>7 DEF SessionsShape, Sessions!SessionsTypeOK
<1>3. OrderInv /\ Sessions!DecisionsStand
  BY <1>1 DEF Sessions!SessionsInit, Sessions!NoOrder, OrderInv, Sessions!DecisionsStand
<1>4. AnswersInv
  BY <1>1, Blank, OldHonours DEF Sessions!SessionsInit, Sessions!Closed, AnswersInv, Stands
<1>. QED  BY <1>2, <1>3, <1>4 DEF SessionsInv

LEMMA SessionsStay ==
    ASSUME SessionsInv, UNCHANGED sessionVars
    PROVE  SessionsInv'
<1>1. SessionsShape'
  BY DEF sessionVars, SessionsInv, SessionsShape, Sessions!SessionsTypeOK
<1>2. OrderInv' /\ Sessions!DecisionsStand'
  BY DEF sessionVars, SessionsInv, OrderInv, Sessions!Meant, Sessions!DecisionsStand, Sessions!ReadDecisions
<1>. QED  BY <1>1, <1>2, AnswersStay DEF sessionVars, SessionsInv

LEMMA SessionsNextKeeps ==
    ASSUME SessionsInv, Sessions!SessionsNext
    PROVE  SessionsInv'
<1>1. "background" \in Sessions!Runs /\ Refreshes \subseteq Sessions!Runs
  BY DEF Sessions!Runs
<1>2. CASE Sessions!BackgroundReconciles \/ \E r \in Refreshes : Sessions!WindowRefreshes(r)
  BY <1>1, <1>2, ReconcileKeeps DEF Sessions!BackgroundReconciles, Sessions!WindowRefreshes
<1>3. CASE \E r \in Refreshes : Sessions!CodexUnavailable(r) \/ Sessions!Deliver(r)
  BY <1>1, <1>3, CodexUnavailableKeeps, ReconcileEnds
<1>. QED  BY <1>2, <1>3, WritesKeep, RenameScratchKeeps, ReconcileEnds, ClickKeeps, DraftKeeps, RemoveDecisionsKeeps,
          CommitDecisionsKeeps, DecisionFailsKeeps, SessionsWorldKeeps, DeathKeeps DEF Sessions!SessionsNext

\* The invariant holds in every state of the Desktop, whichever part of it is looked at.
THEOREM SessionsInvariantHolds == Spec => []SessionsInv
<1>1. Init => SessionsInv
  BY SessionsBegin
<1>2. SessionsInv /\ [Next]_vars => SessionsInv'
  <2>. SUFFICES ASSUME SessionsInv, [Next]_vars PROVE SessionsInv'
    OBVIOUS
  <2>1. CASE SessionsStep
    BY <2>1, SessionsNextKeeps DEF SessionsStep
  <2>2. CASE UNCHANGED sessionVars
    BY <2>2, SessionsStay
  <2>. QED  BY <2>1, <2>2
            DEF Next, ProjectsStep, UpdatesStep, ConnectionStep, ReviewStep, KnowledgeStep, AgentStep, vars
<1>. QED  BY <1>1, <1>2, PTL DEF Spec

\* A session is bound to the project that the user decided, or its evidence agrees on, the
\* decisions outlive all but a mishap in their replacement, and no answer of a
\* reconciliation goes against those in force (provider_session_reconciliation.rs,
\* provider-project-binding.ts): for every set of projects and of reconciliations.
THEOREM SessionsHold == Spec => []SessionsFollowDecisions
<1>1. SessionsInv => SessionsFollowDecisions
  <2>. SUFFICES ASSUME SessionsInv
                PROVE  Sessions!BindingsAgree /\ Sessions!DecisionsStand /\ Sessions!AnswersHonourDecisions
    BY DEF SessionsFollowDecisions, Of
  <2>1. Sessions!AnswersHonourDecisions
    BY DEF SessionsInv, AnswersInv, Stands, Tells, Sessions!AnswersHonourDecisions
  <2>. QED  BY <2>1, AllBindingsAgree DEF SessionsInv
<1>. QED  BY <1>1, SessionsInvariantHolds, PTL
====================================================================================
