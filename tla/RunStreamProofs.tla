--------------------------- MODULE RunStreamProofs ---------------------------
(***************************************************************************)
(* What a run's listeners, its cancel and a revocation are promised, for   *)
(* any messages, clients, buffers and interruptions.                       *)
(***************************************************************************)
EXTENDS RunStream, WellFoundedInduction, TLAPS

Severities == {"info", "success", "warn", "error"}
Emitted    == {"container", "codex", "parsing"} \cup TERMINAL_STAGES
RunEvent   == [seq : Nat, run : Runs, stage : Emitted, severity : Severities, awaiting : {FALSE}]
Tables     == Seq(Principals({Agent}, {Owner}))
Moves      == {"admit", "start", "close"}
Message    == [kind : Moves \cup {"reap"}, run : Runs]
                \cup [kind : {"event"}, run : Runs, event : RunEvent]
                \cup [kind : {"principals"}, run : {NoRun}, kept : Tables, revoked : Nat]

Fresh     == {"none", "sending", "refused"}
Executing == {"checking", "running", "scanning", "closing"}
Settling  == {"scanning", "closing", "ended"}
Listeners == Watchers \cup {"service"}

\* What an emission reads and writes.
Buffer == [run : Runs, events : Seq(RunEvent)]
Bus    == [seq : Nat, buffers : Seq(Buffer), listeners : [Runs -> SUBSET Listeners]]
Worlds == [bus : Bus,
           queue : Seq(Message), log : [Runs -> Seq(RunEvent)],
           wire : [Watchers -> Seq(RunEvent)], served : [Watchers -> {"none", "open", "ended"}]]
World  == [bus |-> bus, queue |-> queue, log |-> log, wire |-> wire, served |-> served]

\* The entry of the active map, and the request to cancel a run.
Entry   == [run : Runs \cup {NoRun}, cancelled : BOOLEAN, timedOut : BOOLEAN,
            outputExceeded : BOOLEAN, forceKill : BOOLEAN]
Request == [phase : {"none", "removing", "settling", "awaiting", "answered"},
            told : Runs \cup {NoRun}, awaits : Runs \cup {NoRun}]

\* What a watcher's hook keeps.
Hook == [phase : {"idle", "opening", "live", "closing", "closed", "polling"}, run : Runs \cup {NoRun},
         fetched : BOOLEAN, timeline : TimelineType, seen : BOOLEAN]

TypeOK ==
  /\ World \in Worlds
  /\ scenario \in Scenarios
  /\ agentStatus \in {"ready", "busy", "error"}
  /\ runStatus \in [Runs -> Active \cup TERMINAL_STAGES \cup {"unused"}]
  /\ stage \in [Runs -> Stages] /\ timeline \in [Runs -> TimelineType]
  /\ agentPrincipals \in Tables /\ directory \in Tables
  /\ exec \in [Runs -> Fresh \cup Executing \cup {"starting", "ended"}]
  /\ verdict \in [Runs -> TERMINAL_STAGES \cup {"none"}]
  /\ activeExecution \in Runs \cup {NoRun} /\ cancelFlag \in BOOLEAN
  /\ cancel \in [Runs -> Request]
  /\ client \in [Watchers -> Hook]
  /\ got \in [Watchers -> Seq(RunEvent)] /\ answered \subseteq Nat /\ reaped \subseteq Runs
  /\ provider \in {"local-process", "container"} /\ child \in {"none", "alive", "exited"}
  /\ exit \in Exits \cup {"none"} /\ removal \in [Runs -> {"none", "asked", "answered"}]
  /\ active \in Entry

\* The active process is that of an execution that waits for it.
ProcessIsAwaited ==
  /\ child = "none" <=> ~Running
  /\ Running => exec[active.run] = "running"
  /\ exit # "none" <=> child = "exited"

\* A mutation in the queue is the next move of its execution, which has no other there;
\* the watchdog's comes after the start of its run.
Is(i, kind, r) == i \in DOMAIN queue /\ queue[i].kind = kind /\ queue[i].run = r
Mover(kind)    == CASE kind = "admit" -> "sending" [] kind = "start" -> "starting" [] OTHER -> "closing"
MovesInOrder ==
  /\ \A i \in DOMAIN queue : queue[i].kind \in Moves => exec[queue[i].run] = Mover(queue[i].kind)
  /\ \A i, j \in DOMAIN queue :
       queue[i].kind \in Moves /\ queue[j].kind \in Moves /\ queue[i].run = queue[j].run => i = j
  /\ \A r \in Runs : exec[r] = "starting" => \E i \in DOMAIN queue : Is(i, "start", r)
  /\ \A r \in Runs : \A i, j \in DOMAIN queue : Is(i, "start", r) /\ Is(j, "reap", r) => i < j
  /\ \A r \in Runs : \A i \in DOMAIN queue : Is(i, "reap", r) => exec[r] \notin Fresh

\* The status of a run the watchdog left alone is that of its execution.
StatusAt(r) ==
  CASE exec[r] \in Fresh -> "unused" [] exec[r] = "starting" -> "queued"
    [] exec[r] \in Executing -> "running" [] OTHER -> verdict[r]
FollowsItsExecution(r) ==
  /\ exec[r] \in Settling => verdict[r] \in TERMINAL_STAGES
  /\ r \notin reaped => runStatus[r] = StatusAt(r)
  /\ r \in reaped => runStatus[r] = "failed" /\ exec[r] \notin Fresh \cup {"starting"}
StatusFollows == \A r \in Runs : FollowsItsExecution(r)

\* The service listens to a run as long as it is being executed.
IsListenedTo(r) == exec[r] \in Executing \cup {"starting"} => "service" \in bus.listeners[r]
ServiceListens  == \A r \in Runs : IsListenedTo(r)

\* A cancel waits for the process it marked, or that process's run ended as cancelled.
Marked(r)  == active.run = r /\ active.cancelled
Stopped(r) == exec[r] \in Settling /\ verdict[r] = "cancelled"
CancelsWait ==
  \A r \in Runs : LET c == cancel[r] IN
    /\ c.phase = "none" => c.told = NoRun
    /\ c.phase \in {"removing", "settling"} => c.told # NoRun
    /\ c.phase = "settling" => Marked(c.told)
    /\ c.phase = "removing" => Marked(c.told) \/ Stopped(c.told)
    /\ c.phase \in {"awaiting", "answered"} /\ c.told # NoRun => Stopped(c.told)

\* Tables on their way to the store are ever later states of the directory.
Revoked(t) == {p \in DOMAIN t : t[p].revoked}
Keeps(i)   == i \in DOMAIN queue /\ queue[i].kind = "principals"
TablesInOrder ==
  /\ answered \subseteq Revoked(agentPrincipals) /\ Revoked(agentPrincipals) \subseteq Revoked(directory)
  /\ \A i \in DOMAIN queue : Keeps(i) =>
       /\ queue[i].revoked \in Revoked(queue[i].kept)
       /\ Revoked(agentPrincipals) \subseteq Revoked(queue[i].kept)
       /\ Revoked(queue[i].kept) \subseteq Revoked(directory)
  /\ \A i, j \in DOMAIN queue : Keeps(i) /\ Keeps(j) /\ i < j => Revoked(queue[i].kept) \subseteq Revoked(queue[j].kept)

\* A message in the queue has a principal that is not revoked before its turn.
MessagesHavePrincipals ==
  \A i \in DOMAIN queue : queue[i].kind = "admit" =>
    \E p \in DOMAIN directory :
      p \notin answered /\ \A j \in DOMAIN queue : Keeps(j) /\ j < i => queue[j].revoked # p

\* The end of a run is announced with its status, and unless the watchdog closed it
\* nothing is announced after that; an error is announced only by a run that failed.
IsAnnounced(r) ==
  /\ exec[r] \in Fresh => log[r] = << >>
  /\ runStatus[r] \notin TERMINAL_STAGES => Told(r) = {}
  /\ runStatus[r] \in TERMINAL_STAGES =>
       \E i \in Told(r) : /\ Told(r) = {i} /\ log[r][i].stage = runStatus[r]
                          /\ r \notin reaped => i = Len(log[r])
  /\ r \notin reaped => \A i \in DOMAIN log[r] :
       log[r][i].severity = "error" => exec[r] \in Settling /\ verdict[r] = "failed"
Announced == \A r \in Runs : IsAnnounced(r)

\* The announced end of a run is the last of its events in the queue, until it is
\* recorded.
IsLast(i, r) ==
  /\ Is(i, "event", r) /\ queue[i].event.stage = runStatus[r]
  /\ \A j \in DOMAIN queue : Is(j, "event", r) /\ j # i => j < i /\ ~Over(queue[j].event)
IsRecorded(r) ==
  /\ timeline[r].ends = <<runStatus[r]>> /\ stage[r] = runStatus[r]
  /\ \A i \in Step : timeline[r].steps[i] \notin Open \cup {"pending"}
EndIsRecorded(r) ==
  /\ exec[r] # "ended" => /\ timeline[r].ends = << >>
                          /\ \A i \in DOMAIN queue : Is(i, "event", r) => ~Over(queue[i].event)
  /\ exec[r] = "ended" =>
       \/ timeline[r].ends = << >> /\ \E i \in DOMAIN queue : IsLast(i, r)
       \/ IsRecorded(r) /\ \A i \in DOMAIN queue : ~Is(i, "event", r)
EndsAreRecorded == \A r \in Runs \ reaped : EndIsRecorded(r)

\* A buffer holds the newest events of its run, and all that fit in it as long as the
\* service listens.
IsTail(s, t) == Len(s) <= Len(t) /\ \A k \in 1..Len(s) : s[k] = t[Len(t) - Len(s) + k]
IsWhole(s, t) == IsTail(s, t) /\ (Len(s) = Len(t) \/ Len(s) >= MaxBuffered)
Buffered(v) ==
  /\ \A i \in DOMAIN v.bus.buffers :
       LET b == v.bus.buffers[i] IN
       /\ b.events # << >> /\ IsTail(b.events, v.log[b.run])
       /\ "service" \in v.bus.listeners[b.run] => IsWhole(b.events, v.log[b.run])
  /\ \A r \in Runs : "service" \in v.bus.listeners[r] => v.log[r] = << >> \/ IsBuffered(v.bus, r)

\* What a client was handed and what is under way to it is a stretch of its run's
\* events, and reaches to the newest while the stream is served.
Shipped(v, w) == got[w] \o v.wire[w]
IsStretch(s, t) == \E i \in 0..(Len(t) - Len(s)) : Len(s) <= Len(t) /\ \A k \in 1..Len(s) : s[k] = t[i + k]
StreamsTo(v, w) ==
  /\ \A r \in Runs : w \in v.bus.listeners[r] => client[w].run = r /\ v.served[w] = "open"
  /\ client[w].phase \in {"idle", "opening"} => got[w] = << >> /\ v.served[w] = "none"
  /\ client[w].phase # "idle" => client[w].run \in Runs
  /\ client[w].phase = "live" => IsStretch(Shipped(v, w), v.log[client[w].run])
  /\ client[w].phase = "live" /\ v.served[w] = "open" =>
       /\ w \in v.bus.listeners[client[w].run]
       /\ IsWhole(Shipped(v, w), v.log[client[w].run])
Streaming(v) == \A w \in Watchers : StreamsTo(v, w)

\* A run that is watched has been admitted.
IsUsed(w)      == client[w].phase # "idle" => exec[client[w].run] \notin Fresh
WatchedAreUsed == \A w \in Watchers : IsUsed(w)

\* The inductive invariant.
IInv == /\ TypeOK /\ ProcessIsAwaited /\ MovesInOrder /\ StatusFollows /\ ServiceListens /\ CancelsWait
        /\ TablesInOrder /\ MessagesHavePrincipals /\ Announced /\ EndsAreRecorded
        /\ Buffered(World) /\ Streaming(World) /\ WatchedAreUsed
-----------------------------------------------------------------------------
(* What the operators return                                                  *)

\* Every non-empty set of natural numbers has a least element, and Min finds it.
LEMMA MinIsLeast ==
  ASSUME NEW T, T \subseteq Nat, T # {}
  PROVE  Min(T) \in T /\ \A y \in T : Min(T) <= y
<1> DEFINE Less == {ss \in Nat \X Nat : ss[1] < ss[2]}
<1>1. OpToRel(<, Nat) = Less
  BY Zenon DEF OpToRel
<1>2. \E x \in T : \A y \in T : <<y, x>> \notin OpToRel(<, Nat)
  BY NatLessThanWellFounded, WFMin
<1>3. PICK x \in T : \A y \in T : <<y, x>> \notin Less
  BY <1>1, <1>2
<1>4. ASSUME NEW y \in T PROVE x <= y
  <2>1. x \in Nat /\ y \in Nat
    OBVIOUS
  <2>2. y < x => <<y, x>> \in Less
    BY <2>1
  <2> HIDE DEF Less
  <2> QED BY <1>3, <2>1, <2>2
<1> QED BY <1>4 DEF Min

\* Capping a buffer keeps its newest events, as many as fit.
LEMMA CappedKeepsTheNewest ==
  ASSUME NEW S, NEW s \in Seq(S), NEW t \in Seq(S), NEW e \in S, IsTail(s, t)
  PROVE  /\ Capped(Append(s, e)) \in Seq(S) /\ Capped(Append(s, e)) # << >>
         /\ IsTail(Capped(Append(s, e)), Append(t, e))
         /\ IsWhole(s, t) => IsWhole(Capped(Append(s, e)), Append(t, e))
<1> DEFINE n == Len(s) m == Len(t) u == Append(s, e) v == Append(t, e)
<1>1. /\ n \in Nat /\ m \in Nat /\ n <= m /\ \A k \in 1..n : s[k] = t[m - n + k]
      /\ u \in Seq(S) /\ Len(u) = n + 1 /\ Len(v) = m + 1 /\ u[n + 1] = e /\ v[m + 1] = e
      /\ \A k \in 1..n : u[k] = s[k]
      /\ \A k \in 1..m : v[k] = t[k]
      /\ MaxBuffered \in Nat /\ MaxBuffered >= 1
  BY LimitsAssumption DEF IsTail
<1> DEFINE x == Tail(u)
<1>2. x \in Seq(S) /\ Len(x) = n /\ \A k \in 1..n : x[k] = u[k + 1]
  BY <1>1
<1> HIDE DEF u, v, n, m, x
<1>3. \A k \in 1..(n + 1) : u[k] = v[m - n + k]
  <2> TAKE k \in 1..(n + 1)
  <2>1. CASE k = n + 1
    BY <1>1, <2>1
  <2>2. CASE k # n + 1
    <3>1. k \in 1..n /\ m - n + k \in 1..m
      BY <1>1, <2>2
    <3> QED BY <1>1, <3>1
  <2> QED BY <2>1, <2>2
<1>4. CASE n + 1 > MaxBuffered
  <2>1. Capped(u) = x
    BY <1>1, <1>4 DEF Capped, x
  <2>2. \A k \in 1..n : x[k] = v[(m + 1) - n + k]
    <3> TAKE k \in 1..n
    <3>1. k + 1 \in 1..(n + 1) /\ m - n + (k + 1) = (m + 1) - n + k
      BY <1>1
    <3> QED BY <1>2, <1>3, <3>1
  <2>3. IsTail(x, v)
    BY <1>1, <1>2, <2>2 DEF IsTail
  <2>4. x # << >> /\ Len(x) >= MaxBuffered
    BY <1>1, <1>2, <1>4
  <2>5. IsWhole(x, v)
    BY <2>3, <2>4 DEF IsWhole
  <2> QED BY <1>2, <2>1, <2>3, <2>4, <2>5 DEF u, v
<1>5. CASE ~(n + 1 > MaxBuffered)
  <2>1. Capped(u) = u
    BY <1>1, <1>5 DEF Capped
  <2>2. IsTail(u, v)
    BY <1>1, <1>3 DEF IsTail
  <2>3. IsWhole(s, t) => IsWhole(u, v)
    BY <1>1, <1>5, <2>2 DEF IsWhole, n, m
  <2>4. u # << >>
    BY <1>1
  <2> QED BY <1>1, <2>1, <2>2, <2>3, <2>4 DEF u, v
<1> QED BY <1>1, <1>4, <1>5

\* The buffers that are left after an eviction were there before, and those somebody
\* listens to are left.
LEMMA EvictionFacts ==
  ASSUME NEW b \in Bus
  PROVE  LET c == EvictIfNeeded(b) IN
         /\ c \in Bus /\ c.seq = b.seq /\ c.listeners = b.listeners
         /\ \A i \in DOMAIN c.buffers : \E j \in DOMAIN b.buffers : c.buffers[i] = b.buffers[j]
         /\ \A j \in DOMAIN b.buffers : b.listeners[b.buffers[j].run] # {} =>
               \E i \in DOMAIN c.buffers : c.buffers[i] = b.buffers[j]
<1> DEFINE Unheard == {i \in DOMAIN b.buffers : b.listeners[b.buffers[i].run] = {}}
           k       == Min(Unheard)
           c       == EvictIfNeeded(b)
           s       == b.buffers
<1>1. s \in Seq(Buffer) /\ b = [seq |-> b.seq, buffers |-> s, listeners |-> b.listeners]
      /\ b.seq \in Nat /\ b.listeners \in [Runs -> SUBSET Listeners]
  BY DEF Bus
<1>2. CASE Len(s) < MaxTracked \/ Unheard = {}
  BY <1>1, <1>2 DEF EvictIfNeeded
<1>3. CASE ~(Len(s) < MaxTracked \/ Unheard = {})
  <2>1. k \in Unheard
    <3>1. Unheard \subseteq Nat /\ Unheard # {}
      BY <1>1, <1>3
    <3> HIDE DEF Unheard
    <3> QED BY <3>1, MinIsLeast
  <2> DEFINE n == Len(s)
  <2>2. n \in Nat /\ k \in 1..n /\ DOMAIN s = 1..n
    BY <1>1, <2>1
  <2>3. /\ c.buffers = RemoveAt(s, k) /\ c.seq = b.seq /\ c.listeners = b.listeners
        /\ c = [seq |-> b.seq, buffers |-> RemoveAt(s, k), listeners |-> b.listeners]
    BY <1>1, <1>3 DEF EvictIfNeeded
  <2> HIDE DEF k, c, s
  <2> DEFINE x == SubSeq(s, 1, k - 1) y == SubSeq(s, k + 1, n) z == x \o y
  <2>4. /\ x \in Seq(Buffer) /\ Len(x) = k - 1 /\ \A i \in 1..(k - 1) : x[i] = s[i]
        /\ y \in Seq(Buffer) /\ Len(y) = n - k /\ \A i \in 1..(n - k) : y[i] = s[k + i]
    <3>1. s \in Seq(Buffer) /\ Len(s) = n /\ n \in Nat /\ k \in 1..n
      BY <1>1, <2>2 DEF s
    <3> HIDE DEF n
    <3> QED BY <3>1
  <2> HIDE DEF x, y, n
  <2>5. /\ z \in Seq(Buffer) /\ Len(z) = n - 1
        /\ \A i \in 1..(k - 1) : z[i] = s[i]
        /\ \A i \in k..(n - 1) : z[i] = s[i + 1]
    <3>1. z \in Seq(Buffer) /\ Len(z) = n - 1
      BY <2>2, <2>4
    <3>2. ASSUME NEW i \in 1..(k - 1) PROVE z[i] = s[i]
      BY <2>2, <2>4
    <3>3. ASSUME NEW i \in k..(n - 1) PROVE z[i] = s[i + 1]
      <4>1. i - (k - 1) \in 1..(n - k) /\ k + (i - (k - 1)) = i + 1 /\ i > k - 1 /\ i <= n - 1
        BY <2>2
      <4>2. z[i] = y[i - (k - 1)]
        BY <2>2, <2>4, <4>1
      <4> QED BY <2>4, <4>1, <4>2
    <3> QED BY <3>1, <3>2, <3>3
  <2>6. RemoveAt(s, k) = z
    BY <1>1 DEF RemoveAt, x, y, n
  <2>7. c \in Bus
    BY <1>1, <2>3, <2>5, <2>6 DEF Bus
  <2> HIDE DEF z
  <2>8. c.buffers = z /\ DOMAIN c.buffers = 1..(n - 1)
    BY <2>3, <2>5, <2>6
  <2>9. ASSUME NEW i \in DOMAIN c.buffers PROVE \E j \in DOMAIN s : c.buffers[i] = s[j]
    <3>1. i \in 1..(n - 1)
      BY <2>8
    <3>2. CASE i < k
      <4>1. i \in 1..(k - 1) /\ i \in DOMAIN s
        BY <2>2, <3>1, <3>2
      <4> QED BY <2>5, <2>8, <4>1
    <3>3. CASE i >= k
      <4>1. i \in k..(n - 1) /\ i + 1 \in DOMAIN s
        BY <2>2, <3>1, <3>3
      <4> QED BY <2>5, <2>8, <4>1
    <3> QED BY <2>2, <3>1, <3>2, <3>3
  <2>10. ASSUME NEW j \in DOMAIN s, b.listeners[s[j].run] # {}
         PROVE  \E i \in DOMAIN c.buffers : c.buffers[i] = s[j]
    <3>1. j # k
      BY <2>1, <2>10 DEF s
    <3>2. CASE j < k
      <4>1. j \in 1..(k - 1) /\ j \in 1..(n - 1)
        BY <2>2, <3>2
      <4> QED BY <2>5, <2>8, <4>1
    <3>3. CASE j > k
      <4>1. j - 1 \in k..(n - 1) /\ j - 1 \in 1..(n - 1) /\ (j - 1) + 1 = j
        BY <2>2, <3>3
      <4> QED BY <2>5, <2>8, <4>1
    <3> QED BY <2>2, <3>1, <3>2, <3>3
  <2> QED BY <2>3, <2>7, <2>9, <2>10 DEF c, s
<1> QED BY <1>2, <1>3

\* What emitting an event does to the buffers: the one of its run has it last, the
\* others that somebody listens to are as they were.
LEMMA EmitFacts ==
  ASSUME NEW b \in Bus, NEW event \in RunEvent
  PROVE  LET c == Emit(b, event) e == Numbered(b, event) IN
         /\ e \in RunEvent /\ e = [event EXCEPT !.seq = b.seq]
         /\ c \in Bus /\ c.listeners = b.listeners /\ c.seq = b.seq + 1
         /\ \A i \in DOMAIN c.buffers :
              \/ \E j \in DOMAIN b.buffers : b.buffers[j].run # event.run /\ c.buffers[i] = b.buffers[j]
              \/ /\ c.buffers[i].run = event.run
                 /\ \/ /\ ~ IsBuffered(b, event.run)
                       /\ c.buffers[i].events = Capped(Append(<< >>, e))
                    \/ \E j \in DOMAIN b.buffers :
                         /\ b.buffers[j].run = event.run
                         /\ c.buffers[i].events = Capped(Append(b.buffers[j].events, e))
         /\ IsBuffered(c, event.run)
         /\ \A r \in Runs : b.listeners[r] # {} /\ IsBuffered(b, r) => IsBuffered(c, r)
<1> DEFINE x == EvictIfNeeded(b)
           r == event.run
           e == Numbered(b, event)
           d == Track(b, r)
           c == Emit(b, event)
<1>1. /\ e \in RunEvent /\ e = [event EXCEPT !.seq = b.seq] /\ r \in Runs /\ b.seq \in Nat
      /\ b.buffers \in Seq(Buffer) /\ b.listeners \in [Runs -> SUBSET Listeners]
  BY DEF Bus, RunEvent, Numbered
<1>2. /\ x \in Bus /\ x.seq = b.seq /\ x.listeners = b.listeners
      /\ \A i \in DOMAIN x.buffers : \E j \in DOMAIN b.buffers : x.buffers[i] = b.buffers[j]
      /\ \A j \in DOMAIN b.buffers : b.listeners[b.buffers[j].run] # {} =>
            \E i \in DOMAIN x.buffers : x.buffers[i] = b.buffers[j]
  BY EvictionFacts
<1>3. /\ c = [d EXCEPT !.seq = @ + 1, !.buffers = [i \in DOMAIN @ |-> Hold(@[i], e)]]
      /\ d = IF IsBuffered(b, r) THEN b
             ELSE [x EXCEPT !.buffers = Append(@, [run |-> r, events |-> << >>])]
  BY DEF Emit, Track
<1>a. e.run = r
  BY <1>1 DEF RunEvent
<1> HIDE DEF x, e, r, d
<1>4. /\ d \in Bus /\ d.seq = b.seq /\ d.listeners = b.listeners
      /\ \A i \in DOMAIN d.buffers :
           \/ ~ IsBuffered(b, r) /\ d.buffers[i] = [run |-> r, events |-> << >>]
           \/ \E j \in DOMAIN b.buffers : d.buffers[i] = b.buffers[j]
      /\ IsBuffered(d, r)
      /\ \A q \in Runs : b.listeners[q] # {} /\ IsBuffered(b, q) => IsBuffered(d, q)
  <2>1. CASE IsBuffered(b, r)
    BY <1>3, <2>1
  <2>2. CASE ~ IsBuffered(b, r)
    <3> DEFINE new == [run |-> r, events |-> << >>] n == Len(x.buffers)
    <3>1. /\ x.buffers \in Seq(Buffer) /\ n \in Nat /\ new \in Buffer
          /\ d = [seq |-> b.seq, buffers |-> Append(x.buffers, new), listeners |-> b.listeners]
      <4>1. new \in Buffer
        BY <1>1 DEF Buffer
      <4>2. /\ x.buffers \in Seq(Buffer)
            /\ x = [seq |-> b.seq, buffers |-> x.buffers, listeners |-> b.listeners]
        BY <1>2 DEF Bus
      <4>3. d = [x EXCEPT !.buffers = Append(@, new)]
        BY <1>3, <2>2
      <4>5. n \in Nat
        BY <4>2
      <4> HIDE DEF new, n
      <4> DEFINE more == Append(x.buffers, new)
      <4>6. d = [x EXCEPT !.buffers = more]
        BY <4>3
      <4> HIDE DEF more
      <4>7. d = [seq |-> b.seq, buffers |-> more, listeners |-> b.listeners]
        BY <4>2, <4>6
      <4>4. d = [seq |-> b.seq, buffers |-> Append(x.buffers, new), listeners |-> b.listeners]
        BY <4>7 DEF more
      <4> QED BY <4>1, <4>2, <4>4, <4>5
    <3> HIDE DEF new, n
    <3>2. /\ d.buffers \in Seq(Buffer) /\ DOMAIN d.buffers = 1..(n + 1) /\ d.buffers[n + 1] = new
          /\ DOMAIN x.buffers = 1..n /\ \A i \in 1..n : d.buffers[i] = x.buffers[i]
      BY <3>1 DEF n
    <3>3. d \in Bus /\ d.seq = b.seq /\ d.listeners = b.listeners
      BY <1>1, <3>1, <3>2 DEF Bus
    <3>4. \A i \in DOMAIN d.buffers :
            d.buffers[i] = new \/ \E j \in DOMAIN b.buffers : d.buffers[i] = b.buffers[j]
      <4> TAKE i \in DOMAIN d.buffers
      <4>1. i = n + 1 \/ i \in 1..n
        BY <3>1, <3>2
      <4> QED BY <1>2, <3>2, <4>1
    <3>5. IsBuffered(d, r)
      <4>1. n + 1 \in DOMAIN d.buffers /\ d.buffers[n + 1].run = r
        BY <3>1, <3>2 DEF new
      <4> QED BY <4>1 DEF IsBuffered
    <3>6. ASSUME NEW q \in Runs, b.listeners[q] # {}, IsBuffered(b, q) PROVE IsBuffered(d, q)
      <4>1. PICK j \in DOMAIN b.buffers : b.buffers[j].run = q
        BY <3>6 DEF IsBuffered
      <4>2. PICK i \in DOMAIN x.buffers : x.buffers[i] = b.buffers[j]
        BY <1>2, <3>6, <4>1
      <4>3. i \in DOMAIN d.buffers /\ d.buffers[i] = x.buffers[i]
        BY <3>1, <3>2
      <4> QED BY <4>1, <4>2, <4>3 DEF IsBuffered
    <3> QED BY <2>2, <3>3, <3>4, <3>5, <3>6 DEF new
  <2> QED BY <2>1, <2>2
<1>5. /\ d.buffers \in Seq(Buffer) /\ d = [seq |-> d.seq, buffers |-> d.buffers, listeners |-> d.listeners]
      /\ DOMAIN d.buffers = 1..Len(d.buffers)
  BY <1>4 DEF Bus
<1>6. /\ c.seq = b.seq + 1 /\ c.listeners = b.listeners
      /\ c.buffers = [i \in DOMAIN d.buffers |-> Hold(d.buffers[i], e)]
      /\ c = [seq |-> c.seq, buffers |-> c.buffers, listeners |-> c.listeners]
  BY <1>3, <1>4, <1>5
<1>7. ASSUME NEW f \in Buffer
      PROVE  /\ Hold(f, e) \in Buffer /\ Hold(f, e).run = f.run
             /\ f.run # r => Hold(f, e) = f
             /\ f.run = r => Hold(f, e).events = Capped(Append(f.events, e))
  <2>1. f.events \in Seq(RunEvent) /\ f = [run |-> f.run, events |-> f.events] /\ f.run \in Runs
    BY DEF Buffer
  <2>2. IsTail(f.events, f.events)
    BY <2>1 DEF IsTail
  <2>3. Capped(Append(f.events, e)) \in Seq(RunEvent)
    BY <1>1, <2>1, <2>2, CappedKeepsTheNewest
  <2> QED BY <1>a, <2>1, <2>3 DEF Buffer, Hold
<1> HIDE DEF c
<1>8. c.buffers \in Seq(Buffer) /\ DOMAIN c.buffers = DOMAIN d.buffers
      /\ \A i \in DOMAIN d.buffers : d.buffers[i] \in Buffer /\ c.buffers[i] = Hold(d.buffers[i], e)
  <2> DEFINE s == d.buffers t == c.buffers
  <2>1. s \in Seq(Buffer) /\ t = [i \in DOMAIN s |-> Hold(s[i], e)]
    BY <1>5, <1>6
  <2> HIDE DEF s, t
  <2>2. \A i \in DOMAIN s : s[i] \in Buffer /\ t[i] = Hold(s[i], e) /\ Hold(s[i], e) \in Buffer
    BY <1>7, <2>1
  <2>3. DOMAIN s = 1..Len(s) /\ Len(s) \in Nat
    BY <2>1
  <2>4. t \in [1..Len(s) -> Buffer]
    BY <2>1, <2>2, <2>3
  <2>5. t \in Seq(Buffer) /\ DOMAIN t = DOMAIN s
    BY <2>3, <2>4
  <2> QED BY <2>2, <2>5 DEF s, t
<1>9. c \in Bus
  <2>1. b.seq + 1 \in Nat
    BY <1>1
  <2> QED BY <1>1, <1>6, <1>8, <2>1 DEF Bus
<1>10. ASSUME NEW i \in DOMAIN c.buffers
       PROVE  \/ \E j \in DOMAIN b.buffers : b.buffers[j].run # r /\ c.buffers[i] = b.buffers[j]
              \/ /\ c.buffers[i].run = r
                 /\ \/ ~ IsBuffered(b, r) /\ c.buffers[i].events = Capped(Append(<< >>, e))
                    \/ \E j \in DOMAIN b.buffers :
                         b.buffers[j].run = r /\ c.buffers[i].events = Capped(Append(b.buffers[j].events, e))
  <2>1. d.buffers[i] \in Buffer /\ c.buffers[i] = Hold(d.buffers[i], e)
    BY <1>8
  <2> DEFINE f == d.buffers[i] g == c.buffers[i]
  <2>2. CASE ~ IsBuffered(b, r) /\ f = [run |-> r, events |-> << >>]
    <3>1. f.run = r /\ f.events = << >>
      BY <2>2
    <3> HIDE DEF f, g
    <3>2. f \in Buffer /\ g = Hold(f, e)
      BY <2>1 DEF f, g
    <3> QED BY <1>7, <2>2, <3>1, <3>2 DEF g
  <2>3. CASE \E j \in DOMAIN b.buffers : f = b.buffers[j]
    <3>1. PICK j \in DOMAIN b.buffers : f = b.buffers[j]
      BY <2>3
    <3> HIDE DEF f, g
    <3>2. f \in Buffer /\ g = Hold(f, e)
      BY <2>1 DEF f, g
    <3> QED BY <1>7, <3>1, <3>2 DEF g
  <2> QED BY <1>4, <1>8, <2>2, <2>3
<1>11. ASSUME NEW q \in Runs, IsBuffered(d, q) PROVE IsBuffered(c, q)
  <2>1. PICK i \in DOMAIN d.buffers : d.buffers[i].run = q
    BY <1>11 DEF IsBuffered
  <2>2. c.buffers[i].run = d.buffers[i].run /\ i \in DOMAIN c.buffers
    BY <1>7, <1>8
  <2> QED BY <2>1, <2>2 DEF IsBuffered
<1> QED BY <1>1, <1>4, <1>6, <1>9, <1>10, <1>11 DEF c, e, r

-----------------------------------------------------------------------------
(* Emissions                                                                  *)

Sent(v, event)  == Numbered(v.bus, event)
Heard(v, event) == [kind |-> "event", run |-> event.run, event |-> Sent(v, event)]

\* What emitting one event changes.
LEMMA OneEvent ==
  ASSUME NEW v \in Worlds, NEW event \in RunEvent
  PROVE  LET r == event.run e == Sent(v, event) out == PublishOne(v, event) IN
         /\ out \in Worlds /\ e \in RunEvent /\ e = [event EXCEPT !.seq = v.bus.seq] /\ r \in Runs
         /\ out.bus.buffers = Emit(v.bus, event).buffers
         /\ \A q \in Runs : out.bus.listeners[q] =
              (IF Over(event) /\ q = r THEN v.bus.listeners[r] \ Watchers ELSE v.bus.listeners[q])
         /\ out.log = [v.log EXCEPT ![r] = Append(@, e)]
         /\ out.queue = (IF "service" \in v.bus.listeners[r] THEN Append(v.queue, Heard(v, event))
                         ELSE v.queue)
         /\ \A w \in Watchers :
              /\ out.wire[w] = (IF w \in v.bus.listeners[r] /\ client[w].phase = "live"
                                THEN Append(v.wire[w], e) ELSE v.wire[w])
              /\ out.served[w] = (IF w \in v.bus.listeners[r] /\ Over(event) THEN "ended"
                                  ELSE v.served[w])
<1> DEFINE r     == event.run
           e     == Sent(v, event)
           out   == PublishOne(v, event)
           hears == {w \in Watchers : Listens(v.bus, w, r)}
           after == Emit(v.bus, event)
           m     == Heard(v, event)
<1>1. /\ v.bus \in Bus /\ v.queue \in Seq(Message) /\ v.log \in [Runs -> Seq(RunEvent)]
      /\ v.wire \in [Watchers -> Seq(RunEvent)] /\ v.served \in [Watchers -> {"none", "open", "ended"}]
  BY DEF Worlds
<1>2. /\ e \in RunEvent /\ e = [event EXCEPT !.seq = v.bus.seq] /\ r \in Runs
      /\ after \in Bus /\ after.listeners = v.bus.listeners
  BY <1>1, EmitFacts DEF RunEvent, Sent
<1>3. hears = v.bus.listeners[r] \cap Watchers
  BY DEF Listens
<1>4. m \in Message
  BY <1>2 DEF Heard, Message
<1>5. /\ out.bus = (IF Over(event) THEN [after EXCEPT !.listeners[r] = @ \ hears] ELSE after)
      /\ out.queue = (IF Listens(v.bus, "service", r) THEN Append(v.queue, m) ELSE v.queue)
      /\ out.log = [v.log EXCEPT ![r] = Append(@, e)]
      /\ out.wire = [w \in Watchers |-> IF w \in hears /\ client[w].phase = "live"
                                        THEN Append(v.wire[w], e) ELSE v.wire[w]]
      /\ out.served = [w \in Watchers |-> IF w \in hears /\ Over(event) THEN "ended" ELSE v.served[w]]
      /\ out = [bus |-> out.bus, queue |-> out.queue, log |-> out.log, wire |-> out.wire, served |-> out.served]
  BY DEF PublishOne, Sent, Heard
<1> HIDE DEF out, after, e, m, hears, r
<1>6. /\ out.bus \in Bus /\ out.bus.buffers = after.buffers
      /\ \A q \in Runs : out.bus.listeners[q] =
           (IF Over(event) /\ q = r THEN v.bus.listeners[r] \ Watchers ELSE v.bus.listeners[q])
  <2>1. CASE Over(event)
    <3> DEFINE ls == [after.listeners EXCEPT ![r] = @ \ hears]
    <3>1. /\ after = [seq |-> after.seq, buffers |-> after.buffers, listeners |-> after.listeners]
          /\ after.seq \in Nat /\ after.buffers \in Seq(Buffer) /\ after.listeners \in [Runs -> SUBSET Listeners]
      BY <1>2 DEF Bus
    <3>2. ls \in [Runs -> SUBSET Listeners]
      BY <1>2, <3>1
    <3>3. \A q \in Runs : ls[q] = (IF q = r THEN v.bus.listeners[r] \ Watchers ELSE v.bus.listeners[q])
      BY <1>2, <1>3, <3>1 DEF Listeners
    <3>4. out.bus = [after EXCEPT !.listeners = ls]
      BY <1>5, <2>1
    <3> HIDE DEF ls
    <3>5. out.bus = [seq |-> after.seq, buffers |-> after.buffers, listeners |-> ls]
      BY <3>1, <3>4
    <3> QED BY <2>1, <3>1, <3>2, <3>3, <3>5 DEF Bus
  <2>2. CASE ~ Over(event)
    BY <1>2, <1>5, <2>2
  <2> QED BY <2>1, <2>2
<1>7. out.queue \in Seq(Message)
  BY <1>1, <1>4, <1>5
<1>8. out.log \in [Runs -> Seq(RunEvent)]
  BY <1>1, <1>2, <1>5
<1>9. /\ out.wire \in [Watchers -> Seq(RunEvent)]
      /\ \A w \in Watchers : out.wire[w] = IF w \in v.bus.listeners[r] /\ client[w].phase = "live"
                                           THEN Append(v.wire[w], e) ELSE v.wire[w]
  BY <1>1, <1>2, <1>3, <1>5
<1>10. /\ out.served \in [Watchers -> {"none", "open", "ended"}]
       /\ \A w \in Watchers : out.served[w] = IF w \in v.bus.listeners[r] /\ Over(event) THEN "ended"
                                              ELSE v.served[w]
  BY <1>1, <1>3, <1>5
<1>11. out \in Worlds
  BY <1>5, <1>6, <1>7, <1>8, <1>9, <1>10 DEF Worlds
<1> QED BY <1>2, <1>5, <1>6, <1>9, <1>10, <1>11 DEF Listens, out, after, e, m, r

\* Buffers keep the newest events of their runs.
LEMMA OneEventBuffered ==
  ASSUME NEW v \in Worlds, NEW event \in RunEvent, Buffered(v)
  PROVE  Buffered(PublishOne(v, event))
<1> DEFINE r   == event.run
           e   == Sent(v, event)
           out == PublishOne(v, event)
           bs  == v.bus.buffers
           cs  == out.bus.buffers
<1>1. /\ out \in Worlds /\ e \in RunEvent /\ r \in Runs /\ cs = Emit(v.bus, event).buffers
      /\ out.log = [v.log EXCEPT ![r] = Append(@, e)]
      /\ v.bus \in Bus /\ bs \in Seq(Buffer) /\ v.log \in [Runs -> Seq(RunEvent)]
      /\ \A q \in Runs : "service" \in out.bus.listeners[q] <=> "service" \in v.bus.listeners[q]
  <2>1. v.bus \in Bus /\ bs \in Seq(Buffer) /\ v.log \in [Runs -> Seq(RunEvent)]
    BY DEF Worlds, Bus
  <2>2. /\ out \in Worlds /\ e \in RunEvent /\ r \in Runs /\ cs = Emit(v.bus, event).buffers
        /\ out.log = [v.log EXCEPT ![r] = Append(@, e)]
        /\ \A q \in Runs : out.bus.listeners[q] =
             (IF Over(event) /\ q = r THEN v.bus.listeners[r] \ Watchers ELSE v.bus.listeners[q])
    BY OneEvent
  <2> HIDE DEF out, bs, cs, e, r
  <2>3. \A q \in Runs : "service" \in out.bus.listeners[q] <=> "service" \in v.bus.listeners[q]
    BY <2>2, ScenariosAssumption
  <2> QED BY <2>1, <2>2, <2>3
<1>2. /\ \A i \in DOMAIN cs :
           \/ \E j \in DOMAIN bs : bs[j].run # r /\ cs[i] = bs[j]
           \/ /\ cs[i].run = r
              /\ \/ ~ IsBuffered(v.bus, r) /\ cs[i].events = Capped(Append(<< >>, e))
                 \/ \E j \in DOMAIN bs : bs[j].run = r /\ cs[i].events = Capped(Append(bs[j].events, e))
      /\ IsBuffered(out.bus, r)
      /\ \A q \in Runs : v.bus.listeners[q] # {} /\ IsBuffered(v.bus, q) => IsBuffered(out.bus, q)
  <2> DEFINE c == Emit(v.bus, event)
  <2>1. v.bus \in Bus /\ c.buffers = cs
    BY <1>1
  <2>2. /\ \A i \in DOMAIN c.buffers :
             \/ \E j \in DOMAIN bs : bs[j].run # r /\ c.buffers[i] = bs[j]
             \/ /\ c.buffers[i].run = r
                /\ \/ ~ IsBuffered(v.bus, r) /\ c.buffers[i].events = Capped(Append(<< >>, e))
                   \/ \E j \in DOMAIN bs :
                        bs[j].run = r /\ c.buffers[i].events = Capped(Append(bs[j].events, e))
        /\ IsBuffered(c, r)
        /\ \A q \in Runs : v.bus.listeners[q] # {} /\ IsBuffered(v.bus, q) => IsBuffered(c, q)
    BY <2>1, EmitFacts DEF Sent
  <2> HIDE DEF c
  <2>3. \A q : IsBuffered(c, q) <=> IsBuffered(out.bus, q)
    BY <2>1 DEF IsBuffered
  <2> QED BY <1>1, <2>1, <2>2, <2>3
<1>3. /\ \A j \in DOMAIN bs : /\ bs[j].events # << >> /\ IsTail(bs[j].events, v.log[bs[j].run])
                              /\ "service" \in v.bus.listeners[bs[j].run] =>
                                    IsWhole(bs[j].events, v.log[bs[j].run])
                              /\ bs[j] \in Buffer
      /\ \A q \in Runs : "service" \in v.bus.listeners[q] => v.log[q] = << >> \/ IsBuffered(v.bus, q)
  BY <1>1 DEF Buffered
<1> HIDE DEF out, bs, cs, e, r
<1>4. ASSUME NEW i \in DOMAIN cs
      PROVE  /\ cs[i].events # << >> /\ IsTail(cs[i].events, out.log[cs[i].run])
             /\ "service" \in out.bus.listeners[cs[i].run] => IsWhole(cs[i].events, out.log[cs[i].run])
  <2>1. CASE \E j \in DOMAIN bs : bs[j].run # r /\ cs[i] = bs[j]
    <3>1. PICK j \in DOMAIN bs : bs[j].run # r /\ cs[i] = bs[j]
      BY <2>1
    <3>2. bs[j].run \in Runs /\ out.log[bs[j].run] = v.log[bs[j].run]
      BY <1>1, <1>3, <3>1 DEF Buffer
    <3> QED BY <1>1, <1>3, <3>1, <3>2
  <2>2. CASE /\ cs[i].run = r
             /\ ~ IsBuffered(v.bus, r) /\ cs[i].events = Capped(Append(<< >>, e))
    <3>1. v.log[r] \in Seq(RunEvent) /\ << >> \in Seq(RunEvent) /\ out.log[r] = Append(v.log[r], e)
      BY <1>1
    <3>2. IsTail(<< >>, v.log[r])
      <4>1. Len(v.log[r]) \in Nat
        BY <3>1
      <4> QED BY <4>1 DEF IsTail
    <3>3. "service" \in v.bus.listeners[r] => IsWhole(<< >>, v.log[r])
      BY <1>1, <1>3, <2>2, <3>2 DEF IsWhole
    <3> DEFINE t == v.log[r] x == Capped(Append(<< >>, e))
    <3>4. /\ t \in Seq(RunEvent) /\ e \in RunEvent /\ IsTail(<< >>, t)
      BY <1>1, <3>1, <3>2
    <3> HIDE DEF t
    <3>5. /\ x # << >> /\ IsTail(x, Append(t, e))
          /\ IsWhole(<< >>, t) => IsWhole(x, Append(t, e))
      BY <3>1, <3>4, CappedKeepsTheNewest
    <3> HIDE DEF x
    <3> QED BY <1>1, <2>2, <3>1, <3>3, <3>5 DEF t, x
  <2>3. CASE \E j \in DOMAIN bs : bs[j].run = r /\ cs[i].run = r /\ cs[i].events = Capped(Append(bs[j].events, e))
    <3>1. PICK j \in DOMAIN bs : bs[j].run = r /\ cs[i].run = r /\ cs[i].events = Capped(Append(bs[j].events, e))
      BY <2>3
    <3>2. v.log[r] \in Seq(RunEvent) /\ bs[j].events \in Seq(RunEvent) /\ out.log[r] = Append(v.log[r], e)
      BY <1>1, <1>3 DEF Buffer
    <3>3. IsTail(bs[j].events, v.log[r]) /\ ("service" \in v.bus.listeners[r] => IsWhole(bs[j].events, v.log[r]))
      BY <1>3, <3>1
    <3> QED BY <1>1, <3>1, <3>2, <3>3, CappedKeepsTheNewest
  <2> QED BY <1>2, <2>1, <2>2, <2>3
<1>5. ASSUME NEW q \in Runs, "service" \in out.bus.listeners[q]
      PROVE  out.log[q] = << >> \/ IsBuffered(out.bus, q)
  BY <1>1, <1>2, <1>3, <1>5
<1> QED BY <1>4, <1>5 DEF Buffered, out, cs

\* A stretch of a log, and its newest part, stay so while the log grows at its end.
LEMMA LogGrows ==
  ASSUME NEW S, NEW s \in Seq(S), NEW t \in Seq(S), NEW e \in S
  PROVE  /\ IsStretch(s, t) => IsStretch(s, Append(t, e))
         /\ IsTail(s, t) => IsTail(Append(s, e), Append(t, e))
         /\ IsWhole(s, t) => IsWhole(Append(s, e), Append(t, e))
         /\ IsTail(s, t) => IsStretch(s, t)
<1> DEFINE n == Len(s) m == Len(t) u == Append(s, e) v == Append(t, e)
<1>1. /\ n \in Nat /\ m \in Nat /\ Len(u) = n + 1 /\ Len(v) = m + 1 /\ u[n + 1] = e /\ v[m + 1] = e
      /\ \A k \in 1..n : u[k] = s[k]
      /\ \A k \in 1..m : v[k] = t[k]
  OBVIOUS
<1> HIDE DEF u, v
<1>2. ASSUME IsStretch(s, t) PROVE IsStretch(s, v)
  <2>1. PICK i \in 0..(m - n) : n <= m /\ \A k \in 1..n : s[k] = t[i + k]
    BY <1>2 DEF IsStretch
  <2>2. \A k \in 1..n : i + k \in 1..m
    BY <1>1, <2>1
  <2>3. i \in 0..((m + 1) - n) /\ n <= m + 1 /\ \A k \in 1..n : s[k] = v[i + k]
    BY <1>1, <2>1, <2>2
  <2> QED BY <1>1, <2>3 DEF IsStretch
<1>3. ASSUME IsTail(s, t) PROVE IsTail(u, v)
  <2>1. n <= m /\ \A k \in 1..n : s[k] = t[m - n + k]
    BY <1>3 DEF IsTail
  <2>2. ASSUME NEW k \in 1..(n + 1) PROVE u[k] = v[(m + 1) - (n + 1) + k]
    <3>1. (m + 1) - (n + 1) + k = m - n + k
      BY <1>1
    <3>2. CASE k = n + 1
      BY <1>1, <2>1, <3>1, <3>2
    <3>3. CASE k # n + 1
      <4>1. k \in 1..n /\ m - n + k \in 1..m
        BY <1>1, <2>1, <3>3
      <4> QED BY <1>1, <2>1, <3>1, <4>1
    <3> QED BY <3>2, <3>3
  <2> QED BY <1>1, <2>1, <2>2 DEF IsTail
<1>4. ASSUME IsTail(s, t) PROVE IsStretch(s, t)
  <2>1. m - n \in 0..(m - n)
    BY <1>1, <1>4 DEF IsTail
  <2> QED BY <1>4, <2>1 DEF IsTail, IsStretch
<1>5. ASSUME IsWhole(s, t) PROVE IsWhole(u, v)
  <2>1. IsTail(u, v) /\ (n = m \/ n >= MaxBuffered)
    BY <1>3, <1>5 DEF IsWhole
  <2> QED BY <1>1, <2>1, LimitsAssumption DEF IsWhole
<1> QED BY <1>2, <1>3, <1>4, <1>5 DEF u, v

\* What is appended to the second part of a sequence is appended to the whole.
LEMMA ConcatAppend ==
  ASSUME NEW S, NEW x \in Seq(S), NEW y \in Seq(S), NEW e \in S
  PROVE  x \o Append(y, e) = Append(x \o y, e)
<1> DEFINE n == Len(x) m == Len(y) z == Append(y, e) u == x \o y a == x \o z b == Append(u, e)
<1>1. /\ n \in Nat /\ m \in Nat /\ Len(x) = n
      /\ z \in Seq(S) /\ Len(z) = m + 1 /\ z[m + 1] = e
      /\ \A i \in 1..m : z[i] = y[i]
      /\ u \in Seq(S) /\ Len(u) = n + m
      /\ \A i \in 1..n : u[i] = x[i]
      /\ \A i \in (n + 1)..(n + m) : u[i] = y[i - n]
  OBVIOUS
<1> HIDE DEF z, u, n, m
<1>2. /\ a \in Seq(S) /\ Len(a) = n + (m + 1)
      /\ \A i \in 1..n : a[i] = x[i]
      /\ \A i \in (n + 1)..(n + m + 1) : a[i] = z[i - n]
  BY <1>1
<1>3. /\ b \in Seq(S) /\ Len(b) = (n + m) + 1 /\ b[n + m + 1] = e
      /\ \A i \in 1..(n + m) : b[i] = u[i]
  BY <1>1
<1> HIDE DEF a, b
<1>4. ASSUME NEW i \in 1..(n + m + 1) PROVE a[i] = b[i]
  <2>1. CASE i \in 1..n
    BY <1>1, <1>2, <1>3, <2>1
  <2>2. CASE i \in (n + 1)..(n + m)
    <3>1. i - n \in 1..m /\ i \in (n + 1)..(n + m + 1) /\ i \in 1..(n + m)
      BY <1>1, <2>2
    <3> QED BY <1>1, <1>2, <1>3, <2>2, <3>1
  <2>3. CASE i = n + m + 1
    <3>1. i - n = m + 1 /\ i \in (n + 1)..(n + m + 1)
      BY <1>1, <2>3
    <3> QED BY <1>1, <1>2, <1>3, <2>3, <3>1
  <2> QED BY <1>1, <2>1, <2>2, <2>3
<1>5. Len(a) = n + m + 1 /\ Len(b) = n + m + 1
  BY <1>1, <1>2, <1>3
<1>6. a = b
  <2> DEFINE k == n + m + 1
  <2>1. a \in [1..k -> S] /\ b \in [1..k -> S]
    BY <1>2, <1>3, <1>5
  <2> HIDE DEF k
  <2>2. \A i \in 1..k : a[i] = b[i]
    BY <1>4 DEF k
  <2>3. a = [i \in 1..k |-> a[i]] /\ b = [i \in 1..k |-> b[i]]
    BY <2>1
  <2>4. [i \in 1..k |-> a[i]] = [i \in 1..k |-> b[i]]
    BY <2>2
  <2> QED BY <2>3, <2>4
<1> QED BY <1>6 DEF a, b, u, z

\* What is under way to a client stays the newest of its run's events.
LEMMA OneEventStreams ==
  ASSUME NEW v \in Worlds, NEW event \in RunEvent, Streaming(v), got \in [Watchers -> Seq(RunEvent)]
  PROVE  Streaming(PublishOne(v, event))
<1> DEFINE r   == event.run
           e   == Sent(v, event)
           out == PublishOne(v, event)
<1>1. /\ out \in Worlds /\ e \in RunEvent /\ r \in Runs
      /\ \A q \in Runs : out.bus.listeners[q] =
           (IF Over(event) /\ q = r THEN v.bus.listeners[r] \ Watchers ELSE v.bus.listeners[q])
      /\ out.log = [v.log EXCEPT ![r] = Append(@, e)]
      /\ \A w \in Watchers :
           /\ out.wire[w] = (IF w \in v.bus.listeners[r] /\ client[w].phase = "live"
                             THEN Append(v.wire[w], e) ELSE v.wire[w])
           /\ out.served[w] = (IF w \in v.bus.listeners[r] /\ Over(event) THEN "ended"
                               ELSE v.served[w])
  BY OneEvent
<1>2. v.log \in [Runs -> Seq(RunEvent)] /\ v.wire \in [Watchers -> Seq(RunEvent)]
  BY DEF Worlds
<1> HIDE DEF r, e, out
<1> SUFFICES ASSUME NEW w \in Watchers
             PROVE  /\ \A q \in Runs : w \in out.bus.listeners[q] => client[w].run = q /\ out.served[w] = "open"
                    /\ client[w].phase \in {"idle", "opening"} => got[w] = << >> /\ out.served[w] = "none"
                    /\ client[w].phase # "idle" => client[w].run \in Runs
                    /\ client[w].phase = "live" => IsStretch(Shipped(out, w), out.log[client[w].run])
                    /\ client[w].phase = "live" /\ out.served[w] = "open" =>
                         /\ w \in out.bus.listeners[client[w].run]
                         /\ IsWhole(Shipped(out, w), out.log[client[w].run])
  BY DEF Streaming, StreamsTo, out
<1>3. /\ \A q \in Runs : w \in v.bus.listeners[q] => client[w].run = q /\ v.served[w] = "open"
      /\ client[w].phase \in {"idle", "opening"} => got[w] = << >> /\ v.served[w] = "none"
      /\ client[w].phase # "idle" => client[w].run \in Runs
      /\ client[w].phase = "live" => IsStretch(Shipped(v, w), v.log[client[w].run])
      /\ client[w].phase = "live" /\ v.served[w] = "open" =>
           /\ w \in v.bus.listeners[client[w].run]
           /\ IsWhole(Shipped(v, w), v.log[client[w].run])
  BY DEF Streaming, StreamsTo
<1>4. ASSUME NEW q \in Runs, w \in out.bus.listeners[q]
      PROVE  client[w].run = q /\ out.served[w] = "open"
  <2>1. w \in v.bus.listeners[q]
    BY <1>1, <1>4
  <2>2. client[w].run = q /\ v.served[w] = "open"
    BY <1>3, <2>1
  <2>3. ~ (w \in v.bus.listeners[r] /\ Over(event))
    BY <1>1, <1>3, <1>4, <2>2
  <2> QED BY <1>1, <2>2, <2>3
<1>5. client[w].phase \in {"idle", "opening"} => out.served[w] = "none"
  BY <1>1, <1>3
<1> DEFINE c == client[w].run
<1>6. ASSUME client[w].phase = "live", w \in v.bus.listeners[r]
      PROVE  /\ IsStretch(Shipped(out, w), out.log[c])
             /\ IsWhole(Shipped(out, w), out.log[c])
  <2> DEFINE s == Shipped(v, w) t == v.log[r]
  <2>1. c = r /\ v.served[w] = "open" /\ IsWhole(s, t)
    BY <1>1, <1>3, <1>6
  <2>2. s \in Seq(RunEvent) /\ t \in Seq(RunEvent)
    BY <1>1, <1>2 DEF Shipped
  <2>3. Shipped(out, w) = Append(s, e)
    <3>1. out.wire[w] = Append(v.wire[w], e) /\ got[w] \in Seq(RunEvent) /\ v.wire[w] \in Seq(RunEvent)
      BY <1>1, <1>2, <1>6
    <3> QED BY <1>1, <3>1, ConcatAppend DEF Shipped
  <2>4. out.log[c] = Append(t, e)
    BY <1>1, <1>2, <2>1
  <2> HIDE DEF s, t
  <2>5. IsWhole(Append(s, e), Append(t, e))
    BY <1>1, <2>1, <2>2, LogGrows
  <2>6. IsStretch(Append(s, e), Append(t, e))
    BY <1>1, <2>2, <2>5, LogGrows, Append(s, e) \in Seq(RunEvent), Append(t, e) \in Seq(RunEvent) DEF IsWhole
  <2> QED BY <2>3, <2>4, <2>5, <2>6
<1>7. ASSUME client[w].phase = "live", w \notin v.bus.listeners[r]
      PROVE  /\ IsStretch(Shipped(out, w), out.log[c])
             /\ v.served[w] = "open" => c # r
  <2> DEFINE s == Shipped(v, w)
  <2>1. Shipped(out, w) = s
    BY <1>1, <1>7 DEF Shipped
  <2>2. s \in Seq(RunEvent) /\ c \in Runs
    BY <1>2, <1>3, <1>7 DEF Shipped
  <2>3. IsStretch(s, v.log[c])
    BY <1>3, <1>7
  <2>4. CASE c = r
    <3>1. out.log[c] = Append(v.log[c], e) /\ v.log[c] \in Seq(RunEvent)
      BY <1>1, <1>2, <2>4
    <3>2. v.served[w] # "open"
      BY <1>3, <1>7, <2>4
    <3> DEFINE t == v.log[c]
    <3>3. t \in Seq(RunEvent) /\ IsStretch(s, t)
      BY <2>3, <3>1
    <3> HIDE DEF s, t
    <3>4. IsStretch(s, Append(t, e))
      BY <1>1, <2>2, <3>3, LogGrows
    <3> QED BY <2>1, <3>1, <3>2, <3>4 DEF t
  <2>5. CASE c # r
    <3>1. out.log[c] = v.log[c]
      BY <1>1, <1>2, <2>2, <2>5
    <3> QED BY <2>1, <2>3, <2>5, <3>1
  <2> QED BY <2>4, <2>5
<1>8. ASSUME client[w].phase = "live", out.served[w] = "open"
      PROVE  w \in out.bus.listeners[c] /\ IsWhole(Shipped(out, w), out.log[c])
  <2>1. v.served[w] = "open" /\ ~ (w \in v.bus.listeners[r] /\ Over(event)) /\ c \in Runs
    BY <1>1, <1>3, <1>8
  <2>2. w \in v.bus.listeners[c] /\ IsWhole(Shipped(v, w), v.log[c])
    BY <1>3, <1>8, <2>1
  <2>3. w \in out.bus.listeners[c]
    BY <1>1, <2>1, <2>2
  <2>4. CASE c = r
    BY <1>6, <1>8, <2>2, <2>3, <2>4
  <2>5. CASE c # r
    <3>1. w \notin v.bus.listeners[r] /\ out.log[c] = v.log[c]
      BY <1>1, <1>2, <1>3, <2>1, <2>5
    <3>2. Shipped(out, w) = Shipped(v, w)
      BY <1>1, <3>1 DEF Shipped
    <3> QED BY <2>2, <2>3, <3>1, <3>2
  <2> QED BY <2>4, <2>5
<1> QED BY <1>3, <1>4, <1>5, <1>6, <1>7, <1>8

\* What emitting for a run leaves alone, and what it adds: E is what the events say.
Says(event)   == [stage |-> event.stage, severity |-> event.severity]
LogGrown(a, b, r, E) ==
  /\ \A q \in Runs : q # r => b[q] = a[q]
  /\ Len(b[r]) >= Len(a[r])
  /\ \A i \in 1..Len(a[r]) : b[r][i] = a[r][i]
  /\ \A i \in (Len(a[r]) + 1)..Len(b[r]) : Says(b[r][i]) \in E
QueueGrown(a, b, r, E) ==
  /\ Len(b) >= Len(a)
  /\ \A i \in 1..Len(a) : b[i] = a[i]
  /\ \A i \in (Len(a) + 1)..Len(b) : b[i].kind = "event" /\ b[i].run = r /\ Says(b[i].event) \in E
Grown(u, v, r, E) ==
  /\ LogGrown(u.log, v.log, r, E) /\ QueueGrown(u.queue, v.queue, r, E)
  /\ \A q \in Runs : "service" \in v.bus.listeners[q] <=> "service" \in u.bus.listeners[q]

\* Growth of growth is growth.
LEMMA GrowthAdds ==
  ASSUME NEW u \in Worlds, NEW v \in Worlds, NEW w \in Worlds, NEW r \in Runs, NEW E,
         Grown(u, v, r, E), Grown(v, w, r, E)
  PROVE  Grown(u, w, r, E)
<1>1. /\ u.log[r] \in Seq(RunEvent) /\ v.log[r] \in Seq(RunEvent) /\ w.log[r] \in Seq(RunEvent)
      /\ u.queue \in Seq(Message) /\ v.queue \in Seq(Message) /\ w.queue \in Seq(Message)
  BY DEF Worlds
<1> DEFINE a == Len(u.log[r]) b == Len(v.log[r]) c == Len(w.log[r])
           k == Len(u.queue) l == Len(v.queue) m == Len(w.queue)
<1>2. a \in Nat /\ b \in Nat /\ c \in Nat /\ k \in Nat /\ l \in Nat /\ m \in Nat
  BY <1>1
<1>3. /\ \A q \in Runs : q # r => v.log[q] = u.log[q]
      /\ b >= a /\ l >= k
      /\ \A i \in 1..a : v.log[r][i] = u.log[r][i]
      /\ \A i \in (a + 1)..b : Says(v.log[r][i]) \in E
      /\ \A i \in 1..k : v.queue[i] = u.queue[i]
      /\ \A i \in (k + 1)..l : v.queue[i].kind = "event" /\ v.queue[i].run = r /\ Says(v.queue[i].event) \in E
      /\ \A q \in Runs : "service" \in v.bus.listeners[q] <=> "service" \in u.bus.listeners[q]
  BY DEF Grown, LogGrown, QueueGrown
<1>4. /\ \A q \in Runs : q # r => w.log[q] = v.log[q]
      /\ c >= b /\ m >= l
      /\ \A i \in 1..b : w.log[r][i] = v.log[r][i]
      /\ \A i \in (b + 1)..c : Says(w.log[r][i]) \in E
      /\ \A i \in 1..l : w.queue[i] = v.queue[i]
      /\ \A i \in (l + 1)..m : w.queue[i].kind = "event" /\ w.queue[i].run = r /\ Says(w.queue[i].event) \in E
      /\ \A q \in Runs : "service" \in w.bus.listeners[q] <=> "service" \in v.bus.listeners[q]
  BY DEF Grown, LogGrown, QueueGrown
<1> HIDE DEF a, b, c, k, l, m
<1>5. \A i \in 1..a : w.log[r][i] = u.log[r][i]
  BY <1>2, <1>3, <1>4
<1>6. ASSUME NEW i \in (a + 1)..c PROVE Says(w.log[r][i]) \in E
  <2>1. CASE i <= b
    <3>1. i \in 1..b /\ i \in (a + 1)..b
      BY <1>2, <2>1
    <3> QED BY <1>3, <1>4, <3>1
  <2>2. CASE i > b
    BY <1>2, <1>4, <2>2
  <2> QED BY <1>2, <2>1, <2>2
<1>7. \A i \in 1..k : w.queue[i] = u.queue[i]
  BY <1>2, <1>3, <1>4
<1>8. ASSUME NEW i \in (k + 1)..m
      PROVE  w.queue[i].kind = "event" /\ w.queue[i].run = r /\ Says(w.queue[i].event) \in E
  <2>1. CASE i <= l
    <3>1. i \in 1..l /\ i \in (k + 1)..l
      BY <1>2, <2>1
    <3> QED BY <1>3, <1>4, <3>1
  <2>2. CASE i > l
    BY <1>2, <1>4, <2>2
  <2> QED BY <1>2, <2>1, <2>2
<1>9. c >= a /\ m >= k
  BY <1>2, <1>3, <1>4
<1> QED BY <1>3, <1>4, <1>5, <1>6, <1>7, <1>8, <1>9 DEF Grown, LogGrown, QueueGrown, a, b, c, k, l, m

\* One event is one entry of the log, and of the queue if the service listens.
LEMMA OneEventGrows ==
  ASSUME NEW v \in Worlds, NEW event \in RunEvent, NEW E, Says(event) \in E
  PROVE  Grown(v, PublishOne(v, event), event.run, E)
<1> DEFINE r   == event.run
           e   == Sent(v, event)
           m   == Heard(v, event)
           out == PublishOne(v, event)
<1>1. /\ out \in Worlds /\ e \in RunEvent /\ e = [event EXCEPT !.seq = v.bus.seq] /\ r \in Runs
      /\ \A q \in Runs : out.bus.listeners[q] =
           (IF Over(event) /\ q = r THEN v.bus.listeners[r] \ Watchers ELSE v.bus.listeners[q])
      /\ out.log = [v.log EXCEPT ![r] = Append(@, e)]
      /\ out.queue = (IF "service" \in v.bus.listeners[r] THEN Append(v.queue, m) ELSE v.queue)
  BY OneEvent
<1>2. Says(e) = Says(event) /\ m.kind = "event" /\ m.run = r /\ m.event = e
  BY <1>1 DEF Says, Heard, RunEvent
<1>3. v.log \in [Runs -> Seq(RunEvent)] /\ v.queue \in Seq(Message)
  BY DEF Worlds
<1>4. m \in Message
  BY <1>1 DEF Message, Heard
<1> HIDE DEF r, e, m, out
<1>5. /\ \A q \in Runs : q # r => out.log[q] = v.log[q]
      /\ out.log[r] = Append(v.log[r], e) /\ v.log[r] \in Seq(RunEvent)
  BY <1>1, <1>3
<1>6. \A q \in Runs : "service" \in out.bus.listeners[q] <=> "service" \in v.bus.listeners[q]
  BY <1>1, ScenariosAssumption
<1>7. /\ Len(out.log[r]) >= Len(v.log[r])
      /\ \A i \in 1..Len(v.log[r]) : out.log[r][i] = v.log[r][i]
      /\ \A i \in (Len(v.log[r]) + 1)..Len(out.log[r]) : out.log[r][i] = e
  BY <1>1, <1>5
<1>8. ASSUME "service" \in v.bus.listeners[r] PROVE Grown(v, out, r, E)
  <2>1. /\ Len(out.queue) >= Len(v.queue)
        /\ \A i \in 1..Len(v.queue) : out.queue[i] = v.queue[i]
        /\ \A i \in (Len(v.queue) + 1)..Len(out.queue) : out.queue[i] = m
    BY <1>1, <1>3, <1>4, <1>8
  <2> QED BY <1>2, <1>5, <1>6, <1>7, <2>1 DEF Grown, LogGrown, QueueGrown
<1>9. ASSUME "service" \notin v.bus.listeners[r] PROVE Grown(v, out, r, E)
  <2>1. Len(out.queue) >= Len(v.queue) /\ \A i \in (Len(v.queue) + 1)..Len(out.queue) : FALSE
    BY <1>1, <1>3, <1>9
  <2> QED BY <1>1, <1>2, <1>5, <1>6, <1>7, <1>9, <2>1 DEF Grown, LogGrown, QueueGrown
<1> QED BY <1>8, <1>9 DEF r, out

\* What a turn of the loop emits for a run.
Saying == [stage : Emitted, severity : Severities]

\* Each of the events of a turn keeps the buffers and the streams in order, and adds what it says.
LEMMA NthGrows ==
  ASSUME NEW v \in Worlds, NEW r \in Runs, NEW events \in Seq(Saying), NEW i \in Nat,
         Buffered(v), Streaming(v), got \in [Watchers -> Seq(RunEvent)]
  PROVE  LET out == PublishNth(v, r, events, i) IN
         out \in Worlds /\ Buffered(out) /\ Streaming(out) /\ Grown(v, out, r, Range(events))
<1> DEFINE out == PublishNth(v, r, events, i)
<1>1. CASE i \notin DOMAIN events
  <2>1. out = v
    BY <1>1 DEF PublishNth
  <2>2. v.log[r] \in Seq(RunEvent) /\ v.queue \in Seq(Message)
    BY DEF Worlds
  <2>3. Grown(v, v, r, Range(events))
    BY <2>2 DEF Grown, LogGrown, QueueGrown
  <2> QED BY <2>1, <2>3
<1>2. CASE i \in DOMAIN events
  <2> DEFINE event == Event(r, events[i])
  <2>1. /\ events[i] \in Saying /\ events[i] \in Range(events)
        /\ events[i] = [stage |-> events[i].stage, severity |-> events[i].severity]
    <3>1. events[i] \in Saying
      BY <1>2
    <3>2. events[i] \in Range(events)
      BY <1>2 DEF Range
    <3> QED BY <3>1, <3>2 DEF Saying
  <2>2. event \in RunEvent /\ event.run = r /\ Says(event) = events[i]
    BY <2>1 DEF Event, RunEvent, Saying, Says
  <2>3. out = PublishOne(v, event)
    BY <1>2 DEF PublishNth
  <2> HIDE DEF event, out
  <2>4. out \in Worlds
    BY <2>2, <2>3, OneEvent
  <2>5. Buffered(out) /\ Streaming(out)
    BY <2>2, <2>3, OneEventBuffered, OneEventStreams
  <2>6. Grown(v, out, r, Range(events))
    BY <2>1, <2>2, <2>3, OneEventGrows
  <2> QED BY <2>4, <2>5, <2>6 DEF out
<1> QED BY <1>1, <1>2

\* A turn of the loop keeps the promises of buffers and streams.
LEMMA PublishGrows ==
  ASSUME TypeOK, Buffered(World), Streaming(World),
         NEW r \in Runs, NEW events \in Seq(Saying), NEW pending \in Seq(Message),
         NEW ls \in {{}, {"service"}}, Publish(r, events, pending, ls), UNCHANGED watching
  PROVE  /\ World' \in Worlds /\ Buffered(World)' /\ Streaming(World)'
         /\ LogGrown(log, log', r, Range(events)) /\ QueueGrown(pending, queue', r, Range(events))
         /\ \A q \in Runs : "service" \in bus'.listeners[q] <=>
              "service" \in bus.listeners[q] /\ ~ (q = r /\ "service" \in ls)
<1> DEFINE u == [bus |-> bus, queue |-> pending, log |-> log, wire |-> wire, served |-> served]
           a == PublishNth(u, r, events, 1)
           b == PublishNth(a, r, events, 2)
           c == PublishNth(b, r, events, 3)
           E == Range(events)
<1>1. got \in [Watchers -> Seq(RunEvent)] /\ World \in Worlds
  BY DEF TypeOK
<1>2. /\ bus \in Bus /\ log \in [Runs -> Seq(RunEvent)] /\ wire \in [Watchers -> Seq(RunEvent)]
      /\ served \in [Watchers -> {"none", "open", "ended"}] /\ queue \in Seq(Message)
  BY <1>1 DEF Worlds, World
<1>3. u \in Worlds
  BY <1>2 DEF Worlds
<1>4. Buffered(u) /\ Streaming(u)
  BY DEF Buffered, Streaming, StreamsTo, Shipped, World
<1>5. /\ bus' = [c.bus EXCEPT !.listeners[r] = @ \ ls]
      /\ queue' = c.queue /\ log' = c.log /\ wire' = c.wire /\ served' = c.served
  BY DEF Publish
<1>6. u.log = log /\ u.queue = pending /\ u.bus = bus
  OBVIOUS
<1> HIDE DEF u, a, b, c, E
<1>7. a \in Worlds /\ Buffered(a) /\ Streaming(a) /\ Grown(u, a, r, E)
  BY <1>1, <1>3, <1>4, NthGrows DEF a, E
<1>8. b \in Worlds /\ Buffered(b) /\ Streaming(b) /\ Grown(a, b, r, E)
  BY <1>1, <1>7, NthGrows DEF b, E
<1>9. c \in Worlds /\ Buffered(c) /\ Streaming(c) /\ Grown(b, c, r, E)
  BY <1>1, <1>8, NthGrows DEF c, E
<1>10. Grown(u, c, r, E)
  BY <1>3, <1>7, <1>8, <1>9, GrowthAdds
<1>11. LogGrown(log, log', r, E) /\ QueueGrown(pending, queue', r, E)
  BY <1>5, <1>6, <1>10 DEF Grown
<1>12. /\ bus' \in Bus /\ bus'.buffers = c.bus.buffers
       /\ \A q \in Runs : bus'.listeners[q] = IF q = r THEN c.bus.listeners[q] \ ls ELSE c.bus.listeners[q]
  <2> DEFINE d == c.bus l == [d.listeners EXCEPT ![r] = @ \ ls]
  <2>1. /\ d = [seq |-> d.seq, buffers |-> d.buffers, listeners |-> d.listeners]
        /\ d.seq \in Nat /\ d.buffers \in Seq(Buffer) /\ d.listeners \in [Runs -> SUBSET Listeners]
    BY <1>9 DEF Worlds, Bus
  <2>2. l \in [Runs -> SUBSET Listeners]
        /\ \A q \in Runs : l[q] = IF q = r THEN d.listeners[q] \ ls ELSE d.listeners[q]
    BY <2>1
  <2>3. bus' = [d EXCEPT !.listeners = l]
    BY <1>5
  <2> HIDE DEF d, l
  <2>4. bus' = [seq |-> d.seq, buffers |-> d.buffers, listeners |-> l]
    BY <2>1, <2>3
  <2> QED BY <2>1, <2>2, <2>4 DEF Bus, d
<1>13. World' \in Worlds
  BY <1>5, <1>9, <1>12 DEF World, Worlds
<1>14. \A q \in Runs : "service" \in bus'.listeners[q] <=>
              "service" \in bus.listeners[q] /\ ~ (q = r /\ "service" \in ls)
  BY <1>6, <1>10, <1>12 DEF Grown
<1>15. Buffered(World)'
  <2>1. \A q : IsBuffered(bus', q) <=> IsBuffered(c.bus, q)
    BY <1>12 DEF IsBuffered
  <2>2. \A q \in Runs : "service" \in bus'.listeners[q] => "service" \in c.bus.listeners[q]
    BY <1>12
  <2>3. \A i \in DOMAIN c.bus.buffers : c.bus.buffers[i].run \in Runs
    <3> DEFINE bs == c.bus.buffers
    <3>1. bs \in Seq(Buffer)
      BY <1>9 DEF Worlds, Bus
    <3> HIDE DEF bs
    <3>2. \A i \in DOMAIN bs : bs[i] \in Buffer
      BY <3>1
    <3> QED BY <3>2 DEF Buffer, bs
  <2>4. ASSUME NEW i \in DOMAIN bus'.buffers
        PROVE  LET f == bus'.buffers[i] IN
               /\ f.events # << >> /\ IsTail(f.events, log'[f.run])
               /\ "service" \in bus'.listeners[f.run] => IsWhole(f.events, log'[f.run])
    <3> DEFINE f == c.bus.buffers[i]
    <3>1. /\ i \in DOMAIN c.bus.buffers /\ bus'.buffers[i] = f /\ f.run \in Runs
      BY <1>12, <2>3
    <3>2. /\ f.events # << >> /\ IsTail(f.events, c.log[f.run])
          /\ "service" \in c.bus.listeners[f.run] => IsWhole(f.events, c.log[f.run])
      BY <1>9, <3>1 DEF Buffered
    <3> HIDE DEF f
    <3> QED BY <1>5, <2>2, <3>1, <3>2
  <2>5. ASSUME NEW q \in Runs, "service" \in bus'.listeners[q]
        PROVE  log'[q] = << >> \/ IsBuffered(bus', q)
    BY <1>5, <1>9, <2>1, <2>2, <2>5 DEF Buffered
  <2> QED BY <2>4, <2>5 DEF Buffered, World
<1>16. Streaming(World)'
  <2>1. \A w \in Watchers, q \in Runs : w \in bus'.listeners[q] <=> w \in c.bus.listeners[q]
    BY <1>12, ScenariosAssumption
  <2>2. client' = client /\ got' = got
    BY DEF watching
  <2> QED BY <1>5, <1>9, <2>1, <2>2 DEF Streaming, StreamsTo, Shipped, World
<1> QED BY <1>11, <1>13, <1>14, <1>15, <1>16 DEF E

\* The end of a run is announced in a turn of its own.
LEMMA PublishEnds ==
  ASSUME TypeOK, NEW r \in Runs, NEW e \in Saying, e.stage \in TERMINAL_STAGES, NEW pending, NEW ls,
         Publish(r, <<e>>, pending, ls)
  PROVE  LET sent == [Event(r, e) EXCEPT !.seq = bus.seq] IN
         /\ sent \in RunEvent /\ Over(sent) /\ Says(sent) = e
         /\ log' = [log EXCEPT ![r] = Append(@, sent)]
         /\ queue' = IF "service" \in bus.listeners[r]
                     THEN Append(pending, [kind |-> "event", run |-> r, event |-> sent]) ELSE pending
<1> DEFINE u    == [bus |-> bus, queue |-> pending, log |-> log, wire |-> wire, served |-> served]
           sent == [Event(r, e) EXCEPT !.seq = bus.seq]
           a    == PublishNth(u, r, <<e>>, 1)
<1>1. /\ a = PublishOne(u, Event(r, e)) /\ PublishNth(a, r, <<e>>, 2) = a /\ PublishNth(a, r, <<e>>, 3) = a
  BY DEF PublishNth
<1>2. queue' = a.queue /\ log' = a.log
  <2> HIDE DEF a
  <2> QED BY <1>1 DEF Publish, a
<1>3. e = [stage |-> e.stage, severity |-> e.severity] /\ bus.seq \in Nat
  BY DEF Saying, TypeOK, Worlds, World, Bus
<1>4. sent \in RunEvent /\ Over(sent) /\ Says(sent) = e /\ Event(r, e).run = r
  BY <1>3 DEF Event, RunEvent, Saying, Over, Says
<1>5. Numbered(u.bus, Event(r, e)) = sent
  BY DEF Numbered
<1> DEFINE event == Event(r, e)
<1>7. u.bus = bus /\ u.log = log /\ u.queue = pending /\ a = PublishOne(u, event)
      /\ event.run = r /\ Numbered(u.bus, event) = sent
  BY <1>1, <1>4, <1>5
<1> HIDE DEF u, a, event, sent
<1>6. /\ a.log = [log EXCEPT ![r] = Append(@, sent)]
      /\ a.queue = IF "service" \in bus.listeners[r]
                   THEN Append(pending, [kind |-> "event", run |-> r, event |-> sent]) ELSE pending
  BY <1>7 DEF PublishOne, Listens
<1> QED BY <1>2, <1>4, <1>6 DEF sent

\* A turn that says nothing adds nothing to the log and the queue.
LEMMA PublishNothing ==
  ASSUME TypeOK, NEW r \in Runs, NEW pending, NEW ls, Publish(r, << >>, pending, ls)
  PROVE  log' = log /\ queue' = pending
<1> DEFINE u == [bus |-> bus, queue |-> pending, log |-> log, wire |-> wire, served |-> served]
<1>1. \A i \in 1..3 : PublishNth(u, r, << >>, i) = u
  BY DEF PublishNth
<1> QED BY <1>1 DEF Publish

-----------------------------------------------------------------------------
(* The queue                                                                  *)

\* A step serves the head of the queue or not, and adds messages of M at the end.
Serves(d, M) ==
  /\ d \in {0, 1} /\ d <= Len(queue) /\ Len(queue') >= Len(queue) - d
  /\ \A i \in 1..(Len(queue) - d) : queue'[i] = queue[i + d]
  /\ \A i \in (Len(queue) - d + 1)..Len(queue') : queue'[i] \in M
Entries(r, E) == {m \in Message : m.kind = "event" /\ m.run = r /\ Says(m.event) \in E}

\* The forms of the queue after a step, each as what was served and what was added.
LEMMA QueueShapes ==
  ASSUME queue \in Seq(Message)
  PROVE  /\ queue' = queue => Serves(0, {})
         /\ queue # << >> /\ queue' = Tail(queue) => Serves(1, {})
         /\ \A m \in Message : queue' = Append(queue, m) => Serves(0, {m}) /\ Len(queue') = Len(queue) + 1
         /\ \A m \in Message : queue # << >> /\ queue' = Append(Tail(queue), m) =>
              Serves(1, {m}) /\ Len(queue') = Len(queue)
         /\ \A r, E : queue' \in Seq(Message) /\ QueueGrown(queue, queue', r, E) => Serves(0, Entries(r, E))
         /\ \A r, E : queue # << >> /\ queue' \in Seq(Message) /\ QueueGrown(Tail(queue), queue', r, E) =>
              Serves(1, Entries(r, E))
<1> DEFINE n == Len(queue) t == Tail(queue)
<1>1. n \in Nat
  OBVIOUS
<1>2. queue # << >> => n >= 1 /\ t \in Seq(Message) /\ Len(t) = n - 1 /\ \A i \in 1..(n - 1) : t[i] = queue[i + 1]
  OBVIOUS
<1> HIDE DEF n, t
<1>3. queue' = queue => Serves(0, {})
  BY <1>1 DEF Serves, n
<1>4. ASSUME queue # << >>, queue' = t PROVE Serves(1, {})
  BY <1>1, <1>2, <1>4 DEF Serves, n
<1>5. ASSUME NEW m \in Message, queue' = Append(queue, m) PROVE Serves(0, {m}) /\ Len(queue') = n + 1
  <2>1. Len(queue') = n + 1 /\ queue'[n + 1] = m /\ \A i \in 1..n : queue'[i] = queue[i]
    BY <1>5 DEF n
  <2> QED BY <1>1, <2>1 DEF Serves, n
<1>6. ASSUME NEW m \in Message, queue # << >>, queue' = Append(t, m) PROVE Serves(1, {m}) /\ Len(queue') = n
  <2>1. Len(queue') = (n - 1) + 1 /\ queue'[(n - 1) + 1] = m /\ \A i \in 1..(n - 1) : queue'[i] = t[i]
    BY <1>1, <1>2, <1>6
  <2>2. Len(queue') = n /\ queue'[n] = m /\ \A i \in 1..(n - 1) : queue'[i] = queue[i + 1]
    BY <1>1, <1>2, <1>6, <2>1
  <2> QED BY <1>1, <1>2, <1>6, <2>2 DEF Serves, n
<1>7. ASSUME NEW r, NEW E, queue' \in Seq(Message), QueueGrown(queue, queue', r, E)
      PROVE  Serves(0, Entries(r, E))
  <2>1. Len(queue') \in Nat /\ \A i \in 1..Len(queue') : queue'[i] \in Message
    BY <1>7
  <2> QED BY <1>1, <1>7, <2>1 DEF Serves, QueueGrown, Entries, n
<1>8. ASSUME NEW r, NEW E, queue # << >>, queue' \in Seq(Message), QueueGrown(t, queue', r, E)
      PROVE  Serves(1, Entries(r, E))
  <2>1. Len(queue') \in Nat /\ \A i \in 1..Len(queue') : queue'[i] \in Message
    BY <1>8
  <2>2. /\ Len(queue') >= n - 1 /\ \A i \in 1..(n - 1) : queue'[i] = queue[i + 1]
        /\ \A i \in n..Len(queue') : queue'[i].kind = "event" /\ queue'[i].run = r /\ Says(queue'[i].event) \in E
    BY <1>1, <1>2, <1>8 DEF QueueGrown
  <2> QED BY <1>1, <1>2, <1>8, <2>1, <2>2 DEF Serves, Entries, n
<1> QED BY <1>3, <1>4, <1>5, <1>6, <1>7, <1>8 DEF n, t

\* Where an entry of the queue comes from.
LEMMA Origin ==
  ASSUME queue \in Seq(Message), queue' \in Seq(Message), NEW d, NEW M, Serves(d, M)
  PROVE  /\ d \in {0, 1} /\ Len(queue) \in Nat /\ Len(queue') \in Nat
         /\ DOMAIN queue = 1..Len(queue) /\ DOMAIN queue' = 1..Len(queue')
         /\ \A i \in DOMAIN queue' :
              \/ i <= Len(queue) - d /\ i + d \in DOMAIN queue /\ queue'[i] = queue[i + d]
              \/ i > Len(queue) - d /\ queue'[i] \in M
         /\ \A i \in DOMAIN queue : i > d => i - d \in DOMAIN queue' /\ queue'[i - d] = queue[i]
<1>1. /\ Len(queue) \in Nat /\ Len(queue') \in Nat /\ d \in {0, 1} /\ d <= Len(queue) /\ Len(queue') >= Len(queue) - d
      /\ DOMAIN queue = 1..Len(queue) /\ DOMAIN queue' = 1..Len(queue')
      /\ \A i \in 1..(Len(queue) - d) : queue'[i] = queue[i + d]
      /\ \A i \in (Len(queue) - d + 1)..Len(queue') : queue'[i] \in M
  BY DEF Serves
<1> DEFINE n == Len(queue) m == Len(queue')
<1> HIDE DEF n, m
<1>2. ASSUME NEW i \in 1..m
      PROVE  \/ i <= n - d /\ i + d \in 1..n /\ queue'[i] = queue[i + d]
             \/ i > n - d /\ queue'[i] \in M
  <2>1. CASE i <= n - d
    BY <1>1, <2>1 DEF n, m
  <2>2. CASE i > n - d
    BY <1>1, <2>2 DEF n, m
  <2> QED BY <1>1, <2>1, <2>2 DEF n, m
<1>3. ASSUME NEW i \in 1..n, i > d PROVE i - d \in 1..m /\ queue'[i - d] = queue[i]
  <2>1. i - d \in 1..(n - d) /\ (i - d) + d = i
    BY <1>1, <1>3 DEF n, m
  <2> QED BY <1>1, <2>1 DEF n, m
<1> QED BY <1>1, <1>2, <1>3 DEF n, m

\* A step of one execution, which serves its mutation, adds its next one, or neither.
LEMMA MovesStep ==
  ASSUME queue \in Seq(Message), queue' \in Seq(Message), MovesInOrder, NEW d, NEW M, Serves(d, M),
         NEW x \in Runs, \A r \in Runs : r # x => exec'[r] = exec[r],
         exec'[x] = exec[x] \/ \A i \in DOMAIN queue : i > d /\ queue[i].kind \in Moves => queue[i].run # x,
         \A m \in M : m.kind \in Moves =>
           /\ m.run = x /\ exec'[x] = Mover(m.kind) /\ Len(queue') <= Len(queue) - d + 1
           /\ m.kind = "start" => exec[x] \in Fresh
           /\ \A i \in DOMAIN queue : i > d /\ queue[i].kind \in Moves => queue[i].run # x,
         d = 1 /\ queue[1].kind = "start" => queue[1].run = x /\ exec'[x] # "starting",
         exec'[x] = "starting" /\ exec[x] # "starting" => \E i \in DOMAIN queue' : Is(i, "start", x)',
         \A m \in M : m.kind = "reap" => exec'[m.run] \notin Fresh,
         exec'[x] \in Fresh => exec[x] \in Fresh
  PROVE  MovesInOrder'
<1> DEFINE n == Len(queue) m == Len(queue')
           Old(i) == i <= n - d /\ i + d \in DOMAIN queue /\ queue'[i] = queue[i + d]
           New(i) == i > n - d /\ queue'[i] \in M
<1>1. /\ d \in {0, 1} /\ n \in Nat /\ m \in Nat /\ DOMAIN queue = 1..n /\ DOMAIN queue' = 1..m
      /\ \A i \in DOMAIN queue' : Old(i) \/ New(i)
      /\ \A i \in DOMAIN queue : i > d => i - d \in DOMAIN queue' /\ queue'[i - d] = queue[i]
  BY Origin
<1>2. \A i \in DOMAIN queue : queue[i].kind \in Moves \cup {"reap"} => queue[i].run \in Runs
  <2> TAKE i \in DOMAIN queue
  <2>1. queue[i] \in Message
    OBVIOUS
  <2> QED BY <2>1 DEF Message, Moves
<1>3. \A i \in DOMAIN queue' : Old(i) => i + d > d
  BY <1>1
<1> HIDE DEF n, m
<1>4. ASSUME NEW i \in DOMAIN queue', queue'[i].kind \in Moves
      PROVE  exec'[queue'[i].run] = Mover(queue'[i].kind)
  <2>1. CASE Old(i)
    <3>1. exec[queue[i + d].run] = Mover(queue[i + d].kind) /\ queue[i + d].run \in Runs
      BY <1>2, <1>4, <2>1 DEF MovesInOrder
    <3>2. queue[i + d].run = x => exec'[x] = exec[x]
      BY <1>3, <1>4, <2>1
    <3> QED BY <2>1, <3>1, <3>2
  <2>2. CASE New(i)
    BY <1>4, <2>2
  <2> QED BY <1>1, <2>1, <2>2
<1>5. ASSUME NEW i \in DOMAIN queue', NEW j \in DOMAIN queue', queue'[i].kind \in Moves,
             queue'[j].kind \in Moves, queue'[i].run = queue'[j].run
      PROVE  i = j
  <2>1. CASE Old(i) /\ Old(j)
    <3>1. i + d = j + d
      BY <1>5, <2>1 DEF MovesInOrder
    <3> QED BY <1>1, <3>1
  <2>2. CASE Old(i) /\ New(j)
    BY <1>3, <1>5, <2>2
  <2>3. CASE New(i) /\ Old(j)
    BY <1>3, <1>5, <2>3
  <2>4. CASE New(i) /\ New(j)
    <3>1. m <= n - d + 1
      BY <1>5, <2>4 DEF n, m
    <3> QED BY <1>1, <2>4, <3>1
  <2> QED BY <1>1, <2>1, <2>2, <2>3, <2>4
<1>6. ASSUME NEW r \in Runs, exec'[r] = "starting" PROVE \E i \in DOMAIN queue' : Is(i, "start", r)'
  <2>1. CASE exec[r] = "starting"
    <3>1. PICK i \in DOMAIN queue : Is(i, "start", r)
      BY <2>1 DEF MovesInOrder
    <3>2. i > d
      <4>1. ~ (d = 1 /\ i = 1)
        BY <1>6, <3>1 DEF Is
      <4> QED BY <1>1, <4>1
    <3>3. i - d \in DOMAIN queue' /\ queue'[i - d] = queue[i]
      BY <1>1, <3>2
    <3>4. Is(i - d, "start", r)'
      BY <3>1, <3>3 DEF Is
    <3> QED BY <3>3, <3>4
  <2>2. CASE exec[r] # "starting"
    BY <1>6, <2>2
  <2> QED BY <2>1, <2>2
<1>7. ASSUME NEW r \in Runs, NEW i \in DOMAIN queue', Is(i, "reap", r)' PROVE exec'[r] \notin Fresh
  <2>1. queue'[i].kind = "reap" /\ queue'[i].run = r
    BY <1>7 DEF Is
  <2>2. CASE Old(i)
    <3>1. exec[r] \notin Fresh
      BY <2>1, <2>2 DEF Is, MovesInOrder
    <3> QED BY <3>1
  <2>3. CASE New(i)
    BY <2>1, <2>3
  <2> QED BY <1>1, <2>2, <2>3
<1>8. ASSUME NEW r \in Runs, NEW i \in DOMAIN queue', NEW j \in DOMAIN queue', Is(i, "start", r)', Is(j, "reap", r)'
      PROVE  i < j
  <2>1. /\ queue'[i].kind = "start" /\ queue'[i].run = r /\ queue'[j].kind = "reap" /\ queue'[j].run = r
        /\ "start" \in Moves
    BY <1>8 DEF Is, Moves
  <2>2. CASE Old(i) /\ Old(j)
    <3>1. i + d < j + d
      BY <2>1, <2>2 DEF Is, MovesInOrder
    <3> QED BY <1>1, <3>1
  <2>3. CASE Old(i) /\ New(j)
    BY <1>1, <2>3
  <2>4. CASE New(i) /\ Old(j)
    <3>1. r = x /\ exec[x] \in Fresh
      BY <2>1, <2>4
    <3>2. exec[r] \notin Fresh
      BY <2>1, <2>4 DEF Is, MovesInOrder
    <3> QED BY <3>1, <3>2
  <2>5. CASE New(i) /\ New(j)
    <3>1. m <= n - d + 1
      BY <2>1, <2>5 DEF n, m
    <3>2. i = j
      BY <1>1, <2>5, <3>1
    <3> QED BY <2>1, <3>2
  <2> QED BY <1>1, <2>2, <2>3, <2>4, <2>5
<1> QED BY <1>4, <1>5, <1>6, <1>7, <1>8 DEF MovesInOrder

\* A step that changes no principal and adds no table keeps the tables in order, and the
\* messages their principals, those it adds included.
LEMMA PrincipalsStep ==
  ASSUME queue \in Seq(Message), queue' \in Seq(Message), TablesInOrder, MessagesHavePrincipals,
         NEW d, NEW M, Serves(d, M), UNCHANGED <<directory, agentPrincipals, answered>>,
         \A m \in M : /\ m.kind # "principals"
                      /\ m.kind = "admit" =>
                           \E p \in DOMAIN directory :
                             p \notin answered /\ \A j \in DOMAIN queue : Keeps(j) => queue[j].revoked # p
  PROVE  TablesInOrder' /\ MessagesHavePrincipals'
<1> DEFINE n == Len(queue)
<1>1. /\ d \in {0, 1} /\ n \in Nat /\ DOMAIN queue = 1..n /\ DOMAIN queue' = 1..Len(queue') /\ Len(queue') \in Nat
      /\ \A i \in DOMAIN queue' :
           \/ i <= n - d /\ i + d \in DOMAIN queue /\ queue'[i] = queue[i + d]
           \/ i > n - d /\ queue'[i] \in M
  BY Origin
<1> HIDE DEF n
<1>2. ASSUME NEW i \in DOMAIN queue', queue'[i].kind = "principals"
      PROVE  i + d \in DOMAIN queue /\ queue'[i] = queue[i + d]
  BY <1>1, <1>2
<1>3. TablesInOrder'
  <2>1. \A i \in DOMAIN queue' : Keeps(i)' => Keeps(i + d) /\ queue'[i] = queue[i + d]
    BY <1>2 DEF Keeps
  <2>2. \A i, j \in DOMAIN queue' : i < j => i + d < j + d
    BY <1>1
  <2>3. ASSUME NEW i \in DOMAIN queue', Keeps(i)'
        PROVE  /\ queue'[i].revoked \in Revoked(queue'[i].kept)
               /\ Revoked(agentPrincipals) \subseteq Revoked(queue'[i].kept)
               /\ Revoked(queue'[i].kept) \subseteq Revoked(directory)
    <3>1. i + d \in DOMAIN queue /\ Keeps(i + d) /\ queue'[i] = queue[i + d]
      BY <2>1, <2>3 DEF Keeps
    <3> QED BY <3>1 DEF TablesInOrder
  <2>4. ASSUME NEW i \in DOMAIN queue', NEW j \in DOMAIN queue', Keeps(i)', Keeps(j)', i < j
        PROVE  Revoked(queue'[i].kept) \subseteq Revoked(queue'[j].kept)
    <3>1. /\ i + d \in DOMAIN queue /\ Keeps(i + d) /\ queue'[i] = queue[i + d]
          /\ j + d \in DOMAIN queue /\ Keeps(j + d) /\ queue'[j] = queue[j + d]
          /\ i + d < j + d
      BY <2>1, <2>2, <2>4 DEF Keeps
    <3> QED BY <3>1 DEF TablesInOrder
  <2>5. answered \subseteq Revoked(agentPrincipals) /\ Revoked(agentPrincipals) \subseteq Revoked(directory)
    BY DEF TablesInOrder
  <2> QED BY <2>3, <2>4, <2>5 DEF TablesInOrder, Revoked
<1>4. MessagesHavePrincipals'
  <2> SUFFICES ASSUME NEW i \in DOMAIN queue', queue'[i].kind = "admit"
               PROVE  \E p \in DOMAIN directory :
                        p \notin answered /\ \A j \in DOMAIN queue' : Keeps(j)' /\ j < i => queue'[j].revoked # p
    BY DEF MessagesHavePrincipals
  <2>2. PICK p \in DOMAIN directory :
          p \notin answered /\ \A j \in DOMAIN queue : Keeps(j) /\ j < i + d => queue[j].revoked # p
    <3>1. CASE i + d \in DOMAIN queue /\ queue'[i] = queue[i + d]
      BY <3>1 DEF MessagesHavePrincipals
    <3>2. CASE queue'[i] \in M
      BY <3>2
    <3> QED BY <1>1, <3>1, <3>2
  <2>3. ASSUME NEW j \in DOMAIN queue', Keeps(j)', j < i PROVE queue'[j].revoked # p
    <3>1. j + d \in DOMAIN queue /\ queue'[j] = queue[j + d] /\ Keeps(j + d)
      BY <1>2, <2>3 DEF Keeps
    <3>2. j + d < i + d
      BY <1>1, <2>3
    <3> QED BY <2>2, <3>1, <3>2
  <2> QED BY <2>2, <2>3
<1> QED BY <1>3, <1>4

\* What is recorded of a run's end stays so in a step that does not end or record it.
LEMMA EndStep ==
  ASSUME queue \in Seq(Message), queue' \in Seq(Message), NEW q, EndIsRecorded(q),
         NEW d, NEW M, Serves(d, M), timeline'[q] = timeline[q], stage'[q] = stage[q],
         exec'[q] = "ended" <=> exec[q] = "ended", exec[q] = "ended" => runStatus'[q] = runStatus[q],
         d = 1 => ~ Is(1, "event", q),
         \A m \in M : m.kind = "event" /\ m.run = q => exec[q] # "ended" /\ ~Over(m.event)
  PROVE  EndIsRecorded(q)'
<1> DEFINE n == Len(queue)
<1>1. /\ d \in {0, 1} /\ n \in Nat /\ DOMAIN queue = 1..n /\ DOMAIN queue' = 1..Len(queue') /\ Len(queue') \in Nat
      /\ \A i \in DOMAIN queue' :
           \/ i <= n - d /\ i + d \in DOMAIN queue /\ queue'[i] = queue[i + d]
           \/ i > n - d /\ queue'[i] \in M
      /\ \A i \in DOMAIN queue : i > d => i - d \in DOMAIN queue' /\ queue'[i - d] = queue[i]
  BY Origin
<1> HIDE DEF n
<1>2. ASSUME NEW i \in DOMAIN queue', Is(i, "event", q)'
      PROVE  \/ i + d \in DOMAIN queue /\ queue'[i] = queue[i + d] /\ Is(i + d, "event", q)
             \/ exec[q] # "ended" /\ ~Over(queue'[i].event)
  BY <1>1, <1>2 DEF Is
<1>3. CASE exec[q] # "ended"
  <2>1. timeline[q].ends = << >> /\ \A i \in DOMAIN queue : Is(i, "event", q) => ~Over(queue[i].event)
    BY <1>3 DEF EndIsRecorded
  <2>2. \A i \in DOMAIN queue' : Is(i, "event", q)' => ~Over(queue'[i].event)
    BY <1>2, <2>1
  <2> QED BY <1>3, <2>1, <2>2 DEF EndIsRecorded, Over
<1>4. CASE exec[q] = "ended" /\ timeline[q].ends = << >> /\ \E i \in DOMAIN queue : IsLast(i, q)
  <2>1. PICK i \in DOMAIN queue : IsLast(i, q)
    BY <1>4
  <2>2. i > d
    BY <1>1, <2>1 DEF IsLast
  <2>3. i - d \in DOMAIN queue' /\ queue'[i - d] = queue[i] /\ (i - d) + d = i
    BY <1>1, <2>2
  <2>4. Is(i - d, "event", q)' /\ queue'[i - d].event.stage = runStatus'[q]
    BY <1>4, <2>1, <2>3 DEF IsLast, Is
  <2>5. ASSUME NEW j \in DOMAIN queue', Is(j, "event", q)', j # i - d PROVE j < i - d /\ ~Over(queue'[j].event)
    <3>1. j + d \in DOMAIN queue /\ queue'[j] = queue[j + d] /\ Is(j + d, "event", q)
      BY <1>2, <1>4, <2>5
    <3>2. j + d # i
      BY <1>1, <2>5
    <3>3. j + d < i /\ ~Over(queue[j + d].event)
      BY <2>1, <3>1, <3>2 DEF IsLast
    <3> QED BY <1>1, <3>1, <3>3
  <2> DEFINE k == i - d
  <2> HIDE DEF k
  <2>6. IsLast(k, q)'
    BY <2>3, <2>4, <2>5 DEF IsLast, Over, k
  <2>7. k \in DOMAIN queue'
    BY <2>3 DEF k
  <2> QED BY <1>4, <2>6, <2>7 DEF EndIsRecorded
<1>5. CASE exec[q] = "ended" /\ IsRecorded(q) /\ \A i \in DOMAIN queue : ~Is(i, "event", q)
  <2>1. \A i \in DOMAIN queue' : ~ Is(i, "event", q)'
    BY <1>2, <1>5
  <2>2. IsRecorded(q)'
    BY <1>5 DEF IsRecorded
  <2> QED BY <1>5, <2>1, <2>2 DEF EndIsRecorded
<1> QED BY <1>3, <1>4, <1>5 DEF EndIsRecorded

-----------------------------------------------------------------------------
(* What a step leaves alone                                                   *)

\* The parts of the type that the emitted events are about.
LEMMA Typed ==
  ASSUME TypeOK
  PROVE  /\ bus \in Bus /\ queue \in Seq(Message) /\ log \in [Runs -> Seq(RunEvent)]
         /\ wire \in [Watchers -> Seq(RunEvent)] /\ served \in [Watchers -> {"none", "open", "ended"}]
BY DEF TypeOK, Worlds, World

\* The message at the head of the queue is of its kind.
LEMMA HeadIsTyped ==
  ASSUME TypeOK, queue # << >>, NEW m, m = Head(queue)
  PROVE  /\ m = queue[1] /\ m \in Message /\ 1 \in DOMAIN queue /\ Tail(queue) \in Seq(Message)
         /\ m.kind \in Moves \cup {"reap", "event"} => m.run \in Runs
         /\ m.kind = "event" => m.event \in RunEvent
         /\ m.kind = "principals" => m.kept \in Tables /\ m.revoked \in Nat
<1>1. queue \in Seq(Message)
  BY Typed
<1>2. m = queue[1] /\ m \in Message /\ 1 \in DOMAIN queue /\ Tail(queue) \in Seq(Message)
  BY <1>1
<1> QED BY <1>2 DEF Message, Moves

\* A step that emits nothing and touches no stream.
LEMMA QuietStep ==
  ASSUME TypeOK, Buffered(World), Streaming(World), queue' \in Seq(Message), UNCHANGED <<bus, log, stream, watching>>
  PROVE  World' \in Worlds /\ Buffered(World)' /\ Streaming(World)'
<1>1. bus' = bus /\ log' = log /\ wire' = wire /\ served' = served /\ client' = client /\ got' = got
  BY DEF stream, watching
<1>2. World' \in Worlds
  BY <1>1, Typed DEF World, Worlds
<1>3. Buffered(World)'
  BY <1>1 DEF World, Buffered, IsBuffered
<1>4. Streaming(World)'
  BY <1>1 DEF World, Streaming, StreamsTo, Shipped
<1> QED BY <1>2, <1>3, <1>4

\* What is said of a run another step is about.
LEMMA RunStays ==
  ASSUME StatusFollows, ServiceListens, Announced, NEW q \in Runs,
         exec'[q] = exec[q], verdict'[q] = verdict[q], runStatus'[q] = runStatus[q], log'[q] = log[q],
         q \in reaped' <=> q \in reaped, "service" \in bus.listeners[q] => "service" \in bus'.listeners[q]
  PROVE  FollowsItsExecution(q)' /\ IsListenedTo(q)' /\ IsAnnounced(q)'
<1>1. FollowsItsExecution(q)'
  BY DEF StatusFollows, FollowsItsExecution, StatusAt
<1>2. IsListenedTo(q)'
  BY DEF ServiceListens, IsListenedTo
<1>3. Told(q)' = Told(q)
  BY DEF Told, Over
<1>4. IsAnnounced(q)'
  BY <1>3 DEF Announced, IsAnnounced
<1> QED BY <1>1, <1>2, <1>4

\* A step about one run.
LEMMA OneRunMoves ==
  ASSUME StatusFollows, ServiceListens, Announced, NEW r \in Runs,
         FollowsItsExecution(r)', IsListenedTo(r)', IsAnnounced(r)',
         \A q \in Runs : q # r =>
           /\ exec'[q] = exec[q] /\ verdict'[q] = verdict[q] /\ runStatus'[q] = runStatus[q] /\ log'[q] = log[q]
           /\ q \in reaped' <=> q \in reaped
           /\ "service" \in bus.listeners[q] => "service" \in bus'.listeners[q]
  PROVE  StatusFollows' /\ ServiceListens' /\ Announced'
<1>1. ASSUME NEW q \in Runs, q # r PROVE FollowsItsExecution(q)' /\ IsListenedTo(q)' /\ IsAnnounced(q)'
  BY <1>1, RunStays
<1> QED BY <1>1 DEF StatusFollows, ServiceListens, Announced

\* A step that leaves cancels and the process alone.
LEMMA CancelsStay ==
  ASSUME TypeOK, CancelsWait, UNCHANGED <<cancel, active>>, \A q \in Runs : Stopped(q) => Stopped(q)'
  PROVE  CancelsWait'
<1>1. \A q : Marked(q)' = Marked(q)
  BY DEF Marked
<1>2. \A q \in Runs : cancel[q].told \in Runs \cup {NoRun}
  BY DEF TypeOK, Request
<1> QED BY <1>1, <1>2 DEF CancelsWait, Marked, Stopped

\* The runs that are watched go on being in use.
LEMMA WatchedStay ==
  ASSUME Streaming(World), WatchedAreUsed, client' = client,
         \A q \in Runs : exec'[q] \in Fresh => exec[q] \in Fresh
  PROVE  WatchedAreUsed'
BY DEF Streaming, StreamsTo, WatchedAreUsed, IsUsed

\* A step that leaves the runs alone.
LEMMA RunsStay ==
  ASSUME StatusFollows, ServiceListens, Announced,
         UNCHANGED <<exec, verdict, runStatus, log, reaped>>,
         \A q \in Runs : "service" \in bus.listeners[q] => "service" \in bus'.listeners[q]
  PROVE  StatusFollows' /\ ServiceListens' /\ Announced'
BY RunStays DEF StatusFollows, ServiceListens, Announced

\* The principal a message is admitted under is one of the Agent's, and not revoked.
LEMMA ActiveIsLive ==
  ASSUME NEW t \in Tables, ActiveFor(t, Agent) # 0
  PROVE  ActiveFor(t, Agent) \in DOMAIN t /\ ActiveFor(t, Agent) \in Nat /\ ~t[ActiveFor(t, Agent)].revoked
<1> DEFINE Live == {p \in DOMAIN t : t[p].agentId = Agent /\ ~t[p].revoked}
<1>1. Live # {} /\ ActiveFor(t, Agent) = Min(Live)
  BY DEF ActiveFor
<1>2. Live \subseteq Nat
  BY DEF Tables
<1>3. Min(Live) \in Live
  <2> HIDE DEF Live
  <2> QED BY <1>1, <1>2, MinIsLeast
<1> QED BY <1>1, <1>2, <1>3

-----------------------------------------------------------------------------
(* The invariant holds at the start                                           *)

\* The pipeline a run starts with.
LEMMA InitialIsTyped == InitialTimeline \in TimelineType /\ InitialTimeline.ends = << >>
BY DEF InitialTimeline, TimelineType, Status, Open

\* Nothing has happened yet: the Agent has its first principal, and that is all.
LEMMA InitIInv == ASSUME Init PROVE IInv
<1> DEFINE p == [agentId |-> Agent, ownerId |-> Owner, version |-> 1, revoked |-> FALSE]
<1>1. directory \in Tables /\ DOMAIN directory = {1} /\ agentPrincipals = directory
  <2>1. directory = Append(<< >>, p) /\ p \in Principals({Agent}, {Owner})
    BY DEF Init, MintAgentPrincipal, Principals
  <2> DEFINE P == Principals({Agent}, {Owner})
  <2> HIDE DEF p, P
  <2>2. Append(<< >>, p) \in Seq(P) /\ DOMAIN Append(<< >>, p) = {1}
    BY <2>1 DEF P
  <2>3. agentPrincipals = directory
    BY DEF Init
  <2> QED BY <2>1, <2>2, <2>3 DEF Tables, P
<1>2. InitialTimeline \in TimelineType /\ InitialTimeline.ends = << >>
  BY InitialIsTyped
<1>3. "queued" \in Stages
  <2>1. PIPELINE_STAGES[1] = "queued" /\ 1 \in DOMAIN PIPELINE_STAGES
    BY DEF PIPELINE_STAGES
  <2>2. "queued" \in Range(PIPELINE_STAGES)
    BY <2>1 DEF Range
  <2> QED BY <2>2 DEF Stages
<1>4. /\ queue = << >> /\ log = [r \in Runs |-> << >>] /\ bus = NewBus(Runs)
      /\ wire = [w \in Watchers |-> << >>] /\ served = [w \in Watchers |-> "none"]
      /\ got = [w \in Watchers |-> << >>] /\ client = [w \in Watchers |-> Absent]
      /\ exec = [r \in Runs |-> "none"] /\ verdict = [r \in Runs |-> "none"]
      /\ runStatus = [r \in Runs |-> "unused"] /\ answered = {} /\ reaped = {}
      /\ timeline = [r \in Runs |-> InitialTimeline] /\ cancel = [r \in Runs |-> Untold]
  BY DEF Init
<1>5. World \in Worlds
  BY <1>4 DEF World, Worlds, Bus, NewBus
<1>6. TypeOK
  <2>1. scenario \in Scenarios /\ agentStatus \in {"ready", "busy", "error"}
    BY DEF Init
  <2>2. runStatus \in [Runs -> Active \cup TERMINAL_STAGES \cup {"unused"}]
    BY <1>4
  <2>3. stage \in [Runs -> Stages] /\ timeline \in [Runs -> TimelineType]
    BY <1>2, <1>3 DEF Init
  <2>4. /\ exec \in [Runs -> Fresh \cup Executing \cup {"starting", "ended"}]
        /\ verdict \in [Runs -> TERMINAL_STAGES \cup {"none"}]
        /\ activeExecution \in Runs \cup {NoRun} /\ cancelFlag \in BOOLEAN
    BY DEF Init, Fresh
  <2>5. cancel \in [Runs -> Request]
    BY <1>4 DEF Untold, Request
  <2>6. client \in [Watchers -> Hook]
    BY <1>2, <1>4 DEF Absent, Hook
  <2>7. got \in [Watchers -> Seq(RunEvent)] /\ answered \subseteq Nat /\ reaped \subseteq Runs
    BY <1>4
  <2>8. /\ provider \in {"local-process", "container"} /\ child \in {"none", "alive", "exited"}
        /\ exit \in Exits \cup {"none"} /\ removal \in [Runs -> {"none", "asked", "answered"}]
        /\ active \in Entry
    <3>1. scenario.provider \in {"local-process", "container"}
      BY <2>1, ScenariosAssumption
    <3> QED BY <3>1 DEF Init, ProcessInit, Idle, Entry
  <2> QED BY <1>1, <1>5, <2>1, <2>2, <2>3, <2>4, <2>5, <2>6, <2>7, <2>8 DEF TypeOK
<1>7. ProcessIsAwaited
  BY DEF Init, ProcessInit, Idle, ProcessIsAwaited, Running
<1>8. \A i \in DOMAIN queue : FALSE
  BY <1>4
<1>9. MovesInOrder /\ MessagesHavePrincipals
  BY <1>4, <1>8 DEF MovesInOrder, MessagesHavePrincipals
<1>10. \A r \in Runs : exec[r] = "none" /\ runStatus[r] = "unused" /\ log[r] = << >> /\ Told(r) = {}
  BY <1>4 DEF Told
<1>11. StatusFollows /\ ServiceListens /\ Announced
  BY <1>4, <1>10 DEF StatusFollows, FollowsItsExecution, StatusAt, ServiceListens, IsListenedTo, Announced,
                     IsAnnounced, Fresh, Executing, Settling, TERMINAL_STAGES
<1>12. CancelsWait
  BY <1>4 DEF CancelsWait, Untold
<1>13. TablesInOrder
  BY <1>1, <1>4, <1>8 DEF TablesInOrder, Revoked
<1>14. EndsAreRecorded
  <2> SUFFICES ASSUME NEW r \in Runs PROVE EndIsRecorded(r)
    BY DEF EndsAreRecorded
  <2>1. exec[r] # "ended" /\ timeline[r].ends = << >>
    BY <1>2, <1>4
  <2> QED BY <1>8, <2>1 DEF EndIsRecorded
<1>15. Buffered(World)
  BY <1>4 DEF Buffered, World, NewBus
<1>16. Streaming(World)
  BY <1>4 DEF Streaming, StreamsTo, World, NewBus, Absent
<1>17. WatchedAreUsed
  BY <1>4 DEF WatchedAreUsed, IsUsed, Absent
<1> QED BY <1>6, <1>7, <1>9, <1>11, <1>12, <1>13, <1>14, <1>15, <1>16, <1>17 DEF IInv

-----------------------------------------------------------------------------
(* Every step keeps the invariant                                             *)

\* A message is under way with a principal that is live in memory.
LEMMA SendMessageKeeps == ASSUME IInv, NEW r \in Runs, SendMessage(r) PROVE IInv'
<1> DEFINE m == [kind |-> "admit", run |-> r]
<1>1. /\ exec[r] = "none" /\ exec' = [exec EXCEPT ![r] = "sending"] /\ queue' = Append(queue, m)
      /\ ActiveFor(directory, Agent) # 0
      /\ UNCHANGED <<scenario, database, directory, verdict, activeExecution, cancelFlag, cancel, bus, watching,
                     stream, log, answered, reaped, process>>
  BY DEF SendMessage
<1>2. TypeOK /\ Buffered(World) /\ Streaming(World) /\ queue \in Seq(Message)
      /\ exec \in [Runs -> Fresh \cup Executing \cup {"starting", "ended"}]
  BY Typed DEF IInv, TypeOK
<1>3. m \in Message /\ m.kind = "admit" /\ m.run = r
  BY DEF Message, Moves
<1> HIDE DEF m
<1>4. queue' \in Seq(Message)
  BY <1>1, <1>2, <1>3
<1>5. Serves(0, {m}) /\ Len(queue') = Len(queue) + 1
  BY <1>1, <1>2, <1>3, QueueShapes
<1>6. exec'[r] = "sending" /\ \A q \in Runs : q # r => exec'[q] = exec[q]
  BY <1>1, <1>2
<1>7. World' \in Worlds /\ Buffered(World)' /\ Streaming(World)'
  BY <1>1, <1>2, <1>4, QuietStep
<1>8. TypeOK'
  <2>1. exec' \in [Runs -> Fresh \cup Executing \cup {"starting", "ended"}]
    BY <1>1, <1>2 DEF Fresh
  <2> QED BY <1>1, <1>2, <1>7, <2>1 DEF TypeOK, database, watching, process
<1>9. ProcessIsAwaited'
  <2>1. active.run # r \/ ~Running
    BY <1>1 DEF IInv, ProcessIsAwaited
  <2>2. active.run \in Runs \cup {NoRun}
    BY <1>2 DEF TypeOK, Entry
  <2> QED BY <1>1, <1>6, <2>1, <2>2 DEF IInv, ProcessIsAwaited, Running, process
<1>10. MovesInOrder'
  <2>1. \A i \in DOMAIN queue : queue[i].kind \in Moves => queue[i].run # r
    BY <1>1 DEF IInv, MovesInOrder, Mover
  <2>2. MovesInOrder /\ exec[r] \in Fresh /\ exec'[r] = Mover("admit") /\ exec'[r] # "starting"
    BY <1>1, <1>6 DEF IInv, Fresh, Mover
  <2>3. Len(queue) \in Nat
    BY <1>2
  <2> QED BY <1>2, <1>3, <1>4, <1>5, <1>6, <2>1, <2>2, <2>3, MovesStep
<1>11. FollowsItsExecution(r)' /\ IsListenedTo(r)' /\ IsAnnounced(r)'
  <2>1. /\ exec[r] \in Fresh /\ exec'[r] \in Fresh
        /\ exec[r] \notin Settling \cup Executing \cup {"starting"}
        /\ exec'[r] \notin Settling \cup Executing \cup {"starting"}
    BY <1>1, <1>6 DEF Fresh, Settling, Executing
  <2>2. FollowsItsExecution(r)'
    BY <1>1, <1>6, <2>1 DEF IInv, StatusFollows, FollowsItsExecution, StatusAt, database, process
  <2>3. IsListenedTo(r)'
    BY <2>1 DEF IsListenedTo
  <2>4. Told(r)' = Told(r)
    BY <1>1 DEF Told, Over
  <2>5. IsAnnounced(r)'
    BY <1>1, <2>1, <2>4 DEF IInv, Announced, IsAnnounced, database
  <2> QED BY <2>2, <2>3, <2>5
<1>12. StatusFollows' /\ ServiceListens' /\ Announced'
  BY <1>1, <1>6, <1>11, OneRunMoves DEF IInv, database
<1>13. CancelsWait'
  <2>1. \A q \in Runs : Stopped(q) => Stopped(q)'
    BY <1>1, <1>6 DEF Stopped, Settling
  <2> QED BY <1>1, <1>2, <2>1, CancelsStay DEF IInv, process
<1>14. TablesInOrder' /\ MessagesHavePrincipals'
  <2> DEFINE p == ActiveFor(directory, Agent)
  <2>1. p \in DOMAIN directory /\ p \notin Revoked(directory)
    BY <1>1, <1>2, ActiveIsLive DEF Revoked, TypeOK
  <2> HIDE DEF p
  <2>2. p \notin answered /\ \A j \in DOMAIN queue : Keeps(j) => queue[j].revoked # p
    BY <2>1 DEF IInv, TablesInOrder
  <2> QED BY <1>1, <1>2, <1>3, <1>4, <1>5, <2>1, <2>2, PrincipalsStep DEF IInv, database
<1>15. EndsAreRecorded'
  <2>1. ASSUME NEW q \in Runs \ reaped PROVE EndIsRecorded(q)'
    <3>1. EndIsRecorded(q) /\ (exec'[q] = "ended" <=> exec[q] = "ended")
      BY <1>1, <1>6 DEF IInv, EndsAreRecorded
    <3> QED BY <1>1, <1>2, <1>3, <1>4, <1>5, <3>1, EndStep DEF database
  <2> QED BY <1>1, <2>1 DEF EndsAreRecorded
<1>16. WatchedAreUsed'
  BY <1>1, <1>6, WatchedStay DEF IInv, watching, Fresh
<1> QED BY <1>7, <1>8, <1>9, <1>10, <1>12, <1>13, <1>14, <1>15, <1>16 DEF IInv

\* A message is refused, or its run is queued and the service listens to it.
LEMMA AdmitKeeps ==
  ASSUME IInv, queue # << >>, NEW m, m = Head(queue), m.kind = "admit", Admit(m)
  PROVE  IInv'
<1> DEFINE r     == m.run
           start == [kind |-> "start", run |-> r]
<1>1. /\ m = queue[1] /\ 1 \in DOMAIN queue /\ Tail(queue) \in Seq(Message) /\ r \in Runs
      /\ TypeOK /\ Buffered(World) /\ Streaming(World) /\ queue \in Seq(Message)
      /\ exec \in [Runs -> Fresh \cup Executing \cup {"starting", "ended"}]
  BY HeadIsTyped, Typed DEF IInv, TypeOK, Moves
<1>2. exec[r] = "sending" /\ \A i \in DOMAIN queue : i > 1 /\ queue[i].kind \in Moves => queue[i].run # r
  <2>1. "admit" \in Moves /\ exec[r] = Mover("admit")
    BY <1>1 DEF IInv, MovesInOrder, Moves
  <2>2. \A i \in DOMAIN queue : queue[i].kind \in Moves /\ queue[i].run = r => i = 1
    BY <1>1, <2>1 DEF IInv, MovesInOrder
  <2> QED BY <2>1, <2>2 DEF Mover
<1>3. start \in Message /\ start.kind = "start" /\ start.run = r
  BY <1>1 DEF Message, Moves
<1> HIDE DEF start, r
<1>4. /\ UNCHANGED <<scenario, stage, timeline, agentPrincipals, directory, verdict, cancelFlag, cancel, watching,
                     stream, log, answered, reaped, process>>
      /\ \/ /\ exec' = [exec EXCEPT ![r] = "refused"] /\ queue' = Tail(queue)
            /\ UNCHANGED <<agentStatus, runStatus, bus, activeExecution>>
         \/ /\ exec' = [exec EXCEPT ![r] = "starting"] /\ queue' = Append(Tail(queue), start)
            /\ agentStatus' = "busy" /\ runStatus' = [runStatus EXCEPT ![r] = "queued"]
            /\ bus' = Subscribe(bus, r, "service") /\ activeExecution' = r
  BY DEF Admit, Quietly, database, start, r
<1>5. /\ exec'[r] \in {"refused", "starting"} /\ \A q \in Runs : q # r => exec'[q] = exec[q]
      /\ exec' \in [Runs -> Fresh \cup Executing \cup {"starting", "ended"}]
      /\ "starting" \notin Fresh \cup Executing \cup Settling /\ exec[r] \in Fresh
      /\ exec[r] \notin Settling \cup Executing \cup {"starting", "running", "ended"}
  BY <1>1, <1>2, <1>4 DEF Fresh, Executing, Settling
<1>6. queue' \in Seq(Message)
  BY <1>1, <1>3, <1>4
<1>7. \E M \in SUBSET {start} : /\ Serves(1, M)
                                /\ M # {} => exec'[r] = "starting" /\ Len(queue') = Len(queue)
                                /\ M = {} => exec'[r] = "refused"
  BY <1>1, <1>3, <1>4, QueueShapes
<1>8. PICK M \in SUBSET {start} : /\ Serves(1, M)
                                  /\ M # {} => exec'[r] = "starting" /\ Len(queue') = Len(queue)
                                  /\ M = {} => exec'[r] = "refused"
  BY <1>7
<1>9. MovesInOrder'
  <2>1. \A i : i > 1 /\ i \in DOMAIN queue /\ queue[i].kind \in Moves => queue[i].run # r
    BY <1>2
  <2>2. \A s \in M : /\ s.kind = "start" /\ s.run = r /\ exec'[r] = Mover("start") /\ Len(queue') <= Len(queue) - 1 + 1
    <3>1. Len(queue) \in Nat /\ Len(queue') \in Nat
      BY <1>1, <1>6
    <3> QED BY <1>3, <1>8, <3>1 DEF Mover
  <2>3. exec'[r] = "starting" => \E i \in DOMAIN queue' : Is(i, "start", r)'
    <3> SUFFICES ASSUME exec'[r] = "starting" PROVE \E i \in DOMAIN queue' : Is(i, "start", r)'
      OBVIOUS
    <3>1. M # {} /\ Len(queue') = Len(queue) /\ Len(queue) \in Nat /\ Len(queue) >= 1
      BY <1>1, <1>8
    <3>2. PICK n \in Nat : n = Len(queue)
      BY <3>1
    <3>3. n \in DOMAIN queue' /\ queue'[n] \in M
      <4>1. n \in (n - 1 + 1)..Len(queue')
        BY <3>1, <3>2
      <4>2. queue'[n] \in M
        BY <1>8, <3>2, <4>1 DEF Serves
      <4> QED BY <1>6, <3>1, <3>2, <4>2
    <3>4. queue'[n].kind = "start" /\ queue'[n].run = r
      BY <1>3, <3>3
    <3> QED BY <3>3, <3>4 DEF Is
  <2>4. queue[1].kind = "admit"
    BY <1>1
  <2>5. MovesInOrder
    BY DEF IInv
  <2> QED BY <1>1, <1>5, <1>6, <1>8, <2>1, <2>2, <2>3, <2>4, <2>5, MovesStep
<1>10. /\ World' \in Worlds /\ Buffered(World)' /\ Streaming(World)'
       /\ \A q \in Runs : "service" \in bus.listeners[q] => "service" \in bus'.listeners[q]
       /\ exec'[r] = "starting" => "service" \in bus'.listeners[r]
  <2>1. CASE bus' = bus /\ exec'[r] = "refused"
    <3>1. World' \in Worlds /\ Buffered(World)' /\ Streaming(World)'
      BY <1>1, <1>4, <1>6, <2>1, QuietStep
    <3> QED BY <2>1, <3>1
  <2>2. CASE bus' = Subscribe(bus, r, "service")
    <3>1. /\ bus' \in Bus /\ bus'.buffers = bus.buffers /\ bus'.seq = bus.seq
          /\ \A q \in Runs : bus'.listeners[q] = IF q = r THEN bus.listeners[q] \cup {"service"} ELSE bus.listeners[q]
      <4> DEFINE l == [bus.listeners EXCEPT ![r] = @ \cup {"service"}]
      <4>1. /\ bus = [seq |-> bus.seq, buffers |-> bus.buffers, listeners |-> bus.listeners]
            /\ bus.seq \in Nat /\ bus.buffers \in Seq(Buffer) /\ bus.listeners \in [Runs -> SUBSET Listeners]
        BY <1>1, Typed DEF Bus
      <4>2. /\ l \in [Runs -> SUBSET Listeners]
            /\ \A q \in Runs : l[q] = IF q = r THEN bus.listeners[q] \cup {"service"} ELSE bus.listeners[q]
        BY <1>1, <4>1 DEF Listeners
      <4>3. bus' = [bus EXCEPT !.listeners = l]
        BY <2>2 DEF Subscribe
      <4> HIDE DEF l
      <4>4. bus' = [seq |-> bus.seq, buffers |-> bus.buffers, listeners |-> l]
        BY <4>1, <4>3
      <4> QED BY <4>1, <4>2, <4>4 DEF Bus
    <3>2. log[r] = << >>
      BY <1>1, <1>5 DEF IInv, Announced, IsAnnounced
    <3>3. World' \in Worlds
      BY <1>1, <1>4, <1>6, <3>1, Typed DEF World, Worlds, stream
    <3>4. Buffered(World)'
      <4>1. \A i \in DOMAIN bus.buffers : bus.buffers[i].events # << >> /\ bus.buffers[i].events \in Seq(RunEvent)
                                          /\ IsTail(bus.buffers[i].events, log[bus.buffers[i].run])
                                          /\ bus.buffers[i].run \in Runs
        <5> DEFINE bs == bus.buffers
        <5>1. bs \in Seq(Buffer)
          BY <1>1, Typed DEF Bus
        <5>2. \A i \in DOMAIN bs : /\ bs[i].events # << >> /\ IsTail(bs[i].events, log[bs[i].run])
          BY <1>1 DEF Buffered, World
        <5> HIDE DEF bs
        <5>3. \A i \in DOMAIN bs : bs[i] \in Buffer
          BY <5>1
        <5> QED BY <5>2, <5>3 DEF Buffer, bs
      <4>2. \A i \in DOMAIN bus.buffers : bus.buffers[i].run # r
        <5> SUFFICES ASSUME NEW i \in DOMAIN bus.buffers, bus.buffers[i].run = r PROVE FALSE
          OBVIOUS
        <5> DEFINE s == bus.buffers[i].events
        <5>1. s \in Seq(RunEvent) /\ s # << >> /\ Len(s) <= Len(log[r])
          BY <4>1 DEF IsTail
        <5> HIDE DEF s
        <5> QED BY <3>2, <5>1
      <4>3. \A q : IsBuffered(bus', q) <=> IsBuffered(bus, q)
        BY <3>1 DEF IsBuffered
      <4>4. ASSUME NEW i \in DOMAIN bus'.buffers
            PROVE  LET b == bus'.buffers[i] IN
                   /\ b.events # << >> /\ IsTail(b.events, log'[b.run])
                   /\ "service" \in bus'.listeners[b.run] => IsWhole(b.events, log'[b.run])
        <5> DEFINE b == bus.buffers[i]
        <5>1. /\ bus'.buffers[i] = b /\ b.run \in Runs /\ b.run # r /\ log' = log
              /\ b.events # << >> /\ IsTail(b.events, log[b.run])
              /\ "service" \in bus.listeners[b.run] => IsWhole(b.events, log[b.run])
          BY <1>1, <1>4, <3>1, <4>1, <4>2 DEF Buffered, World
        <5> HIDE DEF b
        <5> QED BY <3>1, <5>1
      <4>5. ASSUME NEW q \in Runs, "service" \in bus'.listeners[q] PROVE log'[q] = << >> \/ IsBuffered(bus', q)
        BY <1>1, <1>4, <3>1, <3>2, <4>3, <4>5 DEF Buffered, World
      <4> QED BY <4>4, <4>5 DEF Buffered, World
    <3>5. Streaming(World)'
      <4>1. \A w \in Watchers, q \in Runs : w \in bus'.listeners[q] <=> w \in bus.listeners[q]
        BY <3>1, ScenariosAssumption
      <4> QED BY <1>1, <1>4, <4>1 DEF Streaming, StreamsTo, Shipped, World, stream, watching
    <3> QED BY <3>1, <3>3, <3>4, <3>5, <1>1
  <2> QED BY <1>1, <1>4, <2>1, <2>2
<1>11. TypeOK'
  <2>1. activeExecution' \in Runs \cup {NoRun} /\ agentStatus' \in {"ready", "busy", "error"}
        /\ runStatus' \in [Runs -> Active \cup TERMINAL_STAGES \cup {"unused"}]
    BY <1>1, <1>4 DEF TypeOK, Active
  <2> QED BY <1>1, <1>4, <1>5, <1>10, <2>1 DEF TypeOK, watching, process
<1>12. ProcessIsAwaited'
  <2>1. active.run # r \/ ~Running
    BY <1>5 DEF IInv, ProcessIsAwaited
  <2>2. active.run \in Runs \cup {NoRun}
    BY <1>1 DEF TypeOK, Entry
  <2> QED BY <1>4, <1>5, <2>1, <2>2 DEF IInv, ProcessIsAwaited, Running, process
<1>13. FollowsItsExecution(r)' /\ IsListenedTo(r)' /\ IsAnnounced(r)'
  <2>1. /\ r \notin reaped /\ reaped' = reaped /\ runStatus[r] = "unused" /\ log[r] = << >> /\ log' = log
        /\ exec'[r] \notin Settling \cup Executing
    BY <1>1, <1>4, <1>5 DEF IInv, StatusFollows, FollowsItsExecution, StatusAt, Announced, IsAnnounced, Settling, Executing
  <2>2. \/ exec'[r] = "starting" /\ runStatus'[r] = "queued"
        \/ exec'[r] = "refused" /\ runStatus'[r] = "unused"
    <3>1. exec' = [exec EXCEPT ![r] = "refused"] => exec'[r] = "refused"
      BY <1>1
    <3>2. exec' = [exec EXCEPT ![r] = "starting"] => exec'[r] = "starting"
      BY <1>1
    <3>3. runStatus' = [runStatus EXCEPT ![r] = "queued"] => runStatus'[r] = "queued"
      BY <1>1 DEF TypeOK
    <3> QED BY <1>4, <2>1, <3>1, <3>2, <3>3
  <2>3. FollowsItsExecution(r)'
    BY <2>1, <2>2 DEF FollowsItsExecution, StatusAt, Fresh
  <2>4. IsListenedTo(r)'
    BY <1>10, <2>1 DEF IsListenedTo
  <2>5. Told(r)' = {} /\ runStatus'[r] \notin TERMINAL_STAGES
    BY <2>1, <2>2 DEF Told, TERMINAL_STAGES
  <2>6. IsAnnounced(r)'
    BY <2>1, <2>5 DEF IsAnnounced
  <2> QED BY <2>3, <2>4, <2>6
<1>14. \A q \in Runs : q # r => runStatus'[q] = runStatus[q]
  BY <1>1, <1>4 DEF TypeOK
<1>15. StatusFollows' /\ ServiceListens' /\ Announced'
  BY <1>1, <1>4, <1>5, <1>10, <1>13, <1>14, OneRunMoves DEF IInv
<1>16. CancelsWait'
  <2>1. \A q \in Runs : Stopped(q) => Stopped(q)'
    BY <1>4, <1>5 DEF Stopped
  <2> QED BY <1>1, <1>4, <2>1, CancelsStay DEF IInv, process
<1>17. TablesInOrder' /\ MessagesHavePrincipals'
  <2>1. \A s \in M : s.kind = "start"
    BY <1>3
  <2> QED BY <1>1, <1>4, <1>6, <1>8, <2>1, PrincipalsStep DEF IInv
<1>18. EndsAreRecorded'
  <2>1. ASSUME NEW q \in Runs \ reaped PROVE EndIsRecorded(q)'
    <3>1. EndIsRecorded(q) /\ (exec'[q] = "ended" <=> exec[q] = "ended")
      BY <1>5 DEF IInv, EndsAreRecorded
    <3>2. exec[q] = "ended" => runStatus'[q] = runStatus[q]
      BY <1>5, <1>14
    <3>3. ~ Is(1, "event", q) /\ \A s \in M : s.kind = "start"
      BY <1>1, <1>3 DEF Is
    <3> QED BY <1>1, <1>4, <1>6, <1>8, <3>1, <3>2, <3>3, EndStep
  <2> QED BY <1>4, <2>1 DEF EndsAreRecorded
<1>19. WatchedAreUsed'
  BY <1>4, <1>5, WatchedStay DEF IInv, watching
<1> QED BY <1>9, <1>10, <1>11, <1>12, <1>15, <1>16, <1>17, <1>18, <1>19 DEF IInv

\* A run that starts was queued: the watchdog's turn comes after it.
LEMMA StartKeeps ==
  ASSUME IInv, queue # << >>, NEW m, m = Head(queue), m.kind = "start", Start(m)
  PROVE  IInv'
<1> DEFINE r == m.run
<1>1. /\ m = queue[1] /\ 1 \in DOMAIN queue /\ Tail(queue) \in Seq(Message) /\ r \in Runs
      /\ TypeOK /\ Buffered(World) /\ Streaming(World) /\ queue \in Seq(Message)
      /\ exec \in [Runs -> Fresh \cup Executing \cup {"starting", "ended"}]
      /\ runStatus \in [Runs -> Active \cup TERMINAL_STAGES \cup {"unused"}]
  BY HeadIsTyped, Typed DEF IInv, TypeOK, Moves
<1>2. exec[r] = "starting" /\ \A i \in DOMAIN queue : i > 1 /\ queue[i].kind \in Moves => queue[i].run # r
  <2>1. "start" \in Moves /\ exec[r] = Mover("start")
    BY <1>1 DEF IInv, MovesInOrder, Moves
  <2>2. \A i \in DOMAIN queue : queue[i].kind \in Moves /\ queue[i].run = r => i = 1
    BY <1>1, <2>1 DEF IInv, MovesInOrder
  <2> QED BY <2>1, <2>2 DEF Mover
<1> HIDE DEF r
<1>3. /\ runStatus' = [runStatus EXCEPT ![r] = "running"] /\ exec' = [exec EXCEPT ![r] = "checking"]
      /\ queue' = Tail(queue)
      /\ UNCHANGED <<scenario, agentStatus, stage, timeline, agentPrincipals, directory, verdict, activeExecution,
                     cancelFlag, cancel, watching, bus, log, stream, answered, reaped, process>>
  BY DEF Start, Quietly, r
<1>4. /\ exec'[r] = "checking" /\ \A q \in Runs : q # r => exec'[q] = exec[q]
      /\ exec' \in [Runs -> Fresh \cup Executing \cup {"starting", "ended"}]
      /\ runStatus'[r] = "running" /\ \A q \in Runs : q # r => runStatus'[q] = runStatus[q]
      /\ runStatus' \in [Runs -> Active \cup TERMINAL_STAGES \cup {"unused"}]
      /\ "checking" \in Executing /\ "checking" \notin Fresh \cup Settling \cup {"starting", "ended"}
      /\ "starting" \notin Fresh \cup Executing \cup Settling \cup {"running", "ended"}
  BY <1>1, <1>3 DEF Executing, Fresh, Settling, Active
<1>5. queue' \in Seq(Message) /\ Serves(1, {})
  BY <1>1, <1>3, QueueShapes
<1>6. World' \in Worlds /\ Buffered(World)' /\ Streaming(World)'
  BY <1>1, <1>3, <1>5, QuietStep
<1>7. TypeOK'
  BY <1>1, <1>3, <1>4, <1>6 DEF TypeOK, watching, process
<1>8. ProcessIsAwaited'
  <2>1. active.run # r \/ ~Running
    BY <1>2 DEF IInv, ProcessIsAwaited
  <2>2. active.run \in Runs \cup {NoRun}
    BY <1>1 DEF TypeOK, Entry
  <2> QED BY <1>3, <1>4, <2>1, <2>2 DEF IInv, ProcessIsAwaited, Running, process
<1>9. MovesInOrder'
  <2>1. /\ MovesInOrder /\ exec'[r] # "starting" /\ exec'[r] \notin Fresh
        /\ queue[1].run = r
    BY <1>1, <1>4 DEF IInv, r
  <2> QED BY <1>1, <1>2, <1>4, <1>5, <2>1, MovesStep
<1>10. FollowsItsExecution(r)' /\ IsListenedTo(r)' /\ IsAnnounced(r)'
  <2>1. /\ r \notin reaped /\ runStatus[r] = "queued" /\ "service" \in bus.listeners[r]
        /\ Told(r) = {} /\ \A i \in DOMAIN log[r] : log[r][i].severity # "error"
    BY <1>1, <1>2, <1>4 DEF IInv, StatusFollows, FollowsItsExecution, StatusAt, ServiceListens, IsListenedTo,
                            Announced, IsAnnounced, TERMINAL_STAGES
  <2>2. FollowsItsExecution(r)'
    BY <1>3, <1>4, <2>1 DEF FollowsItsExecution, StatusAt
  <2>3. IsListenedTo(r)'
    BY <1>3, <2>1 DEF IsListenedTo
  <2>4. Told(r)' = Told(r)
    BY <1>3 DEF Told, Over
  <2>5. IsAnnounced(r)'
    BY <1>3, <1>4, <2>1, <2>4 DEF IsAnnounced, TERMINAL_STAGES
  <2> QED BY <2>2, <2>3, <2>5
<1>11. StatusFollows' /\ ServiceListens' /\ Announced'
  BY <1>1, <1>3, <1>4, <1>10, OneRunMoves DEF IInv
<1>12. CancelsWait'
  <2>1. \A q \in Runs : Stopped(q) => Stopped(q)'
    BY <1>2, <1>3, <1>4 DEF Stopped
  <2> QED BY <1>1, <1>3, <2>1, CancelsStay DEF IInv, process
<1>13. TablesInOrder' /\ MessagesHavePrincipals'
  BY <1>1, <1>3, <1>5, PrincipalsStep DEF IInv
<1>14. EndsAreRecorded'
  <2>1. ASSUME NEW q \in Runs \ reaped PROVE EndIsRecorded(q)'
    <3>1. /\ EndIsRecorded(q) /\ (exec'[q] = "ended" <=> exec[q] = "ended")
          /\ exec[q] = "ended" => runStatus'[q] = runStatus[q]
      BY <1>2, <1>4 DEF IInv, EndsAreRecorded
    <3>2. ~ Is(1, "event", q)
      BY <1>1 DEF Is
    <3> QED BY <1>1, <1>3, <1>5, <3>1, <3>2, EndStep
  <2> QED BY <1>3, <2>1 DEF EndsAreRecorded
<1>15. WatchedAreUsed'
  BY <1>1, <1>3, <1>4, WatchedStay DEF IInv, watching
<1> QED BY <1>6, <1>7, <1>8, <1>9, <1>11, <1>12, <1>13, <1>14, <1>15 DEF IInv

\* The closing mutation is under way.
LEMMA FinishKeeps == ASSUME IInv, NEW r \in Runs, Finish(r) PROVE IInv'
<1> DEFINE m == [kind |-> "close", run |-> r]
<1>1. /\ TypeOK /\ Buffered(World) /\ Streaming(World) /\ queue \in Seq(Message)
      /\ exec \in [Runs -> Fresh \cup Executing \cup {"starting", "ended"}]
  BY Typed DEF IInv, TypeOK
<1>2. /\ exec[r] = "scanning" /\ exec' = [exec EXCEPT ![r] = "closing"] /\ queue' = Append(queue, m)
      /\ UNCHANGED <<scenario, database, directory, verdict, activeExecution, cancelFlag, cancel, watching,
                     bus, log, stream, answered, reaped, process>>
  BY DEF Finish, Quietly
<1>3. m \in Message /\ m.kind = "close" /\ m.run = r
  BY DEF Message, Moves
<1> HIDE DEF m
<1>4. /\ exec'[r] = "closing" /\ \A q \in Runs : q # r => exec'[q] = exec[q]
      /\ exec' \in [Runs -> Fresh \cup Executing \cup {"starting", "ended"}]
      /\ {"scanning", "closing"} \subseteq Executing \cap Settling
      /\ "closing" \notin Fresh \cup {"starting", "ended", "running"}
      /\ "scanning" \notin Fresh \cup {"starting", "ended", "running"}
  BY <1>1, <1>2 DEF Executing, Fresh, Settling
<1>5. queue' \in Seq(Message) /\ Serves(0, {m}) /\ Len(queue') = Len(queue) + 1
  BY <1>1, <1>2, <1>3, QueueShapes
<1>6. World' \in Worlds /\ Buffered(World)' /\ Streaming(World)'
  BY <1>1, <1>2, <1>5, QuietStep
<1>7. TypeOK'
  BY <1>1, <1>2, <1>4, <1>6 DEF TypeOK, database, watching, process
<1>8. ProcessIsAwaited'
  <2>1. active.run # r \/ ~Running
    BY <1>2 DEF IInv, ProcessIsAwaited
  <2>2. active.run \in Runs \cup {NoRun}
    BY <1>1 DEF TypeOK, Entry
  <2> QED BY <1>2, <1>4, <2>1, <2>2 DEF IInv, ProcessIsAwaited, Running, process
<1>9. MovesInOrder'
  <2>1. \A i \in DOMAIN queue : queue[i].kind \in Moves => queue[i].run # r
    BY <1>2 DEF IInv, MovesInOrder, Mover
  <2>2. MovesInOrder /\ exec'[r] = Mover("close") /\ exec'[r] # "starting" /\ exec'[r] \notin Fresh
    BY <1>4 DEF IInv, Mover
  <2>3. Len(queue) \in Nat
    BY <1>1
  <2> QED BY <1>1, <1>3, <1>4, <1>5, <2>1, <2>2, <2>3, MovesStep
<1>10. FollowsItsExecution(r)' /\ IsListenedTo(r)' /\ IsAnnounced(r)'
  <2>1. FollowsItsExecution(r)' /\ IsListenedTo(r)'
    <3>1. FollowsItsExecution(r) /\ IsListenedTo(r)
      BY DEF IInv, StatusFollows, ServiceListens
    <3>2. StatusAt(r) = "running" /\ StatusAt(r)' = "running"
      BY <1>2, <1>4 DEF StatusAt
    <3>3. FollowsItsExecution(r)'
      <4>1. runStatus' = runStatus /\ verdict' = verdict /\ reaped' = reaped
        BY <1>2 DEF database
      <4> QED BY <1>2, <1>4, <3>1, <3>2, <4>1 DEF FollowsItsExecution
    <3>4. IsListenedTo(r)'
      BY <1>2, <1>4, <3>1 DEF IsListenedTo
    <3> QED BY <3>3, <3>4
  <2>2. Told(r)' = Told(r)
    BY <1>2 DEF Told, Over
  <2>3. IsAnnounced(r) /\ log' = log /\ runStatus' = runStatus /\ verdict' = verdict /\ reaped' = reaped
    BY <1>2 DEF IInv, Announced, database
  <2>4. IsAnnounced(r)'
    BY <1>2, <1>4, <2>2, <2>3 DEF IsAnnounced
  <2> QED BY <2>1, <2>4
<1>11. StatusFollows' /\ ServiceListens' /\ Announced'
  BY <1>1, <1>2, <1>4, <1>10, OneRunMoves DEF IInv, database
<1>12. CancelsWait'
  <2>1. \A q \in Runs : Stopped(q) => Stopped(q)'
    BY <1>2, <1>4 DEF Stopped
  <2> QED BY <1>1, <1>2, <2>1, CancelsStay DEF IInv, process
<1>13. TablesInOrder' /\ MessagesHavePrincipals'
  BY <1>1, <1>2, <1>3, <1>5, PrincipalsStep DEF IInv, database
<1>14. EndsAreRecorded'
  <2>1. ASSUME NEW q \in Runs \ reaped PROVE EndIsRecorded(q)'
    <3>1. EndIsRecorded(q) /\ (exec'[q] = "ended" <=> exec[q] = "ended")
      BY <1>2, <1>4 DEF IInv, EndsAreRecorded
    <3> QED BY <1>1, <1>2, <1>3, <1>5, <3>1, EndStep DEF database
  <2> QED BY <1>2, <2>1 DEF EndsAreRecorded
<1>15. WatchedAreUsed'
  BY <1>1, <1>2, <1>4, WatchedStay DEF IInv, watching
<1> QED BY <1>6, <1>7, <1>8, <1>9, <1>11, <1>12, <1>13, <1>14, <1>15 DEF IInv

\* The watchdog's mutation is under way; the start of its run is ahead of it or past.
LEMMA ReapKeeps == ASSUME IInv, NEW r \in Runs, Reap(r) PROVE IInv'
<1> DEFINE m == [kind |-> "reap", run |-> r]
<1>1. /\ TypeOK /\ Buffered(World) /\ Streaming(World) /\ queue \in Seq(Message)
  BY Typed DEF IInv
<1>2. /\ runStatus[r] \in Active /\ queue' = Append(queue, m)
      /\ UNCHANGED <<scenario, database, directory, running, watching, bus, log, stream, answered, reaped, process>>
  BY DEF Reap, Quietly
<1>3. m \in Message /\ m.kind = "reap" /\ m.run = r
  BY DEF Message
<1> HIDE DEF m
<1>4. exec' = exec /\ verdict' = verdict /\ cancel' = cancel
  BY <1>2 DEF running
<1>5. queue' \in Seq(Message) /\ Serves(0, {m}) /\ Len(queue') = Len(queue) + 1
  BY <1>1, <1>2, <1>3, QueueShapes
<1>6. World' \in Worlds /\ Buffered(World)' /\ Streaming(World)'
  BY <1>1, <1>2, <1>5, QuietStep
<1>7. TypeOK'
  BY <1>1, <1>2, <1>6 DEF TypeOK, database, running, watching, process
<1>8. ProcessIsAwaited'
  BY <1>2, <1>4 DEF IInv, ProcessIsAwaited, Running, process
<1>9. MovesInOrder'
  <2>1. exec[r] \notin Fresh
    <3>1. FollowsItsExecution(r)
      BY DEF IInv, StatusFollows
    <3>2. exec[r] \in Fresh => StatusAt(r) = "unused"
      BY DEF StatusAt, Fresh, Executing
    <3> QED BY <1>2, <3>1, <3>2 DEF FollowsItsExecution, Active
  <2>2. MovesInOrder /\ "reap" \notin Moves
    BY DEF IInv, Moves
  <2> QED BY <1>1, <1>3, <1>4, <1>5, <2>1, <2>2, MovesStep
<1>10. StatusFollows' /\ ServiceListens' /\ Announced'
  BY <1>2, <1>4, RunsStay DEF IInv, database
<1>11. CancelsWait'
  <2>1. \A q \in Runs : Stopped(q) => Stopped(q)'
    BY <1>4 DEF Stopped
  <2> QED BY <1>1, <1>2, <1>4, <2>1, CancelsStay DEF IInv, process
<1>12. TablesInOrder' /\ MessagesHavePrincipals'
  BY <1>1, <1>2, <1>3, <1>5, PrincipalsStep DEF IInv, database
<1>13. EndsAreRecorded'
  <2>1. ASSUME NEW q \in Runs \ reaped PROVE EndIsRecorded(q)'
    BY <1>1, <1>2, <1>3, <1>4, <1>5, EndStep DEF IInv, EndsAreRecorded, database
  <2> QED BY <1>2, <2>1 DEF EndsAreRecorded
<1>14. WatchedAreUsed'
  BY <1>1, <1>2, <1>4, WatchedStay DEF IInv, watching
<1> QED BY <1>6, <1>7, <1>8, <1>9, <1>10, <1>11, <1>12, <1>13, <1>14 DEF IInv

\* Closing a pipeline leaves nothing in it open, and records how it ended.
LEMMA FinalizedIsClosed ==
  ASSUME NEW t \in TimelineType, NEW s \in TERMINAL_STAGES
  PROVE  LET f == FinalizeTimeline(t, s) IN
         /\ f \in TimelineType /\ f.ends = Append(t.ends, s)
         /\ \A i \in Step : f.steps[i] \notin Open \cup {"pending"}
<1> DEFINE f == FinalizeTimeline(t, s)
<1>1. \A x \in Status : Closed(x, s) \in Status /\ Closed(x, s) \notin Open \cup {"pending"}
  BY DEF Closed, Status, Open
<1>2. t.steps \in [Step -> Status] /\ t.ends \in Seq(TERMINAL_STAGES)
  BY DEF TimelineType
<1>3. Append(t.ends, s) \in Seq(TERMINAL_STAGES)
  BY <1>2
<1>4. f.steps = [i \in Step |-> Closed(t.steps[i], s)] /\ f.ends = Append(t.ends, s)
      /\ f = [steps |-> f.steps, ends |-> f.ends]
  BY DEF FinalizeTimeline
<1> HIDE DEF f
<1>5. \A i \in Step : f.steps[i] = Closed(t.steps[i], s) /\ t.steps[i] \in Status
  BY <1>2, <1>4
<1>6. f.steps \in [Step -> Status]
  BY <1>1, <1>2, <1>4
<1>7. f \in TimelineType
  BY <1>3, <1>4, <1>6 DEF TimelineType
<1> QED BY <1>1, <1>4, <1>5, <1>7 DEF f

\* An event that does not end a run shows up in its pipeline, so there is a stage to show.
LEMMA AppliedIsShown ==
  ASSUME NEW t \in TimelineType, NEW e \in RunEvent, ~Over(e)
  PROVE  LET f == ApplyEventToTimeline(t, e) IN
         f \in TimelineType /\ f.ends = t.ends /\ StageShown(f) \in Stages
<1> DEFINE f == ApplyEventToTimeline(t, e)
           P == PIPELINE_STAGES
           Hit == {i \in Step : f.steps[i] \in Open \cup {"failed"}}
           Moved(i) == IF \E s \in Step : P[s] = e.stage /\ i < s THEN Passed(t.steps[i])
                       ELSE IF P[i] = e.stage THEN Shown(e) ELSE t.steps[i]
<1>1. /\ Step = 1..9 /\ P[1] = "queued" /\ P[2] = "recon" /\ P[3] = "manifest" /\ P[4] = "permit"
      /\ P[5] = "approval" /\ P[6] = "container" /\ P[7] = "codex" /\ P[8] = "parsing" /\ P[9] = "reconciliation"
  BY DEF Step, PIPELINE_STAGES
<1>2. e.stage \in {"container", "codex", "parsing"} /\ Shown(e) \in {"failed", "active"}
  BY DEF RunEvent, Emitted, Over, Shown
<1>3. t.steps \in [Step -> Status] /\ t.ends \in Seq(TERMINAL_STAGES)
      /\ t = [steps |-> t.steps, ends |-> t.ends]
  BY DEF TimelineType
<1>4. \A x \in Status : Passed(x) \in Status
  BY DEF Passed, Status, Open
<1>5. f = [steps |-> [i \in Step |-> Moved(i)], ends |-> t.ends]
  BY <1>3 DEF ApplyEventToTimeline
<1>6. PICK k \in Step : P[k] = e.stage /\ \A s \in Step : P[s] = e.stage => s = k
  <2> HIDE DEF P
  <2>1. CASE e.stage = "container"
    BY <1>1, <2>1
  <2>2. CASE e.stage = "codex"
    BY <1>1, <2>2
  <2>3. CASE e.stage = "parsing"
    BY <1>1, <2>3
  <2> QED BY <1>2, <2>1, <2>2, <2>3
<1>7. ~ \E s \in Step : P[s] = e.stage /\ k < s
  <2> HIDE DEF P
  <2>1. k \in Nat
    BY <1>1
  <2> QED BY <1>6, <2>1
<1>8. Moved(k) = Shown(e)
  BY <1>6, <1>7
<1>9. \A i \in Step : Moved(i) \in Status
  <2> TAKE i \in Step
  <2>1. t.steps[i] \in Status /\ Passed(t.steps[i]) \in Status /\ Shown(e) \in Status
    BY <1>2, <1>3, <1>4 DEF Status, Open
  <2> QED BY <2>1
<1> HIDE DEF Moved, f
<1>10. f.steps = [i \in Step |-> Moved(i)] /\ f.ends = t.ends
  BY <1>5
<1>11. f \in TimelineType
  BY <1>3, <1>5, <1>9 DEF TimelineType
<1>12. f.steps[k] = Shown(e)
  BY <1>8, <1>10
<1>13. k \in Hit /\ Hit \subseteq Step
  BY <1>2, <1>12 DEF Open
<1>14. Min(Hit) \in Step
  <2> HIDE DEF Hit, P
  <2>1. Hit \subseteq Nat /\ Hit # {}
    BY <1>1, <1>13
  <2>2. Min(Hit) \in Hit
    BY <2>1, MinIsLeast
  <2> QED BY <1>13, <2>2
<1>15. P[Min(Hit)] \in Stages
  BY <1>14 DEF Stages, Range, Step
<1>16. StageShown(f) = P[Min(Hit)]
  BY DEF StageShown
<1> QED BY <1>10, <1>11, <1>15, <1>16 DEF f

\* The end of a run is recorded when it is the last of its events in the queue.
LEMMA RecordKeeps ==
  ASSUME IInv, queue # << >>, NEW m, m = Head(queue), m.kind = "event", Record(m)
  PROVE  IInv'
<1> DEFINE r     == m.run
           shown == ApplyEventToTimeline(timeline[r], m.event)
           ended == FinalizeTimeline(timeline[r], m.event.stage)
<1>1. /\ m = queue[1] /\ 1 \in DOMAIN queue /\ Tail(queue) \in Seq(Message) /\ r \in Runs
      /\ m.event \in RunEvent
      /\ TypeOK /\ Buffered(World) /\ Streaming(World) /\ queue \in Seq(Message)
      /\ timeline \in [Runs -> TimelineType] /\ stage \in [Runs -> Stages]
  BY HeadIsTyped, Typed DEF IInv, TypeOK
<1>2. /\ \/ /\ Over(m.event) /\ timeline' = [timeline EXCEPT ![r] = ended]
            /\ stage' = [stage EXCEPT ![r] = m.event.stage]
         \/ /\ ~Over(m.event) /\ timeline' = [timeline EXCEPT ![r] = shown]
            /\ stage' = [stage EXCEPT ![r] = StageShown(shown)]
      /\ queue' = Tail(queue)
      /\ UNCHANGED <<scenario, agentStatus, runStatus, agentPrincipals, directory, running, watching,
                     bus, log, stream, answered, reaped, process>>
  BY DEF Record, Quietly
<1>3. exec' = exec /\ verdict' = verdict /\ cancel' = cancel
  BY <1>2 DEF running
<1>4. Over(m.event) => /\ ended \in TimelineType /\ ended.ends = Append(timeline[r].ends, m.event.stage)
                       /\ \A i \in Step : ended.steps[i] \notin Open \cup {"pending"}
                       /\ m.event.stage \in Stages
  BY <1>1, FinalizedIsClosed DEF Over, Stages
<1>5. ~Over(m.event) => shown \in TimelineType /\ shown.ends = timeline[r].ends /\ StageShown(shown) \in Stages
  BY <1>1, AppliedIsShown
<1> HIDE DEF r, shown, ended
<1>6. queue' \in Seq(Message) /\ Serves(1, {})
  BY <1>1, <1>2, QueueShapes
<1>7. World' \in Worlds /\ Buffered(World)' /\ Streaming(World)'
  BY <1>1, <1>2, <1>6, QuietStep
<1>8. timeline' \in [Runs -> TimelineType] /\ stage' \in [Runs -> Stages]
  BY <1>1, <1>2, <1>4, <1>5
<1>9. TypeOK'
  BY <1>1, <1>2, <1>7, <1>8 DEF TypeOK, running, watching, process
<1>10. ProcessIsAwaited'
  BY <1>2, <1>3 DEF IInv, ProcessIsAwaited, Running, process
<1>11. MovesInOrder'
  <2>1. MovesInOrder /\ queue[1].kind = "event"
    BY <1>1 DEF IInv
  <2> QED BY <1>1, <1>3, <1>6, <2>1, MovesStep
<1>12. StatusFollows' /\ ServiceListens' /\ Announced'
  BY <1>2, <1>3, RunsStay DEF IInv
<1>13. CancelsWait'
  <2>1. \A q \in Runs : Stopped(q) => Stopped(q)'
    BY <1>3 DEF Stopped
  <2> QED BY <1>1, <1>2, <1>3, <2>1, CancelsStay DEF IInv, process
<1>14. TablesInOrder' /\ MessagesHavePrincipals'
  BY <1>1, <1>2, <1>6, PrincipalsStep DEF IInv
<1>15. ASSUME r \notin reaped PROVE EndIsRecorded(r)'
  <2>1. EndIsRecorded(r) /\ Is(1, "event", r)
    BY <1>1, <1>15 DEF IInv, EndsAreRecorded, Is, r
  <2>2. /\ DOMAIN queue' = 1..Len(queue') /\ Len(queue') \in Nat /\ Len(queue) \in Nat
        /\ \A i \in DOMAIN queue' : i + 1 \in DOMAIN queue /\ queue'[i] = queue[i + 1]
        /\ \A i \in DOMAIN queue : i > 1 => i - 1 \in DOMAIN queue' /\ queue'[i - 1] = queue[i]
    <3>1. /\ DOMAIN queue' = 1..Len(queue') /\ Len(queue') \in Nat /\ Len(queue) \in Nat
          /\ \A i \in DOMAIN queue' :
               \/ i <= Len(queue) - 1 /\ i + 1 \in DOMAIN queue /\ queue'[i] = queue[i + 1]
               \/ i > Len(queue) - 1 /\ queue'[i] \in {}
          /\ \A i \in DOMAIN queue : i > 1 => i - 1 \in DOMAIN queue' /\ queue'[i - 1] = queue[i]
      BY <1>1, <1>6, Origin
    <3> QED BY <3>1
  <2>3. \A i \in DOMAIN queue' : Is(i, "event", r)' => Is(i + 1, "event", r)
    BY <2>2 DEF Is
  <2>4. runStatus' = runStatus /\ r \in Runs
    BY <1>1, <1>2
  <2>5. CASE exec[r] # "ended"
    <3>1. ~Over(m.event) /\ timeline[r].ends = << >>
      BY <1>1, <2>1, <2>5 DEF EndIsRecorded
    <3>2. timeline'[r].ends = << >>
      BY <1>1, <1>2, <1>5, <3>1
    <3>3. \A i \in DOMAIN queue : Is(i, "event", r) => ~Over(queue[i].event)
      BY <2>1, <2>5 DEF EndIsRecorded
    <3>4. \A i \in DOMAIN queue' : Is(i, "event", r)' => ~Over(queue'[i].event)
      BY <2>2, <2>3, <3>3
    <3> QED BY <1>3, <2>5, <3>2, <3>4 DEF EndIsRecorded, Over
  <2>6. CASE exec[r] = "ended"
    <3>1. timeline[r].ends = << >> /\ \E i \in DOMAIN queue : IsLast(i, r)
      BY <1>1, <2>1, <2>6 DEF EndIsRecorded
    <3>2. PICK i \in DOMAIN queue : IsLast(i, r)
      BY <3>1
    <3>3. CASE i = 1
      <4>1. queue[1].event.stage = runStatus[r]
        BY <3>2, <3>3 DEF IsLast
      <4>2. m.event.stage = runStatus[r]
        BY <1>1, <4>1
      <4>3. runStatus[r] \in TERMINAL_STAGES
        BY <1>15, <2>4, <2>6 DEF IInv, StatusFollows, FollowsItsExecution, StatusAt, Settling, Fresh, Executing
      <4>4. Over(m.event)
        BY <4>2, <4>3 DEF Over
      <4>5. timeline'[r] = ended /\ stage'[r] = runStatus[r]
        BY <1>1, <1>2, <4>2, <4>4
      <4>6. ended.ends = <<runStatus[r]>>
        BY <1>4, <3>1, <4>2, <4>4
      <4>7. IsRecorded(r)'
        BY <1>4, <2>4, <4>4, <4>5, <4>6 DEF IsRecorded
      <4>8. ASSUME NEW j \in DOMAIN queue' PROVE ~ Is(j, "event", r)'
        <5>1. j + 1 # 1 /\ ~ (j + 1 < 1)
          BY <2>2
        <5> QED BY <2>2, <2>3, <3>2, <3>3, <5>1 DEF IsLast
      <4> QED BY <1>3, <2>6, <4>7, <4>8 DEF EndIsRecorded
    <3>4. CASE i # 1
      <4>1. ~Over(queue[1].event) /\ i > 1
        BY <1>1, <2>1, <2>2, <3>2, <3>4 DEF IsLast
      <4>2. timeline'[r].ends = << >>
        BY <1>1, <1>2, <1>5, <3>1, <4>1
      <4>3. PICK k : k = i - 1 /\ k \in DOMAIN queue' /\ queue'[k] = queue[i] /\ k + 1 = i
        BY <1>1, <2>2, <4>1
      <4>4. Is(k, "event", r)' /\ queue'[k].event.stage = runStatus'[r]
        BY <2>4, <3>2, <4>3 DEF IsLast, Is
      <4>5. ASSUME NEW j \in DOMAIN queue', Is(j, "event", r)', j # k PROVE j < k /\ ~Over(queue'[j].event)
        <5>1. j + 1 \in DOMAIN queue /\ queue'[j] = queue[j + 1] /\ Is(j + 1, "event", r) /\ j + 1 # i
          BY <2>2, <2>3, <4>3, <4>5
        <5>2. j + 1 < i /\ ~Over(queue[j + 1].event)
          BY <3>2, <5>1 DEF IsLast
        <5> QED BY <2>2, <4>3, <5>1, <5>2
      <4>6. IsLast(k, r)'
        BY <4>4, <4>5 DEF IsLast, Over
      <4> QED BY <1>3, <2>6, <4>2, <4>3, <4>6 DEF EndIsRecorded
    <3> QED BY <3>3, <3>4
  <2> QED BY <2>5, <2>6
<1>16. EndsAreRecorded'
  <2>1. ASSUME NEW q \in Runs \ reaped, q # r PROVE EndIsRecorded(q)'
    <3>1. EndIsRecorded(q) /\ ~ Is(1, "event", q)
      BY <1>1, <2>1 DEF IInv, EndsAreRecorded, Is, r
    <3>2. timeline'[q] = timeline[q] /\ stage'[q] = stage[q] /\ runStatus'[q] = runStatus[q]
      BY <1>1, <1>2, <2>1
    <3> QED BY <1>1, <1>3, <1>6, <3>1, <3>2, EndStep
  <2> QED BY <1>2, <1>15, <2>1 DEF EndsAreRecorded
<1>17. WatchedAreUsed'
  BY <1>1, <1>2, <1>3, WatchedStay DEF IInv, watching
<1> QED BY <1>7, <1>9, <1>10, <1>11, <1>12, <1>13, <1>14, <1>16, <1>17 DEF IInv

\* Revoking or rotating revokes the principal in use, and none other.
LEMMA ChangeRevokesOne ==
  ASSUME NEW t \in Tables, ActiveFor(t, Agent) # 0,
         NEW u \in {Revoke(t, ActiveFor(t, Agent)), Rotate(t, Agent)}
  PROVE  u \in Tables /\ DOMAIN t \subseteq DOMAIN u /\ Revoked(u) = Revoked(t) \cup {ActiveFor(t, Agent)}
<1> DEFINE P    == Principals({Agent}, {Owner})
           a    == ActiveFor(t, Agent)
           x    == Revoke(t, a)
           mint == [agentId |-> Agent, ownerId |-> t[a].ownerId, version |-> 1, revoked |-> FALSE]
           y    == Append(x, mint)
           z    == [y EXCEPT ![Len(y)].version = t[a].version + 1]
<1>1. a \in DOMAIN t /\ t \in Seq(P)
  BY ActiveIsLive DEF Tables
<1>2. t[a] \in P /\ mint \in P /\ t[a].version + 1 \in Nat
  <2>1. t[a] \in P
    BY <1>1
  <2> QED BY <2>1 DEF Principals
<1>3. x = [t EXCEPT ![a].revoked = TRUE]
  BY DEF Revoke
<1>4. Rotate(t, Agent) = z
  BY DEF Rotate, MintAgentPrincipal
<1> HIDE DEF a, mint
<1>5. /\ x \in Seq(P) /\ DOMAIN x = DOMAIN t /\ Len(x) = Len(t)
      /\ \A p \in DOMAIN t : x[p].revoked <=> t[p].revoked \/ p = a
  <2> DEFINE n == Len(t) e == [t[a] EXCEPT !.revoked = TRUE]
  <2>1. /\ n \in Nat /\ DOMAIN t = 1..n /\ \A p \in 1..n : t[p] \in P
    BY <1>1
  <2>2. e \in P /\ e.revoked
    BY <1>2 DEF Principals
  <2>3. x = [p \in 1..n |-> IF p = a THEN e ELSE t[p]]
    BY <1>3, <2>1
  <2> HIDE DEF n, e, x, P
  <2>4. \A p \in 1..n : x[p] \in P /\ x[p] = IF p = a THEN e ELSE t[p]
    BY <2>1, <2>2, <2>3
  <2>5. x \in Seq(P) /\ Len(x) = n /\ DOMAIN x = 1..n
    BY <2>1, <2>3, <2>4
  <2> QED BY <2>1, <2>2, <2>4, <2>5 DEF n
<1>6. Revoked(x) = Revoked(t) \cup {a}
  BY <1>1, <1>5 DEF Revoked
<1>7. /\ z \in Seq(P) /\ DOMAIN t \subseteq DOMAIN z /\ Revoked(z) = Revoked(t) \cup {a}
  <2> DEFINE n == Len(x) e == [mint EXCEPT !.version = t[a].version + 1]
  <2>1. /\ n \in Nat /\ DOMAIN x = 1..n /\ y \in Seq(P) /\ Len(y) = n + 1 /\ DOMAIN y = 1..(n + 1)
        /\ y[n + 1] = mint /\ \A p \in 1..n : y[p] = x[p] /\ x[p] \in P
    <3> HIDE DEF x, P
    <3> QED BY <1>2, <1>5
  <2>2. e \in P /\ ~ e.revoked
    BY <1>2 DEF Principals, mint
  <2>3. z = [p \in 1..(n + 1) |-> IF p = n + 1 THEN e ELSE y[p]]
    <3> HIDE DEF x, n, y, e, P
    <3>1. z = [y EXCEPT ![n + 1] = [@ EXCEPT !.version = t[a].version + 1]]
      BY <2>1
    <3>2. [y[n + 1] EXCEPT !.version = t[a].version + 1] = e
      BY <2>1 DEF e
    <3> HIDE DEF z
    <3> QED BY <2>1, <3>1, <3>2
  <2> HIDE DEF n, e, x, y, z, P
  <2>4. \A p \in 1..n : z[p] = x[p]
    BY <2>1, <2>3
  <2>5. z[n + 1] = e /\ DOMAIN z = 1..(n + 1) /\ \A p \in 1..(n + 1) : z[p] \in P
    BY <2>1, <2>2, <2>3
  <2>6. z \in Seq(P)
    BY <2>1, <2>3, <2>5
  <2>7. Revoked(z) = Revoked(x)
    <3>1. \A p \in 1..n : z[p].revoked <=> x[p].revoked
      BY <2>4
    <3>2. \A p \in 1..(n + 1) : p \in 1..n \/ p = n + 1
      BY <2>1
    <3> QED BY <2>1, <2>2, <2>5, <3>1, <3>2 DEF Revoked
  <2> QED BY <1>5, <1>6, <2>1, <2>5, <2>6, <2>7
<1> QED BY <1>4, <1>5, <1>6, <1>7 DEF Tables, a, P

\* A table is under way in which the principal that was in use is revoked.
LEMMA ChangePrincipalsKeeps == ASSUME IInv, ChangePrincipals PROVE IInv'
<1> DEFINE a == ActiveFor(directory, Agent)
           m == [kind |-> "principals", run |-> NoRun, kept |-> directory', revoked |-> a]
<1>1. /\ TypeOK /\ Buffered(World) /\ Streaming(World) /\ queue \in Seq(Message) /\ directory \in Tables
  BY Typed DEF IInv, TypeOK
<1>2. /\ a # 0 /\ directory' \in {Revoke(directory, a), Rotate(directory, Agent)} /\ queue' = Append(queue, m)
      /\ UNCHANGED <<scenario, database, running, watching, bus, log, stream, answered, reaped, process>>
  BY DEF ChangePrincipals, Quietly
<1>3. directory' \in Tables /\ DOMAIN directory \subseteq DOMAIN directory' /\ Revoked(directory') = Revoked(directory) \cup {a}
      /\ a \in Nat
  BY <1>1, <1>2, ChangeRevokesOne, ActiveIsLive
<1> HIDE DEF a
<1>4. m \in Message /\ m.kind = "principals" /\ m.kept = directory' /\ m.revoked = a
  BY <1>3 DEF Message
<1> HIDE DEF m
<1>5. exec' = exec /\ verdict' = verdict /\ cancel' = cancel /\ agentPrincipals' = agentPrincipals
  BY <1>2 DEF running, database
<1>6. queue' \in Seq(Message) /\ Serves(0, {m})
  BY <1>1, <1>2, <1>4, QueueShapes
<1>7. World' \in Worlds /\ Buffered(World)' /\ Streaming(World)'
  BY <1>1, <1>2, <1>6, QuietStep
<1>8. TypeOK'
  BY <1>1, <1>2, <1>3, <1>7 DEF TypeOK, database, running, watching, process
<1>9. ProcessIsAwaited'
  BY <1>2, <1>5 DEF IInv, ProcessIsAwaited, Running, process
<1>10. ASSUME NEW r \in Runs PROVE MovesInOrder'
  BY <1>1, <1>4, <1>5, <1>6, MovesStep DEF IInv, Moves
<1>11. MovesInOrder'
  <2>1. CASE Runs = {}
    <3>1. \A i \in DOMAIN queue' : queue'[i] \in Message
      BY <1>6
    <3>2. \A i \in DOMAIN queue' : queue'[i].kind \notin Moves
      BY <2>1, <3>1 DEF Message, Moves
    <3> QED BY <2>1, <3>2 DEF MovesInOrder
  <2> QED BY <1>10, <2>1
<1>12. StatusFollows' /\ ServiceListens' /\ Announced'
  BY <1>2, <1>5, RunsStay DEF IInv, database
<1>13. CancelsWait'
  <2>1. \A q \in Runs : Stopped(q) => Stopped(q)'
    BY <1>5 DEF Stopped
  <2> QED BY <1>1, <1>2, <1>5, <2>1, CancelsStay DEF IInv, process
<1>14. /\ DOMAIN queue' = 1..Len(queue') /\ DOMAIN queue = 1..Len(queue) /\ Len(queue) \in Nat /\ Len(queue') \in Nat
       /\ \A i \in DOMAIN queue' :
            \/ i <= Len(queue) /\ i \in DOMAIN queue /\ queue'[i] = queue[i]
            \/ i > Len(queue) /\ queue'[i] = m
       /\ Len(queue') = Len(queue) + 1
  BY <1>1, <1>2, <1>4, <1>6
<1>15. TablesInOrder'
  <2>1. /\ \A i \in DOMAIN queue : Keeps(i) =>
             /\ queue[i].revoked \in Revoked(queue[i].kept)
             /\ Revoked(agentPrincipals) \subseteq Revoked(queue[i].kept)
             /\ Revoked(queue[i].kept) \subseteq Revoked(directory)
        /\ \A i, j \in DOMAIN queue : Keeps(i) /\ Keeps(j) /\ i < j =>
             Revoked(queue[i].kept) \subseteq Revoked(queue[j].kept)
        /\ answered \subseteq Revoked(agentPrincipals) /\ Revoked(agentPrincipals) \subseteq Revoked(directory)
    BY DEF IInv, TablesInOrder
  <2>2. \A i \in DOMAIN queue' : Keeps(i)' =>
          \/ i \in DOMAIN queue /\ i <= Len(queue) /\ queue'[i] = queue[i] /\ Keeps(i)
          \/ i > Len(queue) /\ queue'[i] = m
    BY <1>14 DEF Keeps
  <2>3. ASSUME NEW i \in DOMAIN queue', Keeps(i)'
        PROVE  /\ queue'[i].revoked \in Revoked(queue'[i].kept)
               /\ Revoked(agentPrincipals) \subseteq Revoked(queue'[i].kept)
               /\ Revoked(queue'[i].kept) \subseteq Revoked(directory')
    BY <1>3, <1>4, <2>1, <2>2, <2>3
  <2>4. ASSUME NEW i \in DOMAIN queue', NEW j \in DOMAIN queue', Keeps(i)', Keeps(j)', i < j
        PROVE  Revoked(queue'[i].kept) \subseteq Revoked(queue'[j].kept)
    <3>1. CASE queue'[j] = m
      BY <1>4, <2>3, <2>4, <3>1
    <3>2. CASE queue'[j] # m
      <4>1. j <= Len(queue)
        BY <2>2, <2>4, <3>2
      <4>2. i <= Len(queue) /\ ~ (i > Len(queue))
        BY <1>14, <2>4, <4>1
      <4> QED BY <2>1, <2>2, <2>4, <3>2, <4>2
    <3> QED BY <3>1, <3>2
  <2>5. answered' = answered
    BY <1>2
  <2>6. answered' \subseteq Revoked(agentPrincipals)' /\ Revoked(agentPrincipals)' \subseteq Revoked(directory)'
    BY <1>3, <1>5, <2>1, <2>5 DEF Revoked
  <2> HIDE DEF Revoked
  <2> QED BY <1>5, <2>3, <2>4, <2>6 DEF TablesInOrder
<1>16. MessagesHavePrincipals'
  <2> SUFFICES ASSUME NEW i \in DOMAIN queue', queue'[i].kind = "admit"
               PROVE  \E p \in DOMAIN directory' :
                        p \notin answered /\ \A j \in DOMAIN queue' : Keeps(j)' /\ j < i => queue'[j].revoked # p
    BY <1>2 DEF MessagesHavePrincipals
  <2>1. i \in DOMAIN queue /\ queue[i].kind = "admit" /\ i <= Len(queue)
    BY <1>4, <1>14
  <2>2. PICK p \in DOMAIN directory :
          p \notin answered /\ \A j \in DOMAIN queue : Keeps(j) /\ j < i => queue[j].revoked # p
    BY <2>1 DEF IInv, MessagesHavePrincipals
  <2>3. ASSUME NEW j \in DOMAIN queue', Keeps(j)', j < i PROVE queue'[j].revoked # p
    <3>1. ~ (j > Len(queue))
      BY <1>14, <2>1, <2>3
    <3>2. j \in DOMAIN queue /\ queue'[j] = queue[j] /\ Keeps(j)
      BY <1>14, <2>3, <3>1 DEF Keeps
    <3> QED BY <2>2, <2>3, <3>2
  <2> QED BY <1>3, <2>2, <2>3
<1>17. EndsAreRecorded'
  <2>1. ASSUME NEW q \in Runs \ reaped PROVE EndIsRecorded(q)'
    BY <1>1, <1>2, <1>4, <1>5, <1>6, EndStep DEF IInv, EndsAreRecorded, database
  <2> QED BY <1>2, <2>1 DEF EndsAreRecorded
<1>18. WatchedAreUsed'
  BY <1>1, <1>2, <1>5, WatchedStay DEF IInv, watching
<1> QED BY <1>7, <1>8, <1>9, <1>11, <1>12, <1>13, <1>15, <1>16, <1>17, <1>18 DEF IInv

\* The table that is stored has every principal revoked that is answered for, and a
\* message that was ahead of no table keeps its principal.
LEMMA KeepPrincipalsKeeps ==
  ASSUME IInv, queue # << >>, NEW m, m = Head(queue), m.kind = "principals", KeepPrincipals(m)
  PROVE  IInv'
<1>1. /\ m = queue[1] /\ 1 \in DOMAIN queue /\ Tail(queue) \in Seq(Message)
      /\ m.kept \in Tables /\ m.revoked \in Nat
      /\ TypeOK /\ Buffered(World) /\ Streaming(World) /\ queue \in Seq(Message)
  BY HeadIsTyped, Typed DEF IInv
<1>2. /\ agentPrincipals' = m.kept /\ answered' = answered \cup {m.revoked} /\ queue' = Tail(queue)
      /\ UNCHANGED <<scenario, agentStatus, runStatus, stage, timeline, directory, running, watching,
                     bus, log, stream, reaped, process>>
  BY DEF KeepPrincipals, Quietly
<1>3. exec' = exec /\ verdict' = verdict /\ cancel' = cancel
  BY <1>2 DEF running
<1>4. queue' \in Seq(Message) /\ Serves(1, {})
  BY <1>1, <1>2, QueueShapes
<1>5. World' \in Worlds /\ Buffered(World)' /\ Streaming(World)'
  BY <1>1, <1>2, <1>4, QuietStep
<1>6. TypeOK'
  <2>1. agentPrincipals' \in Tables /\ answered' \subseteq Nat
    BY <1>1, <1>2 DEF TypeOK
  <2> QED BY <1>1, <1>2, <1>5, <2>1 DEF TypeOK, running, watching, process
<1>7. ProcessIsAwaited'
  BY <1>2, <1>3 DEF IInv, ProcessIsAwaited, Running, process
<1>8. ASSUME NEW r \in Runs PROVE MovesInOrder'
  <2>1. MovesInOrder /\ queue[1].kind = "principals"
    BY <1>1 DEF IInv
  <2> QED BY <1>1, <1>3, <1>4, <2>1, MovesStep
<1>9. MovesInOrder'
  <2>1. CASE Runs = {}
    <3>1. \A i \in DOMAIN queue' : queue'[i] \in Message
      BY <1>4
    <3>2. \A i \in DOMAIN queue' : queue'[i].kind \notin Moves
      BY <2>1, <3>1 DEF Message, Moves
    <3> QED BY <2>1, <3>2 DEF MovesInOrder
  <2> QED BY <1>8, <2>1
<1>10. StatusFollows' /\ ServiceListens' /\ Announced'
  BY <1>2, <1>3, RunsStay DEF IInv
<1>11. CancelsWait'
  <2>1. \A q \in Runs : Stopped(q) => Stopped(q)'
    BY <1>3 DEF Stopped
  <2> QED BY <1>1, <1>2, <1>3, <2>1, CancelsStay DEF IInv, process
<1>12. /\ DOMAIN queue' = 1..Len(queue') /\ Len(queue') \in Nat
       /\ \A i \in DOMAIN queue' : i + 1 \in DOMAIN queue /\ queue'[i] = queue[i + 1]
  <2>1. /\ DOMAIN queue' = 1..Len(queue') /\ Len(queue') \in Nat
        /\ \A i \in DOMAIN queue' :
             \/ i <= Len(queue) - 1 /\ i + 1 \in DOMAIN queue /\ queue'[i] = queue[i + 1]
             \/ i > Len(queue) - 1 /\ queue'[i] \in {}
    BY <1>1, <1>4, Origin
  <2> QED BY <2>1
<1>13. Keeps(1) /\ queue[1] = m
  BY <1>1 DEF Keeps
<1>14. \A i \in DOMAIN queue' : Keeps(i)' => Keeps(i + 1) /\ 1 < i + 1
  BY <1>12 DEF Keeps
<1>15. TablesInOrder'
  <2>1. /\ \A i \in DOMAIN queue : Keeps(i) =>
             /\ queue[i].revoked \in Revoked(queue[i].kept)
             /\ Revoked(agentPrincipals) \subseteq Revoked(queue[i].kept)
             /\ Revoked(queue[i].kept) \subseteq Revoked(directory)
        /\ \A i, j \in DOMAIN queue : Keeps(i) /\ Keeps(j) /\ i < j =>
             Revoked(queue[i].kept) \subseteq Revoked(queue[j].kept)
        /\ answered \subseteq Revoked(agentPrincipals)
    BY DEF IInv, TablesInOrder
  <2>2. /\ m.revoked \in Revoked(m.kept) /\ Revoked(agentPrincipals) \subseteq Revoked(m.kept)
        /\ Revoked(m.kept) \subseteq Revoked(directory)
    BY <1>1, <1>13, <2>1
  <2>3. answered' \subseteq Revoked(m.kept)
    BY <1>2, <2>1, <2>2
  <2>4. ASSUME NEW i \in DOMAIN queue', Keeps(i)'
        PROVE  /\ queue'[i].revoked \in Revoked(queue'[i].kept)
               /\ Revoked(m.kept) \subseteq Revoked(queue'[i].kept)
               /\ Revoked(queue'[i].kept) \subseteq Revoked(directory)
    BY <1>1, <1>12, <1>13, <1>14, <2>1, <2>4
  <2>5. ASSUME NEW i \in DOMAIN queue', NEW j \in DOMAIN queue', Keeps(i)', Keeps(j)', i < j
        PROVE  Revoked(queue'[i].kept) \subseteq Revoked(queue'[j].kept)
    <3>1. i + 1 < j + 1
      BY <1>12, <2>5
    <3> QED BY <1>12, <1>14, <2>1, <2>5, <3>1
  <2>6. directory' = directory /\ Revoked(agentPrincipals)' = Revoked(m.kept) /\ Revoked(directory)' = Revoked(directory)
    BY <1>2 DEF Revoked
  <2> HIDE DEF Revoked
  <2> QED BY <1>2, <2>2, <2>3, <2>4, <2>5, <2>6 DEF TablesInOrder
<1>16. MessagesHavePrincipals'
  <2> SUFFICES ASSUME NEW i \in DOMAIN queue', queue'[i].kind = "admit"
               PROVE  \E p \in DOMAIN directory :
                        p \notin answered' /\ \A j \in DOMAIN queue' : Keeps(j)' /\ j < i => queue'[j].revoked # p
    BY <1>2 DEF MessagesHavePrincipals
  <2>1. i + 1 \in DOMAIN queue /\ queue[i + 1].kind = "admit" /\ 1 < i + 1
    BY <1>12
  <2>2. PICK p \in DOMAIN directory :
          p \notin answered /\ \A j \in DOMAIN queue : Keeps(j) /\ j < i + 1 => queue[j].revoked # p
    BY <2>1 DEF IInv, MessagesHavePrincipals
  <2>3. p \notin answered'
    BY <1>1, <1>2, <1>13, <2>1, <2>2
  <2>4. ASSUME NEW j \in DOMAIN queue', Keeps(j)', j < i PROVE queue'[j].revoked # p
    <3>1. j + 1 < i + 1
      BY <1>12, <2>4
    <3> QED BY <1>12, <1>14, <2>2, <2>4, <3>1
  <2> QED BY <2>2, <2>3, <2>4
<1>17. EndsAreRecorded'
  <2>1. ASSUME NEW q \in Runs \ reaped PROVE EndIsRecorded(q)'
    <3>1. EndIsRecorded(q) /\ ~ Is(1, "event", q)
      BY <1>1 DEF IInv, EndsAreRecorded, Is
    <3> QED BY <1>1, <1>2, <1>3, <1>4, <3>1, EndStep
  <2> QED BY <1>2, <2>1 DEF EndsAreRecorded
<1>18. WatchedAreUsed'
  BY <1>1, <1>2, <1>3, WatchedStay DEF IInv, watching
<1> QED BY <1>5, <1>6, <1>7, <1>9, <1>10, <1>11, <1>15, <1>16, <1>17, <1>18 DEF IInv

\* A step of the process, or of a cancel that waits for it.
LEMMA OnlyProcessMoves ==
  ASSUME IInv, UNCHANGED <<scenario, database, queue, directory, exec, verdict, activeExecution, watching,
                           bus, log, stream, answered, reaped>>
  PROVE  /\ World' \in Worlds /\ Buffered(World)' /\ Streaming(World)' /\ MovesInOrder'
         /\ StatusFollows' /\ ServiceListens' /\ Announced' /\ TablesInOrder' /\ MessagesHavePrincipals'
         /\ EndsAreRecorded' /\ WatchedAreUsed'
         /\ \A q \in Runs : Stopped(q) => Stopped(q)'
<1>1. TypeOK /\ Buffered(World) /\ Streaming(World) /\ queue \in Seq(Message) /\ queue' \in Seq(Message)
  BY Typed DEF IInv
<1>2. Serves(0, {})
  BY <1>1, QueueShapes
<1>3. World' \in Worlds /\ Buffered(World)' /\ Streaming(World)'
  BY <1>1, QuietStep
<1>4. MovesInOrder'
  BY DEF IInv, MovesInOrder, Is
<1>5. StatusFollows' /\ ServiceListens' /\ Announced'
  BY RunsStay DEF IInv, database
<1>6. TablesInOrder' /\ MessagesHavePrincipals'
  BY <1>1, <1>2, PrincipalsStep DEF IInv, database
<1>7. EndsAreRecorded'
  <2>1. ASSUME NEW q \in Runs \ reaped PROVE EndIsRecorded(q)'
    BY <1>1, <1>2, EndStep DEF IInv, EndsAreRecorded, database
  <2> QED BY <2>1 DEF EndsAreRecorded
<1>8. WatchedAreUsed'
  BY <1>1, WatchedStay DEF IInv, watching
<1>9. \A q \in Runs : Stopped(q) => Stopped(q)'
  BY DEF Stopped
<1> QED BY <1>3, <1>4, <1>5, <1>6, <1>7, <1>8, <1>9

\* Ending the child leaves the entry of the active map where it is.
LEMMA TerminateKeepsTheEntry ==
  ASSUME TypeOK, NEW e \in Entry, e.run \in Runs, Terminate(e)
  PROVE  /\ active' \in Entry /\ active'.run = e.run /\ active'.cancelled = e.cancelled
         /\ removal' \in [Runs -> {"none", "asked", "answered"}]
<1>1. active' = [e EXCEPT !.forceKill = @ \/ (provider = "local-process" /\ child = "alive")]
  BY DEF Terminate
<1>2. e = [run |-> e.run, cancelled |-> e.cancelled, timedOut |-> e.timedOut,
           outputExceeded |-> e.outputExceeded, forceKill |-> e.forceKill]
  BY DEF Entry
<1> DEFINE f == e.forceKill \/ (provider = "local-process" /\ child = "alive")
<1>3. f \in BOOLEAN
  BY DEF Entry
<1>4. active' = [run |-> e.run, cancelled |-> e.cancelled, timedOut |-> e.timedOut,
                 outputExceeded |-> e.outputExceeded, forceKill |-> f]
  BY <1>1, <1>2
<1> HIDE DEF f
<1>5. active' \in Entry /\ active'.run = e.run /\ active'.cancelled = e.cancelled
  BY <1>3, <1>4 DEF Entry
<1>6. removal' \in [Runs -> {"none", "asked", "answered"}]
  BY DEF TypeOK, Terminate
<1> QED BY <1>5, <1>6

\* The process exits, is killed, or is told to end.
LEMMA ProcessMovesKeeps == ASSUME IInv, ProcessMoves PROVE IInv'
<1>1. /\ TypeOK /\ active \in Entry /\ ProcessIsAwaited
      /\ UNCHANGED <<scenario, database, directory, running, watching, queue, bus, log, stream, answered, reaped>>
      /\ exec' = exec /\ verdict' = verdict /\ cancel' = cancel /\ activeExecution' = activeExecution
  BY DEF IInv, TypeOK, ProcessMoves, Quietly, running
<1>2. Exit \/ KillTimer \/ Overflow \/ Timeout
  BY DEF ProcessMoves
<1>3. /\ ProcessIsAwaited' /\ provider' = provider /\ child' \in {"none", "alive", "exited"}
      /\ exit' \in Exits \cup {"none"} /\ active' \in Entry /\ active'.run = active.run
      /\ active'.cancelled = active.cancelled /\ removal' \in [Runs -> {"none", "asked", "answered"}]
  <2>1. CASE Exit \/ KillTimer
    <3>1. /\ child = "alive" /\ child' = "exited" /\ exit' \in Exits
          /\ UNCHANGED <<provider, active, removal>>
      BY <2>1 DEF Exit, KillTimer, Exits
    <3>2. ProcessIsAwaited'
      BY <1>1, <3>1 DEF ProcessIsAwaited, Running, Exits
    <3> QED BY <1>1, <3>1, <3>2 DEF TypeOK
  <2>2. CASE Overflow \/ Timeout
    <3> DEFINE x == [active EXCEPT !.outputExceeded = TRUE] y == [active EXCEPT !.timedOut = TRUE]
    <3>1. x \in Entry /\ x.run = active.run /\ x.cancelled = active.cancelled
      BY <1>1 DEF Entry
    <3>2. y \in Entry /\ y.run = active.run /\ y.cancelled = active.cancelled
      BY <1>1 DEF Entry
    <3>3. Running /\ UNCHANGED <<provider, child, exit>> /\ (Terminate(x) \/ Terminate(y))
      BY <2>2 DEF Overflow, Timeout
    <3> HIDE DEF x, y
    <3>4. active.run \in Runs
      BY <1>1, <3>3 DEF Entry, Running
    <3>5. /\ active' \in Entry /\ active'.run = active.run /\ active'.cancelled = active.cancelled
          /\ removal' \in [Runs -> {"none", "asked", "answered"}]
      BY <1>1, <3>1, <3>2, <3>3, <3>4, TerminateKeepsTheEntry
    <3>6. ProcessIsAwaited'
      BY <1>1, <3>3, <3>5 DEF ProcessIsAwaited, Running
    <3> QED BY <1>1, <3>3, <3>5, <3>6 DEF TypeOK
  <2> QED BY <1>2, <2>1, <2>2
<1>4. /\ World' \in Worlds /\ Buffered(World)' /\ Streaming(World)' /\ MovesInOrder'
      /\ StatusFollows' /\ ServiceListens' /\ Announced' /\ TablesInOrder' /\ MessagesHavePrincipals'
      /\ EndsAreRecorded' /\ WatchedAreUsed' /\ \A q \in Runs : Stopped(q) => Stopped(q)'
  BY <1>1, OnlyProcessMoves
<1>5. TypeOK'
  BY <1>1, <1>3, <1>4 DEF TypeOK, database, running, watching
<1>6. CancelsWait'
  <2>1. \A q : Marked(q)' = Marked(q)
    BY <1>3 DEF Marked
  <2>2. \A q \in Runs : cancel[q].told \in Runs \cup {NoRun}
    BY <1>1 DEF TypeOK, Request
  <2> QED BY <1>1, <1>4, <2>1, <2>2 DEF IInv, CancelsWait
<1> QED BY <1>3, <1>4, <1>5, <1>6 DEF IInv

\* A request to cancel stays one whatever it waits for next.
LEMMA AwaitsIsTyped ==
  ASSUME TypeOK, NEW c \in Request
  PROVE  /\ Awaits(c) \in Request /\ Awaits(c).phase \in {"awaiting", "answered"} /\ Awaits(c).told = c.told
         /\ \A p \in {"settling", "answered"} :
              [c EXCEPT !.phase = p] \in Request /\ [c EXCEPT !.phase = p].phase = p /\ [c EXCEPT !.phase = p].told = c.told
<1>1. c = [phase |-> c.phase, told |-> c.told, awaits |-> c.awaits]
      /\ activeExecution \in Runs \cup {NoRun}
  BY DEF Request, TypeOK
<1>2. ASSUME activeExecution = NoRun
      PROVE  Awaits(c) = [phase |-> "answered", told |-> c.told, awaits |-> c.awaits]
  BY <1>1, <1>2 DEF Awaits
<1>3. ASSUME activeExecution # NoRun
      PROVE  Awaits(c) = [phase |-> "awaiting", told |-> c.told, awaits |-> activeExecution]
  BY <1>1, <1>3 DEF Awaits
<1>4. Awaits(c) \in Request /\ Awaits(c).phase \in {"awaiting", "answered"} /\ Awaits(c).told = c.told
  BY <1>1, <1>2, <1>3 DEF Request
<1>5. \A p \in {"settling", "answered"} : [c EXCEPT !.phase = p] = [phase |-> p, told |-> c.told, awaits |-> c.awaits]
  BY <1>1
<1>6. c.told \in Runs \cup {NoRun} /\ c.awaits \in Runs \cup {NoRun}
  BY DEF Request
<1> QED BY <1>4, <1>5, <1>6 DEF Request

\* A cancel goes on once its container is removed.
LEMMA RemovedKeeps == ASSUME IInv, NEW r \in Runs, Removed(r) PROVE IInv'
<1> DEFINE Waits(c) == cancel[c].phase = "removing" /\ cancel[c].told = r
           Goes(c)  == IF active.run = r THEN [cancel[c] EXCEPT !.phase = "settling"] ELSE Awaits(cancel[c])
<1>1. /\ RemovalAnswers(r)
      /\ cancel' = [c \in Runs |-> IF Waits(c) THEN Goes(c) ELSE cancel[c]]
      /\ cancelFlag' \in BOOLEAN
      /\ UNCHANGED <<scenario, database, directory, exec, verdict, activeExecution, watching, queue, bus, log,
                     stream, answered, reaped>>
  <2>1. \A x : (cancelFlag /\ x) \in BOOLEAN
    OBVIOUS
  <2> QED BY <2>1 DEF Removed, Quietly
<1>2. TypeOK /\ active \in Entry /\ ProcessIsAwaited /\ cancel \in [Runs -> Request] /\ r # NoRun
  BY ScenariosAssumption DEF IInv, TypeOK
<1>3. /\ World' \in Worlds /\ Buffered(World)' /\ Streaming(World)' /\ MovesInOrder'
      /\ StatusFollows' /\ ServiceListens' /\ Announced' /\ TablesInOrder' /\ MessagesHavePrincipals'
      /\ EndsAreRecorded' /\ WatchedAreUsed' /\ \A q \in Runs : Stopped(q) => Stopped(q)'
  BY <1>1, OnlyProcessMoves
<1>4. /\ ProcessIsAwaited' /\ provider' = provider /\ child' \in {"none", "alive", "exited"}
      /\ exit' \in Exits \cup {"none"} /\ active' \in Entry /\ active'.run = active.run
      /\ active'.cancelled = active.cancelled /\ removal' \in [Runs -> {"none", "asked", "answered"}]
  <2>1. /\ \/ child = "alive" /\ child' = "exited" /\ exit' = "failed" /\ active' = active
           \/ UNCHANGED <<child, exit, active>>
           \/ active' = [active EXCEPT !.forceKill = TRUE] /\ UNCHANGED <<child, exit>>
        /\ removal' = [removal EXCEPT ![r] = "answered"] /\ provider' = provider /\ exec' = exec
    BY <1>1 DEF RemovalAnswers
  <2>2. removal' \in [Runs -> {"none", "asked", "answered"}]
    BY <2>1 DEF IInv, TypeOK
  <2>3. active' \in Entry /\ active'.run = active.run /\ active'.cancelled = active.cancelled
    <3> DEFINE f == [active EXCEPT !.forceKill = TRUE]
    <3>1. f \in Entry /\ f.run = active.run /\ f.cancelled = active.cancelled
      BY <1>2 DEF Entry
    <3>2. active' = active \/ active' = f
      BY <2>1
    <3> HIDE DEF f
    <3> QED BY <1>2, <3>1, <3>2
  <2>4. /\ child' \in {"none", "alive", "exited"} /\ exit' \in Exits \cup {"none"}
    BY <2>1 DEF IInv, TypeOK, Exits
  <2>5. ProcessIsAwaited'
    BY <2>1, <2>3 DEF IInv, ProcessIsAwaited, Running
  <2> QED BY <2>1, <2>2, <2>3, <2>4, <2>5
<1>5. \A c \in Runs : /\ Goes(c) \in Request /\ Goes(c).told = cancel[c].told
                      /\ IF active.run = r THEN Goes(c).phase = "settling" ELSE Goes(c).phase \in {"awaiting", "answered"}
  BY <1>2, AwaitsIsTyped
<1> HIDE DEF Goes
<1>6. cancel' \in [Runs -> Request]
  BY <1>1, <1>2, <1>5
<1>7. TypeOK'
  BY <1>1, <1>2, <1>3, <1>4, <1>6 DEF TypeOK, database, watching
<1>8. CancelsWait'
  <2>1. \A q : Marked(q)' = Marked(q)
    BY <1>4 DEF Marked
  <2>2. \A c \in Runs : cancel[c].told \in Runs \cup {NoRun}
    BY <1>2 DEF Request
  <2>3. ~ (Running /\ active.run = r /\ Stopped(r))
    BY <1>2 DEF ProcessIsAwaited, Stopped, Settling
  <2> DEFINE Fine(c) ==
        /\ c.phase = "none" => c.told = NoRun
        /\ c.phase \in {"removing", "settling"} => c.told # NoRun
        /\ c.phase = "settling" => Marked(c.told)
        /\ c.phase = "removing" => Marked(c.told) \/ Stopped(c.told)
        /\ c.phase \in {"awaiting", "answered"} /\ c.told # NoRun => Stopped(c.told)
  <2>4. ASSUME NEW c \in Runs PROVE Fine(cancel'[c])
    <3>1. Fine(cancel[c])
      BY DEF IInv, CancelsWait
    <3>2. CASE ~Waits(c)
      BY <1>1, <3>1, <3>2
    <3>3. CASE Waits(c)
      <4>1. cancel'[c] = Goes(c) /\ (Marked(r) \/ Stopped(r)) /\ Goes(c).told = r
        BY <1>1, <1>5, <3>1, <3>3
      <4>2. CASE active.run = r
        <5>1. Marked(r)
          BY <1>2, <2>3, <4>1, <4>2 DEF Running
        <5> QED BY <1>2, <1>5, <4>1, <4>2, <5>1
      <4>3. CASE active.run # r
        <5>1. Stopped(r)
          BY <4>1, <4>3 DEF Marked
        <5> QED BY <1>5, <4>1, <4>3, <5>1
      <4> QED BY <4>2, <4>3
    <3> QED BY <3>2, <3>3
  <2>5. \A c \in Runs : cancel'[c].told \in Runs \cup {NoRun}
    BY <1>6 DEF Request
  <2> QED BY <1>3, <2>1, <2>4, <2>5 DEF CancelsWait
<1> QED BY <1>3, <1>4, <1>7, <1>8 DEF IInv

\* A cancel marks the process it finds, and waits for it.
LEMMA CancelKeeps == ASSUME IInv, NEW r \in Runs, Cancel(r) PROVE IInv'
<1>1. /\ cancel[r].phase = "none"
      /\ UNCHANGED <<scenario, database, directory, exec, verdict, activeExecution, watching, queue, bus, log,
                     stream, answered, reaped>>
  BY DEF Cancel, Quietly
<1>2. TypeOK /\ active \in Entry /\ ProcessIsAwaited /\ cancel \in [Runs -> Request]
  BY DEF IInv, TypeOK
<1>3. /\ World' \in Worlds /\ Buffered(World)' /\ Streaming(World)' /\ MovesInOrder'
      /\ StatusFollows' /\ ServiceListens' /\ Announced' /\ TablesInOrder' /\ MessagesHavePrincipals'
      /\ EndsAreRecorded' /\ WatchedAreUsed' /\ \A q \in Runs : Stopped(q) => Stopped(q)'
  BY <1>1, OnlyProcessMoves
<1>4. CASE Running
  <2> DEFINE e == [active EXCEPT !.cancelled = TRUE]
             p == IF provider = "container" /\ removal[active.run] # "answered" THEN "removing" ELSE "settling"
  <2>1. /\ Terminate(e) /\ UNCHANGED <<provider, child, exit>>
        /\ cancel' = [cancel EXCEPT ![r].told = active.run, ![r].phase = p] /\ cancelFlag' = TRUE
    BY <1>4 DEF Cancel, Mark
  <2>2. active.run \in Runs /\ active.run # NoRun
    BY <1>2, <1>4 DEF Entry, Running
  <2>3. e \in Entry /\ e.run = active.run /\ e.cancelled
    BY <1>2 DEF Entry
  <2>4. p \in {"removing", "settling"}
    OBVIOUS
  <2> HIDE DEF e, p
  <2>5. /\ active' \in Entry /\ active'.run = active.run /\ active'.cancelled
        /\ removal' \in [Runs -> {"none", "asked", "answered"}]
    BY <1>2, <2>1, <2>2, <2>3, TerminateKeepsTheEntry
  <2>6. ProcessIsAwaited'
    BY <1>1, <1>2, <2>1, <2>5 DEF ProcessIsAwaited, Running
  <2>7. PICK d \in Request : cancel' = [cancel EXCEPT ![r] = d] /\ d.phase = p /\ d.told = active.run
    <3> DEFINE c == cancel[r]
               x == [c EXCEPT !.told = active.run]
               y == [x EXCEPT !.phase = p]
    <3>1. c = [phase |-> c.phase, told |-> c.told, awaits |-> c.awaits]
      BY <1>2 DEF Request
    <3>2. x = [phase |-> c.phase, told |-> active.run, awaits |-> c.awaits]
      BY <3>1
    <3>3. cancel' = [cancel EXCEPT ![r] = y]
      BY <1>2, <2>1
    <3> HIDE DEF x
    <3>4. y = [phase |-> p, told |-> active.run, awaits |-> c.awaits]
      BY <3>2
    <3>5. y \in Request /\ y.phase = p /\ y.told = active.run
      BY <1>2, <2>2, <2>4, <3>4 DEF Request
    <3> HIDE DEF y
    <3> QED BY <3>3, <3>5
  <2>8. cancel' \in [Runs -> Request] /\ cancel'[r] = d /\ \A q \in Runs : q # r => cancel'[q] = cancel[q]
    BY <1>2, <2>7
  <2>9. TypeOK'
    BY <1>1, <1>2, <1>3, <2>1, <2>5, <2>8 DEF TypeOK, database, watching
  <2>10. CancelsWait'
    <3>1. Marked(d.told)' /\ \A q : Marked(q) => Marked(q)'
      BY <2>1, <2>5, <2>7 DEF Marked
    <3>2. \A q \in Runs : cancel[q].told \in Runs \cup {NoRun}
      BY <1>2 DEF Request
    <3>3. d.phase \in {"removing", "settling"} /\ d.told # NoRun
      BY <2>2, <2>4, <2>7
    <3> QED BY <1>3, <2>8, <3>1, <3>2, <3>3 DEF IInv, CancelsWait
  <2> QED BY <1>3, <2>6, <2>9, <2>10 DEF IInv
<1>5. CASE ~Running
  <2>1. cancel' = [cancel EXCEPT ![r] = Awaits(@)] /\ cancelFlag' \in BOOLEAN /\ UNCHANGED process
    BY <1>5 DEF Cancel
  <2>2. /\ Awaits(cancel[r]) \in Request /\ Awaits(cancel[r]).told = cancel[r].told
        /\ Awaits(cancel[r]).phase \in {"awaiting", "answered"}
    BY <1>2, AwaitsIsTyped
  <2>3. /\ cancel' \in [Runs -> Request] /\ cancel'[r] = Awaits(cancel[r])
        /\ \A q \in Runs : q # r => cancel'[q] = cancel[q]
    BY <1>2, <2>1, <2>2
  <2>4. TypeOK'
    BY <1>1, <1>2, <1>3, <2>1, <2>3 DEF TypeOK, database, watching, process
  <2>5. ProcessIsAwaited'
    BY <1>1, <2>1 DEF IInv, ProcessIsAwaited, Running, process
  <2>6. CancelsWait'
    <3>1. \A q : Marked(q)' = Marked(q)
      BY <2>1 DEF Marked, process
    <3>2. \A q \in Runs : cancel[q].told \in Runs \cup {NoRun}
      BY <1>2 DEF Request
    <3>3. cancel[r].told = NoRun
      BY <1>1 DEF IInv, CancelsWait
    <3> QED BY <1>3, <2>2, <2>3, <3>1, <3>2, <3>3 DEF IInv, CancelsWait
  <2> QED BY <1>3, <2>4, <2>5, <2>6 DEF IInv
<1> QED BY <1>4, <1>5

\* A turn that announces no end.
LEMMA NoEndIsTold ==
  ASSUME log \in [Runs -> Seq(RunEvent)], log' \in [Runs -> Seq(RunEvent)], NEW r \in Runs, NEW E,
         LogGrown(log, log', r, E), \A e \in E : e.stage \notin TERMINAL_STAGES
  PROVE  /\ Told(r)' = Told(r) /\ Len(log'[r]) >= Len(log[r])
         /\ \A i \in DOMAIN log'[r] :
              \/ i \in DOMAIN log[r] /\ log'[r][i] = log[r][i]
              \/ i \notin DOMAIN log[r] /\ Says(log'[r][i]) \in E
         /\ \A i \in DOMAIN log[r] : i \in DOMAIN log'[r]
<1> DEFINE a == log[r] b == log'[r]
<1>1. /\ a \in Seq(RunEvent) /\ b \in Seq(RunEvent) /\ Len(b) >= Len(a)
      /\ \A i \in 1..Len(a) : b[i] = a[i]
      /\ \A i \in (Len(a) + 1)..Len(b) : Says(b[i]) \in E
  BY DEF LogGrown
<1>2. /\ Told(r) = {i \in DOMAIN a : Over(a[i])}
      /\ Told(r)' = {i \in DOMAIN b : Over(b[i])}
  BY DEF Told, Over
<1> HIDE DEF a, b
<1>3. /\ DOMAIN a = 1..Len(a) /\ DOMAIN b = 1..Len(b) /\ Len(a) \in Nat /\ Len(b) \in Nat
  BY <1>1
<1>4. \A i \in DOMAIN b : \/ i \in DOMAIN a /\ b[i] = a[i]
                          \/ i \notin DOMAIN a /\ Says(b[i]) \in E
  <2> TAKE i \in DOMAIN b
  <2>1. CASE i \in 1..Len(a)
    BY <1>1, <1>3, <2>1
  <2>2. CASE i \notin 1..Len(a)
    <3>1. i \in (Len(a) + 1)..Len(b)
      BY <1>3, <2>2
    <3> QED BY <1>1, <1>3, <2>2, <3>1
  <2> QED BY <2>1, <2>2
<1>5. \A i \in DOMAIN a : i \in DOMAIN b /\ b[i] = a[i]
  BY <1>1, <1>3
<1>6. \A e : Says(e) \in E => ~Over(e)
  <2> TAKE e
  <2>1. Says(e).stage = e.stage
    BY DEF Says
  <2> QED BY <2>1 DEF Over
<1>7. Told(r)' = Told(r)
  BY <1>2, <1>4, <1>5, <1>6
<1> QED BY <1>1, <1>4, <1>5, <1>7 DEF a, b

\* The start of a process says nothing of an end or of an error.
LEMMA StartSays ==
  ASSUME TRUE
  PROVE  /\ StartEvents \in Seq(Saying)
         /\ \A e \in Range(StartEvents) : e.stage \notin TERMINAL_STAGES /\ e.severity # "error"
<1> DEFINE a == [stage |-> "container", severity |-> "info"]
           b == [stage |-> "container", severity |-> "success"]
           c == [stage |-> "codex", severity |-> "info"]
<1>1. /\ a \in Saying /\ b \in Saying /\ c \in Saying
      /\ \A e \in {a, b, c} : e.stage \notin TERMINAL_STAGES /\ e.severity # "error"
  BY DEF Saying, Emitted, Severities, TERMINAL_STAGES
<1>2. StartEvents \in {<<a, b, c>>, <<c>>}
  BY DEF StartEvents
<1> HIDE DEF a, b, c
<1>3. <<a, b, c>> \in Seq(Saying) /\ <<c>> \in Seq(Saying)
  BY <1>1
<1>4. Range(<<a, b, c>>) \subseteq {a, b, c} /\ Range(<<c>>) \subseteq {a, b, c}
  BY DEF Range
<1> QED BY <1>1, <1>2, <1>3, <1>4

\* Nor does its end say that the run is over, and of an error only if the run failed.
LEMMA EndSays ==
  ASSUME exit \in Exits
  PROVE  /\ EndEvents \in Seq(Saying) /\ Verdict \in TERMINAL_STAGES
         /\ active.cancelled => Verdict = "cancelled"
         /\ \A e \in Range(EndEvents) :
              e.stage \notin TERMINAL_STAGES /\ (e.severity = "error" => Verdict = "failed")
<1> DEFINE a == [stage |-> "codex", severity |-> "info"]
           b == [stage |-> "parsing", severity |-> "info"]
           c == [stage |-> "codex", severity |-> "error"]
<1>1. /\ a \in Saying /\ b \in Saying /\ c \in Saying
      /\ \A e \in {a, b, c} : e.stage \notin TERMINAL_STAGES /\ (e.severity = "error" => e = c)
      /\ c \notin {a, b}
  BY DEF Saying, Emitted, Severities, TERMINAL_STAGES
<1>2. Verdict \in TERMINAL_STAGES /\ (active.cancelled => Verdict = "cancelled")
  BY DEF Verdict, TERMINAL_STAGES
<1>3. \/ EndEvents \in {<< >>, <<a, b>>, <<a>>}
      \/ EndEvents = <<c>> /\ ~CutShort /\ exit = "failed"
  BY DEF EndEvents, Exits
<1>4. ~CutShort /\ exit = "failed" => Verdict = "failed"
  BY DEF CutShort, Verdict
<1> HIDE DEF a, b, c
<1>5. << >> \in Seq(Saying) /\ <<a, b>> \in Seq(Saying) /\ <<a>> \in Seq(Saying) /\ <<c>> \in Seq(Saying)
  BY <1>1
<1>6. /\ Range(<< >>) = {} /\ Range(<<a, b>>) \subseteq {a, b} /\ Range(<<a>>) \subseteq {a, b}
      /\ Range(<<c>>) \subseteq {c}
  BY DEF Range
<1>7. EndEvents \in Seq(Saying)
  BY <1>3, <1>5
<1>8. CASE EndEvents = <<c>>
  <2>1. Verdict = "failed"
    BY <1>1, <1>3, <1>4, <1>8
  <2> QED BY <1>1, <1>2, <1>6, <1>7, <1>8, <2>1
<1>9. CASE EndEvents \in {<< >>, <<a, b>>, <<a>>}
  <2>1. Range(EndEvents) \subseteq {a, b}
    BY <1>6, <1>9
  <2> QED BY <1>1, <1>2, <1>7, <2>1
<1> QED BY <1>3, <1>8, <1>9

\* The process of a run settles, and the cancels that waited for it find it cancelled.
LEMMA ProcessEndsKeeps == ASSUME IInv, ProcessEnds PROVE IInv'
<1> DEFINE r == active.run
           E == Range(EndEvents)
           Waits(c) == cancel[c].phase = "settling" /\ cancel[c].told = r
<1>1. /\ TypeOK /\ Buffered(World) /\ Streaming(World) /\ ProcessIsAwaited /\ queue \in Seq(Message)
      /\ active \in Entry /\ cancel \in [Runs -> Request]
      /\ exec \in [Runs -> Fresh \cup Executing \cup {"starting", "ended"}]
      /\ verdict \in [Runs -> TERMINAL_STAGES \cup {"none"}]
      /\ log \in [Runs -> Seq(RunEvent)]
  BY Typed DEF IInv, TypeOK
<1>2. /\ child = "exited" /\ child' = "none" /\ exit' = "none" /\ active' = Idle
      /\ UNCHANGED <<provider, removal>>
      /\ exec' = [exec EXCEPT ![r] = "scanning"] /\ verdict' = [verdict EXCEPT ![r] = Verdict]
      /\ Publish(r, EndEvents, queue, {})
      /\ cancel' = [c \in Runs |-> IF Waits(c) THEN Awaits(cancel[c]) ELSE cancel[c]]
      /\ UNCHANGED <<scenario, database, directory, activeExecution, cancelFlag, watching, answered, reaped>>
  BY DEF ProcessEnds, Settle, Settled
<1>3. /\ r \in Runs /\ r # NoRun /\ exec[r] = "running" /\ exit \in Exits
  <2>1. Running /\ exit # "none" /\ exit \in Exits \cup {"none"}
    BY <1>1, <1>2 DEF ProcessIsAwaited, TypeOK
  <2> QED BY <1>1, <2>1 DEF ProcessIsAwaited, Running, Entry
<1>4. /\ EndEvents \in Seq(Saying) /\ Verdict \in TERMINAL_STAGES
      /\ active.cancelled => Verdict = "cancelled"
      /\ \A e \in E : e.stage \notin TERMINAL_STAGES /\ (e.severity = "error" => Verdict = "failed")
  BY <1>3, EndSays
<1>5. PICK x \in Runs, how \in TERMINAL_STAGES, S \in SUBSET Saying :
        /\ x = r /\ how = Verdict /\ S = E
        /\ \A e \in S : e.stage \notin TERMINAL_STAGES /\ (e.severity = "error" => how = "failed")
  <2>1. E \in SUBSET Saying
    BY <1>4 DEF Range
  <2> QED BY <1>3, <1>4, <2>1
<1>6. /\ World' \in Worlds /\ Buffered(World)' /\ Streaming(World)'
      /\ LogGrown(log, log', x, S) /\ QueueGrown(queue, queue', x, S)
      /\ \A q \in Runs : "service" \in bus'.listeners[q] <=> "service" \in bus.listeners[q]
  <2>1. UNCHANGED watching /\ {} \in {{}, {"service"}}
    BY <1>2
  <2> QED BY <1>1, <1>2, <1>3, <1>4, <1>5, <2>1, PublishGrows
<1>7. log' \in [Runs -> Seq(RunEvent)] /\ queue' \in Seq(Message)
  BY <1>6 DEF World, Worlds
<1>8. PICK M : M = Entries(x, S) /\ Serves(0, M)
  BY <1>1, <1>6, <1>7, QueueShapes
<1>9. /\ exec'[x] = "scanning" /\ \A q \in Runs : q # x => exec'[q] = exec[q]
      /\ exec' \in [Runs -> Fresh \cup Executing \cup {"starting", "ended"}]
      /\ verdict'[x] = how /\ \A q \in Runs : q # x => verdict'[q] = verdict[q]
      /\ verdict' \in [Runs -> TERMINAL_STAGES \cup {"none"}]
      /\ exec[x] = "running" /\ {"running", "scanning"} \subseteq Executing /\ "scanning" \in Settling
      /\ "running" \notin Fresh \cup Settling \cup {"starting", "ended"}
      /\ "scanning" \notin Fresh \cup {"starting", "ended"}
  BY <1>1, <1>2, <1>3, <1>5 DEF Executing, Fresh, Settling
<1>10. \A m \in M : m.kind = "event" /\ m.run = x /\ ~Over(m.event)
  <2> TAKE m \in M
  <2>1. m.kind = "event" /\ m.run = x /\ Says(m.event) \in S /\ Says(m.event).stage = m.event.stage
    BY <1>8 DEF Entries, Says
  <2> QED BY <1>5, <2>1 DEF Over
<1>11. \A c \in Runs : /\ cancel[c].phase = "settling" => cancel[c].told = x /\ how = "cancelled"
                       /\ cancel[c].phase = "removing" => Stopped(cancel[c].told)'
                       /\ cancel[c].told \in Runs \cup {NoRun}
  <2> TAKE c \in Runs
  <2>1. cancel[c].told \in Runs \cup {NoRun}
    BY <1>1 DEF Request
  <2>2. /\ cancel[c].phase = "settling" => Marked(cancel[c].told)
        /\ cancel[c].phase = "removing" => cancel[c].told # NoRun /\ (Marked(cancel[c].told) \/ Stopped(cancel[c].told))
    BY DEF IInv, CancelsWait
  <2>3. \A q : Marked(q) => q = x /\ how = "cancelled"
    BY <1>4, <1>5 DEF Marked
  <2>4. \A q \in Runs : Stopped(q) \/ (q = x /\ how = "cancelled") => Stopped(q)'
    BY <1>9 DEF Stopped
  <2>5. ASSUME cancel[c].phase = "removing" PROVE Stopped(cancel[c].told)'
    <3>1. PICK q \in Runs : q = cancel[c].told
      BY <2>1, <2>2, <2>5
    <3>2. Stopped(q)'
      BY <2>2, <2>3, <2>4, <2>5, <3>1
    <3>3. cancel'[c] = cancel[c]
      BY <1>2, <2>5
    <3> QED BY <3>1, <3>2, <3>3 DEF Stopped
  <2> QED BY <2>1, <2>2, <2>3, <2>5
<1>12. \A c \in Runs : /\ Awaits(cancel[c]) \in Request /\ Awaits(cancel[c]).told = cancel[c].told
                       /\ Awaits(cancel[c]).phase \in {"awaiting", "answered"}
  BY <1>1, AwaitsIsTyped
<1>13. cancel' \in [Runs -> Request]
  BY <1>1, <1>2, <1>12
<1>14. CancelsWait'
  <2> DEFINE Fine(y) ==
        /\ y.phase = "none" => y.told = NoRun
        /\ y.phase \in {"removing", "settling"} => y.told # NoRun
        /\ y.phase = "settling" => Marked(y.told)
        /\ y.phase = "removing" => Marked(y.told) \/ Stopped(y.told)
        /\ y.phase \in {"awaiting", "answered"} /\ y.told # NoRun => Stopped(y.told)
  <2>1. ASSUME NEW c \in Runs PROVE Fine(cancel[c])'
    <3>1. Fine(cancel[c])
      BY DEF IInv, CancelsWait
    <3>2. \A q \in Runs : Stopped(q) \/ (q = x /\ how = "cancelled") => Stopped(q)'
      BY <1>9 DEF Stopped
    <3>3. CASE Waits(c)
      <4>1. cancel'[c].told = x /\ cancel'[c].phase \in {"awaiting", "answered"} /\ how = "cancelled"
        BY <1>2, <1>5, <1>11, <1>12, <3>3
      <4>2. Stopped(x)'
        BY <1>9, <4>1 DEF Stopped
      <4> QED BY <1>3, <1>5, <4>1, <4>2
    <3>4. CASE ~Waits(c)
      <4>1. cancel'[c] = cancel[c]
        BY <1>2, <3>4
      <4>2. cancel[c].phase # "settling"
        BY <1>5, <1>11, <3>4
      <4>3. PICK q \in Runs \cup {NoRun} : q = cancel[c].told /\ q = cancel'[c].told
        BY <1>11, <4>1
      <4>4. cancel[c].phase = "removing" => Stopped(q)'
        BY <1>11, <4>3 DEF Stopped
      <4>5. cancel[c].phase \in {"awaiting", "answered"} /\ q # NoRun => Stopped(q)'
        BY <3>1, <3>2, <4>3
      <4>6. /\ cancel[c].phase = "none" => q = NoRun
            /\ cancel[c].phase = "removing" => q # NoRun
        BY <3>1, <4>3
      <4>7. cancel'[c].phase = cancel[c].phase /\ cancel'[c].told = q /\ q = cancel[c].told
        BY <4>1, <4>3
      <4> HIDE DEF Fine, Waits
      <4>8. \A p, t : cancel'[c].phase = p /\ cancel'[c].told = t /\ p # "settling"
                     /\ (p = "none" => t = NoRun) /\ (p = "removing" => t # NoRun /\ Stopped(t)')
                     /\ (p \in {"awaiting", "answered"} /\ t # NoRun => Stopped(t)') => Fine(cancel[c])'
        BY DEF Fine, Stopped, Marked
      <4> QED BY <4>2, <4>4, <4>5, <4>6, <4>7, <4>8
    <3> QED BY <3>3, <3>4
  <2> QED BY <2>1 DEF CancelsWait
<1>15. TypeOK'
  <2>1. active' \in Entry /\ child' \in {"none", "alive", "exited"} /\ exit' \in Exits \cup {"none"}
    BY <1>2 DEF Idle, Entry
  <2> QED BY <1>1, <1>2, <1>6, <1>9, <1>13, <2>1 DEF TypeOK, database, watching
<1>16. ProcessIsAwaited'
  <2>1. child' = "none" /\ exit' = "none" /\ active'.run = NoRun
    BY <1>2 DEF Idle
  <2> QED BY <2>1 DEF ProcessIsAwaited, Running
<1>17. MovesInOrder'
  <2>1. \A i \in DOMAIN queue : queue[i].kind \in Moves => queue[i].run # x
    BY <1>9 DEF IInv, MovesInOrder, Mover
  <2>2. MovesInOrder /\ \A m \in M : m.kind \notin Moves /\ m.kind # "reap"
    BY <1>10 DEF IInv, Moves
  <2>3. queue \in Seq(Message) /\ queue' \in Seq(Message) /\ Serves(0, M)
    BY <1>1, <1>7, <1>8
  <2>4. exec'[x] # "starting" /\ exec'[x] \notin Fresh /\ \A q \in Runs : q # x => exec'[q] = exec[q]
    BY <1>9
  <2> QED BY <2>1, <2>2, <2>3, <2>4, MovesStep
<1>18. FollowsItsExecution(x)' /\ IsListenedTo(x)' /\ IsAnnounced(x)'
  <2>1. FollowsItsExecution(x) /\ IsListenedTo(x) /\ IsAnnounced(x) /\ reaped' = reaped /\ runStatus' = runStatus
    BY <1>2 DEF IInv, StatusFollows, ServiceListens, Announced, database
  <2>2. StatusAt(x) = "running" /\ StatusAt(x)' = "running"
    BY <1>9 DEF StatusAt
  <2>3. FollowsItsExecution(x)'
    BY <1>9, <2>1, <2>2 DEF FollowsItsExecution
  <2>4. IsListenedTo(x)'
    BY <1>6, <1>9, <2>1 DEF IsListenedTo
  <2>5. /\ Told(x)' = Told(x)
        /\ \A i \in DOMAIN log'[x] : \/ i \in DOMAIN log[x] /\ log'[x][i] = log[x][i]
                                     \/ i \notin DOMAIN log[x] /\ Says(log'[x][i]) \in S
        /\ \A i \in DOMAIN log[x] : i \in DOMAIN log'[x]
    BY <1>1, <1>5, <1>6, <1>7, NoEndIsTold
  <2>6. \A i \in Told(x) : log'[x][i] = log[x][i]
    BY <2>5 DEF Told
  <2>7. x \notin reaped => runStatus[x] \notin TERMINAL_STAGES
    BY <2>1, <2>2 DEF FollowsItsExecution, TERMINAL_STAGES
  <2>8. runStatus'[x] \in TERMINAL_STAGES =>
          \E i \in Told(x)' : Told(x)' = {i} /\ log'[x][i].stage = runStatus'[x] /\ x \in reaped'
    BY <2>1, <2>5, <2>6, <2>7 DEF IsAnnounced
  <2>9. ASSUME x \notin reaped, NEW i \in DOMAIN log'[x], log'[x][i].severity = "error" PROVE verdict'[x] = "failed"
    <3>1. CASE i \in DOMAIN log[x] /\ log'[x][i] = log[x][i]
      BY <1>9, <2>1, <2>9, <3>1 DEF IsAnnounced
    <3>2. CASE Says(log'[x][i]) \in S
      <4>1. Says(log'[x][i]).severity = "error"
        BY <2>9 DEF Says
      <4> QED BY <1>5, <1>9, <3>2, <4>1
    <3> QED BY <2>5, <3>1, <3>2
  <2>10. IsAnnounced(x)'
    <3>1. runStatus'[x] \notin TERMINAL_STAGES => Told(x)' = {}
      BY <2>1, <2>5 DEF IsAnnounced
    <3> QED BY <1>9, <2>1, <2>8, <2>9, <3>1 DEF IsAnnounced
  <2> QED BY <2>3, <2>4, <2>10
<1>19. \A q \in Runs : q # x => log'[q] = log[q]
  BY <1>6 DEF LogGrown
<1>20. StatusFollows' /\ ServiceListens' /\ Announced'
  <2>1. reaped' = reaped /\ runStatus' = runStatus
    BY <1>2 DEF database
  <2>2. /\ \A q \in Runs : q # x =>
             /\ exec'[q] = exec[q] /\ verdict'[q] = verdict[q] /\ runStatus'[q] = runStatus[q] /\ log'[q] = log[q]
             /\ q \in reaped' <=> q \in reaped
             /\ "service" \in bus.listeners[q] => "service" \in bus'.listeners[q]
        /\ StatusFollows /\ ServiceListens /\ Announced
    BY <1>6, <1>9, <1>19, <2>1 DEF IInv
  <2> QED BY <1>18, <2>2, OneRunMoves
<1>21. TablesInOrder' /\ MessagesHavePrincipals'
  BY <1>1, <1>2, <1>7, <1>8, <1>10, PrincipalsStep DEF IInv, database
<1>22. EndsAreRecorded'
  <2>1. ASSUME NEW q \in Runs \ reaped PROVE EndIsRecorded(q)'
    <3>1. /\ EndIsRecorded(q) /\ (exec'[q] = "ended" <=> exec[q] = "ended")
          /\ q = x => exec[q] # "ended"
      BY <1>9 DEF IInv, EndsAreRecorded
    <3>2. timeline' = timeline /\ stage' = stage /\ runStatus' = runStatus
      BY <1>2 DEF database
    <3>3. \A m \in M : m.kind = "event" /\ m.run = q => exec[q] # "ended" /\ ~Over(m.event)
      BY <1>10, <3>1
    <3>4. queue \in Seq(Message) /\ queue' \in Seq(Message) /\ Serves(0, M)
      BY <1>1, <1>7, <1>8
    <3>5. timeline'[q] = timeline[q] /\ stage'[q] = stage[q] /\ runStatus'[q] = runStatus[q]
      BY <3>2
    <3> QED BY <3>1, <3>3, <3>4, <3>5, EndStep
  <2> QED BY <1>2, <2>1 DEF EndsAreRecorded
<1>23. WatchedAreUsed'
  <2>1. client' = client /\ \A q \in Runs : exec'[q] \in Fresh => exec[q] \in Fresh
    BY <1>2, <1>9 DEF watching
  <2> QED BY <1>1, <2>1, WatchedStay DEF IInv
<1> QED BY <1>6, <1>14, <1>15, <1>16, <1>17, <1>20, <1>21, <1>22, <1>23 DEF IInv

\* An execution hands its run to the runner, or settles at once.
LEMMA ExecuteKeeps == ASSUME IInv, NEW r \in Runs, Execute(r) PROVE IInv'
<1>1. /\ TypeOK /\ Buffered(World) /\ Streaming(World) /\ ProcessIsAwaited /\ queue \in Seq(Message)
      /\ active \in Entry /\ cancel \in [Runs -> Request] /\ r # NoRun
      /\ exec \in [Runs -> Fresh \cup Executing \cup {"starting", "ended"}]
      /\ verdict \in [Runs -> TERMINAL_STAGES \cup {"none"}]
      /\ log \in [Runs -> Seq(RunEvent)]
  BY Typed, ScenariosAssumption DEF IInv, TypeOK
<1>2. /\ exec[r] = "checking"
      /\ UNCHANGED <<scenario, database, directory, activeExecution, cancelFlag, cancel, watching, answered, reaped>>
      /\ \/ Quietly(queue) \/ Publish(r, StartEvents, queue, {})
      /\ \/ Settled(r, "cancelled") /\ UNCHANGED process
         \/ Settled(r, "failed") /\ UNCHANGED process
         \/ exec' = [exec EXCEPT ![r] = "running"] /\ ~Running /\ Spawn(r) /\ UNCHANGED verdict
  BY DEF Execute
<1>3. /\ exec'[r] \in {"scanning", "running"} /\ \A q \in Runs : q # r => exec'[q] = exec[q]
      /\ exec' \in [Runs -> Fresh \cup Executing \cup {"starting", "ended"}]
      /\ exec'[r] = "scanning" => verdict'[r] \in TERMINAL_STAGES
      /\ \A q \in Runs : q # r => verdict'[q] = verdict[q]
      /\ verdict' \in [Runs -> TERMINAL_STAGES \cup {"none"}]
      /\ {"checking", "running", "scanning"} \subseteq Executing
      /\ "checking" \notin Fresh \cup Settling \cup {"starting", "ended"}
      /\ "running" \notin Fresh \cup Settling \cup {"starting", "ended"}
      /\ "scanning" \notin Fresh \cup {"starting", "ended"}
  <2>1. CASE Settled(r, "cancelled") \/ Settled(r, "failed")
    BY <1>1, <2>1 DEF Settled, Executing, Fresh, Settling, TERMINAL_STAGES
  <2>2. CASE exec' = [exec EXCEPT ![r] = "running"] /\ UNCHANGED verdict
    BY <1>1, <2>2 DEF Executing, Fresh, Settling
  <2> QED BY <1>2, <2>1, <2>2
<1>4. PICK S : /\ World' \in Worlds /\ Buffered(World)' /\ Streaming(World)'
               /\ LogGrown(log, log', r, S) /\ QueueGrown(queue, queue', r, S)
               /\ \A q \in Runs : "service" \in bus'.listeners[q] <=> "service" \in bus.listeners[q]
               /\ \A e \in S : e.stage \notin TERMINAL_STAGES /\ e.severity # "error"
  <2>1. CASE Quietly(queue)
    <3>1. queue' = queue /\ UNCHANGED <<bus, log, stream, watching>>
      BY <1>2, <2>1 DEF Quietly
    <3>2. World' \in Worlds /\ Buffered(World)' /\ Streaming(World)'
      BY <1>1, <3>1, QuietStep
    <3>3. LogGrown(log, log', r, {}) /\ QueueGrown(queue, queue', r, {})
      BY <1>1, <3>1 DEF LogGrown, QueueGrown
    <3> QED BY <3>1, <3>2, <3>3
  <2>2. CASE Publish(r, StartEvents, queue, {})
    <3>1. UNCHANGED watching /\ {} \in {{}, {"service"}}
      BY <1>2
    <3>2. PICK S : S = Range(StartEvents)
      OBVIOUS
    <3>3. /\ StartEvents \in Seq(Saying)
          /\ \A e \in S : e.stage \notin TERMINAL_STAGES /\ e.severity # "error"
      BY <3>2, StartSays
    <3>4. /\ World' \in Worlds /\ Buffered(World)' /\ Streaming(World)'
          /\ LogGrown(log, log', r, S) /\ QueueGrown(queue, queue', r, S)
          /\ \A q \in Runs : "service" \in bus'.listeners[q] <=> "service" \in bus.listeners[q]
      BY <1>1, <2>2, <3>1, <3>2, <3>3, PublishGrows
    <3> QED BY <3>3, <3>4
  <2> QED BY <1>2, <2>1, <2>2
<1>5. log' \in [Runs -> Seq(RunEvent)] /\ queue' \in Seq(Message)
  BY <1>4 DEF World, Worlds
<1>6. PICK M : M = Entries(r, S) /\ Serves(0, M)
  BY <1>1, <1>4, <1>5, QueueShapes
<1>7. \A m \in M : m.kind = "event" /\ m.run = r /\ ~Over(m.event)
  <2> TAKE m \in M
  <2>1. m.kind = "event" /\ m.run = r /\ Says(m.event) \in S /\ Says(m.event).stage = m.event.stage
    BY <1>6 DEF Entries, Says
  <2> QED BY <1>4, <2>1 DEF Over
<1>8. \A q \in Runs : Stopped(q) => Stopped(q)'
  BY <1>2, <1>3 DEF Stopped
<1>9. CancelsWait'
  <2>1. CASE UNCHANGED process
    BY <1>1, <1>2, <1>8, <2>1, CancelsStay DEF IInv, process
  <2>2. CASE ~Running
    <3>1. \A q : Marked(q) => q = NoRun
      BY <2>2 DEF Marked, Running
    <3>2. \A q \in Runs : cancel[q].told \in Runs \cup {NoRun}
      BY <1>1 DEF Request
    <3>3. cancel' = cancel
      BY <1>2
    <3> QED BY <1>8, <3>1, <3>2, <3>3 DEF IInv, CancelsWait
  <2> QED BY <1>2, <2>1, <2>2
<1>10. TypeOK' /\ ProcessIsAwaited'
  <2>1. CASE UNCHANGED process
    <3>1. provider' = provider /\ child' = child /\ exit' = exit /\ active' = active /\ removal' = removal
      BY <2>1 DEF process
    <3>2. TypeOK'
      BY <1>1, <1>2, <1>3, <1>4, <3>1 DEF TypeOK, database, watching
    <3>3. active.run # r \/ ~Running
      BY <1>1, <1>2 DEF ProcessIsAwaited
    <3>4. Running' <=> Running
      BY <3>1 DEF Running
    <3>5. Running => active.run \in Runs
      BY <1>1 DEF Entry, Running
    <3> QED BY <1>1, <1>3, <3>1, <3>2, <3>3, <3>4, <3>5 DEF ProcessIsAwaited
  <2>2. CASE exec' = [exec EXCEPT ![r] = "running"] /\ Spawn(r)
    <3>1. /\ child' = "alive" /\ exit' = "none" /\ active'.run = r /\ active' \in Entry
          /\ provider' = provider /\ removal' = removal
      BY <2>2 DEF Spawn, Idle, Entry
    <3>2. TypeOK'
      BY <1>1, <1>2, <1>3, <1>4, <3>1 DEF TypeOK, database, watching
    <3>3. exec'[r] = "running"
      BY <1>1, <2>2
    <3> QED BY <1>1, <3>1, <3>2, <3>3 DEF ProcessIsAwaited, Running
  <2> QED BY <1>2, <2>1, <2>2
<1>11. MovesInOrder'
  <2>1. \A i \in DOMAIN queue : queue[i].kind \in Moves => queue[i].run # r
    BY <1>2 DEF IInv, MovesInOrder, Mover
  <2>2. MovesInOrder /\ \A m \in M : m.kind \notin Moves /\ m.kind # "reap"
    BY <1>7 DEF IInv, Moves
  <2>3. queue \in Seq(Message) /\ queue' \in Seq(Message) /\ Serves(0, M)
    BY <1>1, <1>5, <1>6
  <2>4. exec'[r] # "starting" /\ exec'[r] \notin Fresh /\ \A q \in Runs : q # r => exec'[q] = exec[q]
    BY <1>3
  <2> QED BY <2>1, <2>2, <2>3, <2>4, MovesStep
<1>12. FollowsItsExecution(r)' /\ IsListenedTo(r)' /\ IsAnnounced(r)'
  <2>1. FollowsItsExecution(r) /\ IsListenedTo(r) /\ IsAnnounced(r) /\ reaped' = reaped /\ runStatus' = runStatus
    BY <1>2 DEF IInv, StatusFollows, ServiceListens, Announced, database
  <2>2. StatusAt(r) = "running" /\ StatusAt(r)' = "running"
    BY <1>2, <1>3 DEF StatusAt
  <2>3. FollowsItsExecution(r)'
    <3>1. exec'[r] \in Settling => verdict'[r] \in TERMINAL_STAGES
      BY <1>3
    <3> QED BY <1>2, <1>3, <2>1, <2>2, <3>1 DEF FollowsItsExecution
  <2>4. IsListenedTo(r)'
    BY <1>2, <1>3, <1>4, <2>1 DEF IsListenedTo
  <2>5. /\ Told(r)' = Told(r)
        /\ \A i \in DOMAIN log'[r] : \/ i \in DOMAIN log[r] /\ log'[r][i] = log[r][i]
                                     \/ i \notin DOMAIN log[r] /\ Says(log'[r][i]) \in S
        /\ \A i \in DOMAIN log[r] : i \in DOMAIN log'[r]
    BY <1>1, <1>4, <1>5, NoEndIsTold
  <2>6. \A i \in Told(r) : log'[r][i] = log[r][i]
    BY <2>5 DEF Told
  <2>7. r \notin reaped => runStatus[r] \notin TERMINAL_STAGES
    BY <2>1, <2>2 DEF FollowsItsExecution, TERMINAL_STAGES
  <2>8. runStatus'[r] \in TERMINAL_STAGES =>
          \E i \in Told(r)' : Told(r)' = {i} /\ log'[r][i].stage = runStatus'[r] /\ r \in reaped'
    BY <2>1, <2>5, <2>6, <2>7 DEF IsAnnounced
  <2>9. ASSUME r \notin reaped, NEW i \in DOMAIN log'[r] PROVE log'[r][i].severity # "error"
    <3>1. CASE i \in DOMAIN log[r] /\ log'[r][i] = log[r][i]
      BY <1>2, <1>3, <2>1, <2>9, <3>1 DEF IsAnnounced
    <3>2. CASE Says(log'[r][i]) \in S
      BY <1>4, <3>2 DEF Says
    <3> QED BY <2>5, <3>1, <3>2
  <2>10. IsAnnounced(r)'
    <3>1. runStatus'[r] \notin TERMINAL_STAGES => Told(r)' = {}
      BY <2>1, <2>5 DEF IsAnnounced
    <3> QED BY <1>3, <2>1, <2>8, <2>9, <3>1 DEF IsAnnounced
  <2> QED BY <2>3, <2>4, <2>10
<1>13. StatusFollows' /\ ServiceListens' /\ Announced'
  <2>1. reaped' = reaped /\ runStatus' = runStatus
    BY <1>2 DEF database
  <2>2. \A q \in Runs : q # r => log'[q] = log[q]
    BY <1>4 DEF LogGrown
  <2>3. /\ \A q \in Runs : q # r =>
             /\ exec'[q] = exec[q] /\ verdict'[q] = verdict[q] /\ runStatus'[q] = runStatus[q] /\ log'[q] = log[q]
             /\ q \in reaped' <=> q \in reaped
             /\ "service" \in bus.listeners[q] => "service" \in bus'.listeners[q]
        /\ StatusFollows /\ ServiceListens /\ Announced
    BY <1>3, <1>4, <2>1, <2>2 DEF IInv
  <2> QED BY <1>12, <2>3, OneRunMoves
<1>14. TablesInOrder' /\ MessagesHavePrincipals'
  BY <1>1, <1>2, <1>5, <1>6, <1>7, PrincipalsStep DEF IInv, database
<1>15. EndsAreRecorded'
  <2>1. ASSUME NEW q \in Runs \ reaped PROVE EndIsRecorded(q)'
    <3>1. /\ EndIsRecorded(q) /\ (exec'[q] = "ended" <=> exec[q] = "ended")
          /\ q = r => exec[q] # "ended"
      BY <1>2, <1>3 DEF IInv, EndsAreRecorded
    <3>2. timeline' = timeline /\ stage' = stage /\ runStatus' = runStatus
      BY <1>2 DEF database
    <3>3. \A m \in M : m.kind = "event" /\ m.run = q => exec[q] # "ended" /\ ~Over(m.event)
      BY <1>7, <3>1
    <3>4. queue \in Seq(Message) /\ queue' \in Seq(Message) /\ Serves(0, M)
      BY <1>1, <1>5, <1>6
    <3>5. timeline'[q] = timeline[q] /\ stage'[q] = stage[q] /\ runStatus'[q] = runStatus[q]
      BY <3>2
    <3> QED BY <3>1, <3>3, <3>4, <3>5, EndStep
  <2> QED BY <1>2, <2>1 DEF EndsAreRecorded
<1>16. WatchedAreUsed'
  <2>1. client' = client /\ \A q \in Runs : exec'[q] \in Fresh => exec[q] \in Fresh
    BY <1>2, <1>3 DEF watching
  <2> QED BY <1>1, <2>1, WatchedStay DEF IInv
<1> QED BY <1>4, <1>9, <1>10, <1>11, <1>13, <1>14, <1>15, <1>16 DEF IInv

\* A run that is still open is announced with its verdict and ends up recorded with it;
\* one that the watchdog closed is left as it is.
LEMMA CloseKeeps ==
  ASSUME IInv, queue # << >>, NEW m, m = Head(queue), m.kind = "close", Close(m)
  PROVE  IInv'
<1>1. /\ m = queue[1] /\ 1 \in DOMAIN queue /\ Tail(queue) \in Seq(Message) /\ m.run \in Runs
      /\ TypeOK /\ Buffered(World) /\ Streaming(World) /\ ProcessIsAwaited /\ queue \in Seq(Message)
      /\ active \in Entry /\ cancel \in [Runs -> Request] /\ bus \in Bus
      /\ exec \in [Runs -> Fresh \cup Executing \cup {"starting", "ended"}]
      /\ runStatus \in [Runs -> Active \cup TERMINAL_STAGES \cup {"unused"}]
      /\ log \in [Runs -> Seq(RunEvent)]
  BY HeadIsTyped, Typed DEF IInv, TypeOK, Moves
<1>2. PICK r \in Runs : r = m.run
  BY <1>1
<1>3. exec[r] = "closing" /\ \A i \in DOMAIN queue : i > 1 /\ queue[i].kind \in Moves => queue[i].run # r
  <2>1. "close" \in Moves /\ exec[r] = Mover("close")
    BY <1>1, <1>2 DEF IInv, MovesInOrder, Moves
  <2>2. \A i \in DOMAIN queue : queue[i].kind \in Moves /\ queue[i].run = r => i = 1
    BY <1>1, <1>2, <2>1 DEF IInv, MovesInOrder
  <2> QED BY <2>1, <2>2 DEF Mover
<1> DEFINE how == verdict[r]
           e   == TerminalEvent(how)
<1>4. /\ runStatus' = IF StillOpen(r) THEN [runStatus EXCEPT ![r] = how] ELSE runStatus
      /\ agentStatus' \in {"ready", "busy", "error"}
      /\ Publish(r, IF StillOpen(r) THEN <<e>> ELSE << >>, Tail(queue), {"service"})
      /\ Ends(r)
      /\ UNCHANGED <<scenario, stage, timeline, agentPrincipals, directory, verdict, watching, answered, reaped, process>>
  <2>1. agentStatus \in {"ready", "busy", "error"}
    BY <1>1 DEF TypeOK
  <2> QED BY <1>2, <2>1 DEF Close
<1>5. /\ exec'[r] = "ended" /\ \A q \in Runs : q # r => exec'[q] = exec[q]
      /\ exec' \in [Runs -> Fresh \cup Executing \cup {"starting", "ended"}]
      /\ "closing" \in Executing \cap Settling /\ "ended" \in Settling
      /\ "closing" \notin Fresh \cup {"starting", "running", "ended"}
      /\ "ended" \notin Fresh \cup Executing \cup {"starting", "running"}
  <2>1. exec' = [exec EXCEPT ![r] = "ended"]
    BY <1>4 DEF Ends
  <2> QED BY <1>1, <2>1 DEF Executing, Fresh, Settling
<1>6. /\ FollowsItsExecution(r) /\ IsListenedTo(r) /\ IsAnnounced(r) /\ StatusAt(r) = "running"
      /\ how \in TERMINAL_STAGES /\ "service" \in bus.listeners[r]
  <2>1. FollowsItsExecution(r) /\ IsListenedTo(r) /\ IsAnnounced(r)
    BY DEF IInv, StatusFollows, ServiceListens, Announced
  <2>2. StatusAt(r) = "running"
    BY <1>3, <1>5 DEF StatusAt
  <2> QED BY <1>3, <1>5, <2>1, <2>2 DEF FollowsItsExecution, IsListenedTo
<1>7. StillOpen(r) <=> r \notin reaped
  BY <1>6 DEF FollowsItsExecution, StillOpen
<1>8. /\ e \in Saying /\ e.stage = how /\ (e.severity = "error" => how = "failed")
      /\ <<e>> \in Seq(Saying) /\ Range(<<e>>) = {e}
  <2>1. e \in Saying /\ e.stage = how /\ (e.severity = "error" => how = "failed")
    BY <1>6 DEF TerminalEvent, Saying, Emitted, Severities, TERMINAL_STAGES
  <2> HIDE DEF e
  <2> QED BY <2>1 DEF Range
<1>9. PICK events \in Seq(Saying), S \in SUBSET {e} :
        /\ S = Range(events) /\ Publish(r, events, Tail(queue), {"service"})
        /\ StillOpen(r) => events = <<e>>
        /\ ~StillOpen(r) => events = << >>
  <2> HIDE DEF e
  <2>1. CASE StillOpen(r)
    BY <1>4, <1>8, <2>1
  <2>2. CASE ~StillOpen(r)
    <3>1. << >> \in Seq(Saying) /\ Range(<< >>) = {}
      BY DEF Range
    <3> QED BY <1>4, <2>2, <3>1
  <2> QED BY <2>1, <2>2
<1>10. /\ World' \in Worlds /\ Buffered(World)' /\ Streaming(World)'
       /\ LogGrown(log, log', r, S) /\ QueueGrown(Tail(queue), queue', r, S)
       /\ \A q \in Runs : "service" \in bus'.listeners[q] <=> "service" \in bus.listeners[q] /\ q # r
  <2>1. UNCHANGED watching /\ {"service"} \in {{}, {"service"}}
    BY <1>4
  <2> QED BY <1>1, <1>9, <2>1, PublishGrows
<1>11. log' \in [Runs -> Seq(RunEvent)] /\ queue' \in Seq(Message)
  BY <1>10 DEF World, Worlds
<1>12. PICK M : M = Entries(r, S) /\ Serves(1, M)
  BY <1>1, <1>10, <1>11, QueueShapes
<1>13. \A x \in M : x.kind = "event" /\ x.run = r
  BY <1>12 DEF Entries
<1>14. ASSUME StillOpen(r)
       PROVE  \E sent \in RunEvent :
                /\ Over(sent) /\ sent.stage = how /\ (sent.severity = "error" => how = "failed")
                /\ log' = [log EXCEPT ![r] = Append(@, sent)]
                /\ queue' = Append(Tail(queue), [kind |-> "event", run |-> r, event |-> sent])
  <2> HIDE DEF e, how
  <2>1. Publish(r, <<e>>, Tail(queue), {"service"})
    BY <1>9, <1>14
  <2> DEFINE sent == [Event(r, e) EXCEPT !.seq = bus.seq]
  <2>2. /\ sent \in RunEvent /\ Over(sent) /\ Says(sent) = e
        /\ log' = [log EXCEPT ![r] = Append(@, sent)]
        /\ queue' = IF "service" \in bus.listeners[r]
                    THEN Append(Tail(queue), [kind |-> "event", run |-> r, event |-> sent]) ELSE Tail(queue)
    BY <1>1, <1>6, <1>8, <2>1, PublishEnds
  <2> HIDE DEF sent
  <2>3. sent.stage = how /\ (sent.severity = "error" => how = "failed")
    BY <1>8, <2>2 DEF Says
  <2> QED BY <1>6, <2>2, <2>3
<1>15. ASSUME ~StillOpen(r) PROVE log' = log
  <2>1. Publish(r, << >>, Tail(queue), {"service"})
    BY <1>9, <1>15
  <2> QED BY <1>1, <2>1, PublishNothing
<1> HIDE DEF how, e
<1>16. /\ runStatus' \in [Runs -> Active \cup TERMINAL_STAGES \cup {"unused"}]
       /\ \A q \in Runs : q # r => runStatus'[q] = runStatus[q]
       /\ StillOpen(r) => runStatus'[r] = how
       /\ ~StillOpen(r) => runStatus'[r] = runStatus[r]
  BY <1>1, <1>4, <1>6
<1>17. verdict' = verdict /\ reaped' = reaped /\ how = verdict[r]
  BY <1>4 DEF how
<1>18. FollowsItsExecution(r)' /\ IsListenedTo(r)' /\ IsAnnounced(r)'
  <2>1. StatusAt(r)' = how
    BY <1>5, <1>17 DEF StatusAt
  <2>2. FollowsItsExecution(r)'
    BY <1>5, <1>6, <1>7, <1>16, <1>17, <2>1 DEF FollowsItsExecution
  <2>3. IsListenedTo(r)'
    BY <1>5 DEF IsListenedTo
  <2>4. CASE StillOpen(r)
    <3>1. PICK sent \in RunEvent :
            /\ Over(sent) /\ sent.stage = how /\ (sent.severity = "error" => how = "failed")
            /\ log' = [log EXCEPT ![r] = Append(@, sent)]
      BY <1>14, <2>4
    <3>2. Told(r) = {}
      BY <2>4, <1>6 DEF IsAnnounced, StillOpen, TERMINAL_STAGES
    <3>3. PICK n \in Nat : n = Len(log[r])
      BY <1>1
    <3>4. /\ log'[r] = Append(log[r], sent) /\ Len(log'[r]) = n + 1 /\ log'[r][n + 1] = sent
          /\ DOMAIN log'[r] = 1..(n + 1) /\ DOMAIN log[r] = 1..n
          /\ \A i \in 1..n : log'[r][i] = log[r][i]
      BY <1>1, <3>1, <3>3
    <3>5. \A i \in 1..(n + 1) : i \in 1..n \/ i = n + 1
      BY <3>3
    <3>6. Told(r)' = {n + 1}
      <4>1. \A i \in DOMAIN log'[r] : Over(log'[r][i]) <=> i = n + 1
        BY <3>1, <3>2, <3>4, <3>5 DEF Told
      <4>2. Told(r)' = {i \in DOMAIN log'[r] : Over(log'[r][i])}
        BY DEF Told, Over
      <4>3. n + 1 \in DOMAIN log'[r]
        BY <3>3, <3>4
      <4> QED BY <4>1, <4>2, <4>3
    <3>7. \A i \in DOMAIN log'[r] : log'[r][i].severity = "error" => how = "failed"
      BY <1>6, <1>7, <1>17, <2>4, <3>1, <3>4, <3>5 DEF IsAnnounced
    <3>8. log'[r][n + 1].stage = runStatus'[r] /\ runStatus'[r] \in TERMINAL_STAGES
      BY <1>6, <1>16, <2>4, <3>1, <3>4
    <3> QED BY <1>5, <1>17, <2>2, <2>3, <3>4, <3>6, <3>7, <3>8 DEF IsAnnounced
  <2>5. CASE ~StillOpen(r)
    <3>1. Told(r)' = Told(r)
      BY <1>15, <2>5 DEF Told, Over
    <3>2. IsAnnounced(r)'
      BY <1>5, <1>6, <1>7, <1>15, <1>16, <1>17, <2>5, <3>1 DEF IsAnnounced
    <3> QED BY <2>2, <2>3, <3>2
  <2> QED BY <2>4, <2>5
<1>19. StatusFollows' /\ ServiceListens' /\ Announced'
  <2>1. \A q \in Runs : q # r => log'[q] = log[q]
    BY <1>10 DEF LogGrown
  <2>2. /\ \A q \in Runs : q # r =>
             /\ exec'[q] = exec[q] /\ verdict'[q] = verdict[q] /\ runStatus'[q] = runStatus[q] /\ log'[q] = log[q]
             /\ q \in reaped' <=> q \in reaped
             /\ "service" \in bus.listeners[q] => "service" \in bus'.listeners[q]
        /\ StatusFollows /\ ServiceListens /\ Announced
    BY <1>5, <1>10, <1>16, <1>17, <2>1 DEF IInv
  <2> QED BY <1>18, <2>2, OneRunMoves
<1>20. /\ cancel' \in [Runs -> Request] /\ cancelFlag' \in BOOLEAN /\ activeExecution' \in Runs \cup {NoRun}
       /\ \A c \in Runs : /\ cancel'[c].told = cancel[c].told
                          /\ \/ cancel'[c].phase = cancel[c].phase
                             \/ cancel[c].phase = "awaiting" /\ cancel'[c].phase = "answered"
  <2> DEFINE Answered == {c \in Runs : cancel[c].phase = "awaiting" /\ cancel[c].awaits = r}
             Told_(c) == [cancel[c] EXCEPT !.phase = "answered"]
  <2>1. /\ cancel' = [c \in Runs |-> IF c \in Answered THEN Told_(c) ELSE cancel[c]]
        /\ cancelFlag' = (cancelFlag /\ Answered = {})
        /\ activeExecution' = IF activeExecution = r THEN NoRun ELSE activeExecution
    BY <1>4 DEF Ends
  <2>2. \A c \in Runs : Told_(c) \in Request /\ Told_(c).phase = "answered" /\ Told_(c).told = cancel[c].told
    BY <1>1, AwaitsIsTyped
  <2>3. activeExecution' \in Runs \cup {NoRun}
    BY <1>1, <2>1 DEF TypeOK
  <2>4. cancelFlag' \in BOOLEAN
    BY <2>1
  <2> HIDE DEF Told_
  <2>5. cancel' \in [Runs -> Request]
    BY <1>1, <2>1, <2>2
  <2>6. \A c \in Runs : /\ cancel'[c].told = cancel[c].told
                        /\ \/ cancel'[c].phase = cancel[c].phase
                           \/ cancel[c].phase = "awaiting" /\ cancel'[c].phase = "answered"
    BY <2>1, <2>2
  <2> QED BY <2>3, <2>4, <2>5, <2>6
<1>21. TypeOK'
  BY <1>1, <1>4, <1>5, <1>10, <1>16, <1>20 DEF TypeOK, watching, process
<1>22. ProcessIsAwaited'
  <2>1. active' = active /\ child' = child /\ exit' = exit
    BY <1>4 DEF process
  <2>2. Running => active.run \in Runs /\ active.run # r
    BY <1>1, <1>3 DEF ProcessIsAwaited, Running, Entry
  <2> QED BY <1>1, <1>5, <2>1, <2>2 DEF ProcessIsAwaited, Running
<1>23. CancelsWait'
  <2>1. \A q \in Runs : Stopped(q) => Stopped(q)'
    BY <1>5, <1>17 DEF Stopped
  <2>2. \A q : Marked(q)' = Marked(q)
    BY <1>4 DEF Marked, process
  <2>3. \A q \in Runs : cancel[q].told \in Runs \cup {NoRun}
    BY <1>1 DEF Request
  <2> QED BY <1>20, <2>1, <2>2, <2>3 DEF IInv, CancelsWait
<1>24. MovesInOrder'
  <2>1. MovesInOrder /\ \A x \in M : x.kind \notin Moves /\ x.kind # "reap"
    BY <1>13 DEF IInv, Moves
  <2>2. exec'[r] # "starting" /\ exec'[r] \notin Fresh /\ \A q \in Runs : q # r => exec'[q] = exec[q]
    BY <1>5
  <2>3. queue[1].kind # "start"
    BY <1>1
  <2>4. queue \in Seq(Message) /\ queue' \in Seq(Message) /\ Serves(1, M)
    BY <1>1, <1>11, <1>12
  <2>5. \A i \in DOMAIN queue : i > 1 /\ queue[i].kind \in Moves => queue[i].run # r
    BY <1>3
  <2> QED BY <2>1, <2>2, <2>3, <2>4, <2>5, MovesStep
<1>25. TablesInOrder' /\ MessagesHavePrincipals'
  <2>1. TablesInOrder /\ MessagesHavePrincipals /\ \A x \in M : x.kind # "principals" /\ x.kind # "admit"
    BY <1>13 DEF IInv
  <2>2. UNCHANGED <<directory, agentPrincipals, answered>>
    BY <1>4
  <2> QED BY <1>1, <1>11, <1>12, <2>1, <2>2, PrincipalsStep
<1>26. ASSUME r \notin reaped PROVE EndIsRecorded(r)'
  <2>1. PICK sent \in RunEvent :
          /\ Over(sent) /\ sent.stage = how
          /\ queue' = Append(Tail(queue), [kind |-> "event", run |-> r, event |-> sent])
    BY <1>7, <1>14, <1>26
  <2>2. /\ timeline[r].ends = << >>
        /\ \A i \in DOMAIN queue : Is(i, "event", r) => ~Over(queue[i].event)
    BY <1>3, <1>5, <1>26 DEF IInv, EndsAreRecorded, EndIsRecorded
  <2>3. PICK x : x = [kind |-> "event", run |-> r, event |-> sent]
    OBVIOUS
  <2>4. queue \in Seq(Message) /\ queue # << >>
    BY <1>1
  <2>11. PICK t \in Seq(Message) : t = Tail(queue)
    BY <1>1
  <2>12. Len(t) = Len(queue) - 1 /\ Len(queue) >= 1 /\ \A i \in 1..Len(t) : t[i] = queue[i + 1]
    BY <2>4, <2>11
  <2>13. Len(queue) \in Nat /\ DOMAIN queue = 1..Len(queue)
    BY <2>4
  <2>5. PICK n \in Nat : n = Len(queue) /\ Len(t) = n - 1 /\ n >= 1
    BY <2>12, <2>13
  <2>6. /\ DOMAIN queue' = 1..n /\ queue'[n] = x
        /\ \A i \in 1..(n - 1) : queue'[i] = queue[i + 1] /\ i + 1 \in DOMAIN queue
    <3>1. queue' = Append(t, x) /\ Len(queue') = Len(t) + 1 /\ queue'[Len(t) + 1] = x
      BY <2>1, <2>3, <2>11
    <3>2. \A i \in 1..Len(t) : queue'[i] = t[i]
      BY <3>1
    <3>3. Len(t) + 1 = n
      BY <2>5
    <3>4. DOMAIN queue' = 1..n
      BY <1>11, <3>1, <3>3
    <3>5. \A i \in 1..(n - 1) : i + 1 \in DOMAIN queue
      BY <2>5, <2>13
    <3> QED BY <2>5, <2>12, <3>1, <3>2, <3>3, <3>4, <3>5
  <2>7. Is(n, "event", r)' /\ queue'[n].event.stage = runStatus'[r]
    <3>1. n \in DOMAIN queue' /\ queue'[n].kind = "event" /\ queue'[n].run = r /\ queue'[n].event = sent
      BY <2>3, <2>5, <2>6
    <3>2. runStatus'[r] = how
      BY <1>7, <1>16, <1>26
    <3> QED BY <2>1, <3>1, <3>2 DEF Is
  <2>8. ASSUME NEW j \in DOMAIN queue', Is(j, "event", r)', j # n PROVE j < n /\ ~Over(queue'[j].event)
    <3>1. j \in 1..(n - 1) /\ j < n
      BY <2>5, <2>6, <2>8
    <3>2. Is(j + 1, "event", r) /\ queue'[j] = queue[j + 1] /\ j + 1 \in DOMAIN queue
      BY <2>6, <2>8, <3>1 DEF Is
    <3> QED BY <2>2, <3>1, <3>2
  <2>9. IsLast(n, r)' /\ n \in DOMAIN queue'
    BY <2>5, <2>6, <2>7, <2>8 DEF IsLast, Over
  <2>10. timeline'[r].ends = << >>
    BY <1>4, <2>2
  <2> QED BY <1>5, <2>9, <2>10 DEF EndIsRecorded
<1>27. EndsAreRecorded'
  <2>1. ASSUME NEW q \in Runs \ reaped, q # r PROVE EndIsRecorded(q)'
    <3>1. EndIsRecorded(q) /\ (exec'[q] = "ended" <=> exec[q] = "ended") /\ ~ Is(1, "event", q)
      BY <1>1, <1>5, <2>1 DEF IInv, EndsAreRecorded, Is
    <3>2. timeline'[q] = timeline[q] /\ stage'[q] = stage[q] /\ runStatus'[q] = runStatus[q]
      BY <1>4, <1>16, <2>1
    <3>3. \A x \in M : x.kind = "event" /\ x.run = q => exec[q] # "ended" /\ ~Over(x.event)
      BY <1>13, <2>1
    <3> QED BY <1>1, <1>11, <1>12, <3>1, <3>2, <3>3, EndStep
  <2> QED BY <1>17, <1>26, <2>1 DEF EndsAreRecorded
<1>28. WatchedAreUsed'
  <2>1. client' = client /\ \A q \in Runs : exec'[q] \in Fresh => exec[q] \in Fresh
    BY <1>4, <1>5 DEF watching
  <2> QED BY <1>1, <2>1, WatchedStay DEF IInv
<1> QED BY <1>10, <1>19, <1>21, <1>22, <1>23, <1>24, <1>25, <1>27, <1>28 DEF IInv

\* A run that is still active when the watchdog's turn comes fails and is announced; its
\* execution goes on, and cannot end or announce it again.
LEMMA ReapNowKeeps ==
  ASSUME IInv, queue # << >>, NEW m, m = Head(queue), m.kind = "reap", ReapNow(m)
  PROVE  IInv'
<1>1. /\ m = queue[1] /\ 1 \in DOMAIN queue /\ Tail(queue) \in Seq(Message) /\ m.run \in Runs
      /\ TypeOK /\ Buffered(World) /\ Streaming(World) /\ ProcessIsAwaited /\ queue \in Seq(Message)
      /\ active \in Entry /\ cancel \in [Runs -> Request] /\ bus \in Bus
      /\ exec \in [Runs -> Fresh \cup Executing \cup {"starting", "ended"}]
      /\ runStatus \in [Runs -> Active \cup TERMINAL_STAGES \cup {"unused"}]
      /\ timeline \in [Runs -> TimelineType] /\ stage \in [Runs -> Stages]
      /\ log \in [Runs -> Seq(RunEvent)]
  BY HeadIsTyped, Typed DEF IInv, TypeOK
<1>2. PICK r \in Runs : r = m.run
  BY <1>1
<1>3. queue[1].kind = "reap" /\ "reap" \notin Moves /\ \A q : ~ Is(1, "event", q)
  BY <1>1 DEF Moves, Is
<1>4. exec' = exec /\ verdict' = verdict /\ cancel' = cancel /\ UNCHANGED <<activeExecution, cancelFlag>>
  BY DEF ReapNow, running
<1>5. MovesInOrder /\ \A q \in Runs : Stopped(q) => Stopped(q)'
  BY <1>4 DEF IInv, Stopped
<1>6. ASSUME NEW M, queue' \in Seq(Message), Serves(1, M), \A x \in M : x.kind = "event"
      PROVE  MovesInOrder'
  <2>1. \A x \in M : x.kind \notin Moves /\ x.kind # "reap"
    BY <1>6 DEF Moves
  <2>2. \A q \in Runs : exec'[q] = exec[q]
    BY <1>4
  <2>3. queue \in Seq(Message) /\ MovesInOrder /\ queue[1].kind # "start"
    BY <1>1, <1>3, <1>5
  <2> QED BY <1>6, <2>1, <2>2, <2>3, MovesStep
<1>7. CASE runStatus[r] \notin Active
  <2>1. /\ queue' = Tail(queue)
        /\ UNCHANGED <<scenario, database, directory, running, watching, bus, log, stream, answered, reaped, process>>
    BY <1>2, <1>7 DEF ReapNow, Quietly
  <2>2. queue' \in Seq(Message) /\ Serves(1, {})
    BY <1>1, <2>1, QueueShapes
  <2>3. World' \in Worlds /\ Buffered(World)' /\ Streaming(World)'
    BY <1>1, <2>1, <2>2, QuietStep
  <2>4. TypeOK'
    BY <1>1, <2>1, <2>3 DEF TypeOK, database, running, watching, process
  <2>5. ProcessIsAwaited'
    BY <1>1, <1>4, <2>1 DEF ProcessIsAwaited, Running, process
  <2>6. MovesInOrder'
    BY <1>6, <2>2
  <2>7. StatusFollows' /\ ServiceListens' /\ Announced'
    BY <1>4, <2>1, RunsStay DEF IInv, database
  <2>8. CancelsWait'
    BY <1>1, <1>4, <1>5, <2>1, CancelsStay DEF IInv, process
  <2>9. TablesInOrder' /\ MessagesHavePrincipals'
    BY <1>1, <2>1, <2>2, PrincipalsStep DEF IInv, database
  <2>10. EndsAreRecorded'
    <3>1. ASSUME NEW q \in Runs \ reaped PROVE EndIsRecorded(q)'
      <4>1. timeline' = timeline /\ stage' = stage /\ runStatus' = runStatus
        BY <2>1 DEF database
      <4>2. timeline'[q] = timeline[q] /\ stage'[q] = stage[q] /\ runStatus'[q] = runStatus[q] /\ exec'[q] = exec[q]
        BY <1>4, <4>1
      <4>3. EndIsRecorded(q)
        BY DEF IInv, EndsAreRecorded
      <4>4. PICK M : M = {} /\ Serves(1, M) /\ queue \in Seq(Message) /\ queue' \in Seq(Message)
        BY <1>1, <2>2
      <4> QED BY <1>3, <4>2, <4>3, <4>4, EndStep
    <3> QED BY <2>1, <3>1 DEF EndsAreRecorded
  <2>11. WatchedAreUsed'
    BY <1>1, <1>4, <2>1, WatchedStay DEF IInv, watching
  <2> QED BY <2>3, <2>4, <2>5, <2>6, <2>7, <2>8, <2>9, <2>10, <2>11 DEF IInv
<1>8. CASE runStatus[r] \in Active
  <2> DEFINE e == TerminalEvent("failed")
  <2>1. /\ runStatus' = [runStatus EXCEPT ![r] = "failed"]
        /\ timeline' = [timeline EXCEPT ![r] = FinalizeTimeline(@, "failed")]
        /\ stage' = [stage EXCEPT ![r] = "failed"] /\ agentStatus' = "error"
        /\ Publish(r, <<e>>, Tail(queue), {})
        /\ Running => Mark
        /\ ~Running => UNCHANGED process
        /\ reaped' = reaped \cup {r}
        /\ UNCHANGED <<scenario, agentPrincipals, directory, running, watching, answered>>
    BY <1>2, <1>8 DEF ReapNow
  <2>2. /\ runStatus' \in [Runs -> Active \cup TERMINAL_STAGES \cup {"unused"}]
        /\ runStatus'[r] = "failed" /\ \A q \in Runs : q # r => runStatus'[q] = runStatus[q]
        /\ stage' \in [Runs -> Stages] /\ \A q \in Runs : q # r => stage'[q] = stage[q]
    BY <1>1, <2>1 DEF TERMINAL_STAGES, Stages
  <2>3. timeline' \in [Runs -> TimelineType] /\ \A q \in Runs : q # r => timeline'[q] = timeline[q]
    <3>1. timeline[r] \in TimelineType /\ "failed" \in TERMINAL_STAGES
      BY <1>1 DEF TERMINAL_STAGES
    <3>2. FinalizeTimeline(timeline[r], "failed") \in TimelineType
      BY <3>1, FinalizedIsClosed
    <3> QED BY <1>1, <2>1, <3>2
  <2>4. /\ e \in Saying /\ e.stage = "failed" /\ <<e>> \in Seq(Saying) /\ Range(<<e>>) = {e}
        /\ e.stage \in TERMINAL_STAGES
    <3>1. e \in Saying /\ e.stage = "failed" /\ e.stage \in TERMINAL_STAGES
      BY DEF TerminalEvent, Saying, Emitted, Severities, TERMINAL_STAGES
    <3> HIDE DEF e
    <3> QED BY <3>1 DEF Range
  <2> HIDE DEF e
  <2>5. PICK events \in Seq(Saying), S \in SUBSET {e}, ls \in {{}, {"service"}} :
          /\ S = Range(events) /\ events = <<e>> /\ ls = {} /\ Publish(r, events, Tail(queue), ls)
    BY <2>1, <2>4
  <2>6. PICK t \in Seq(Message) : t = Tail(queue)
    BY <1>1
  <2>7. /\ World' \in Worlds /\ Buffered(World)' /\ Streaming(World)'
        /\ LogGrown(log, log', r, S) /\ QueueGrown(t, queue', r, S)
        /\ \A q \in Runs : "service" \in bus'.listeners[q] <=>
             "service" \in bus.listeners[q] /\ ~ (q = r /\ "service" \in ls)
    <3>1. UNCHANGED watching /\ Publish(r, events, t, ls)
      BY <2>1, <2>5, <2>6
    <3> QED BY <1>1, <2>5, <3>1, PublishGrows
  <2>8. \A q \in Runs : "service" \in bus'.listeners[q] <=> "service" \in bus.listeners[q]
    BY <2>5, <2>7
  <2>9. log' \in [Runs -> Seq(RunEvent)] /\ queue' \in Seq(Message)
    BY <2>7 DEF World, Worlds
  <2>10. PICK M : M = Entries(r, S) /\ Serves(1, M)
    BY <1>1, <2>6, <2>7, <2>9, QueueShapes
  <2>11. \A x \in M : x.kind = "event" /\ x.run = r
    BY <2>10 DEF Entries
  <2>12. PICK sent \in RunEvent : Over(sent) /\ sent.stage = "failed" /\ log' = [log EXCEPT ![r] = Append(@, sent)]
    <3> DEFINE x == [Event(r, e) EXCEPT !.seq = bus.seq]
    <3>1. x \in RunEvent /\ Over(x) /\ Says(x) = e /\ log' = [log EXCEPT ![r] = Append(@, x)]
      BY <1>1, <2>1, <2>4, PublishEnds
    <3> HIDE DEF x
    <3>2. x.stage = "failed"
      BY <2>4, <3>1 DEF Says
    <3> QED BY <3>1, <3>2
  <2>13. PICK f \in Entry \cup {Idle} :
           /\ active' = f /\ f \in Entry /\ f.run = active.run
           /\ active.cancelled => f.cancelled
           /\ provider' = provider /\ child' = child /\ exit' = exit
           /\ removal' \in [Runs -> {"none", "asked", "answered"}]
    <3>1. CASE Running
      <4> DEFINE x == [active EXCEPT !.cancelled = TRUE]
      <4>1. Terminate(x) /\ UNCHANGED <<provider, child, exit>>
        BY <2>1, <3>1 DEF Mark
      <4>2. x \in Entry /\ x.run = active.run /\ x.cancelled /\ x.run \in Runs
        BY <1>1, <3>1 DEF Entry, Running
      <4> HIDE DEF x
      <4>3. /\ active' \in Entry /\ active'.run = x.run /\ active'.cancelled = x.cancelled
            /\ removal' \in [Runs -> {"none", "asked", "answered"}]
        BY <1>1, <4>1, <4>2, TerminateKeepsTheEntry
      <4> QED BY <4>1, <4>2, <4>3
    <3>2. CASE ~Running
      <4>1. UNCHANGED process
        BY <2>1, <3>2
      <4>2. provider' = provider /\ child' = child /\ exit' = exit /\ active' = active /\ removal' = removal
        BY <4>1 DEF process
      <4>3. removal \in [Runs -> {"none", "asked", "answered"}]
        BY <1>1 DEF TypeOK
      <4> QED BY <1>1, <4>2, <4>3
    <3> QED BY <3>1, <3>2
  <2>14. TypeOK'
    BY <1>1, <1>4, <2>1, <2>2, <2>3, <2>7, <2>13 DEF TypeOK, watching
  <2>15. ProcessIsAwaited'
    BY <1>1, <1>4, <2>13 DEF ProcessIsAwaited, Running
  <2>16. MovesInOrder'
    BY <1>6, <2>9, <2>10, <2>11
  <2>17. CancelsWait'
    <3>1. \A q : Marked(q) => Marked(q)'
      BY <2>13 DEF Marked
    <3>2. \A q \in Runs : cancel[q].told \in Runs \cup {NoRun}
      BY <1>1 DEF Request
    <3> QED BY <1>4, <1>5, <3>1, <3>2 DEF IInv, CancelsWait
  <2>18. TablesInOrder' /\ MessagesHavePrincipals'
    <3>1. TablesInOrder /\ \A x \in M : x.kind # "principals" /\ x.kind # "admit"
      BY <2>11 DEF IInv
    <3>2. MessagesHavePrincipals /\ UNCHANGED <<directory, agentPrincipals, answered>>
      BY <2>1 DEF IInv
    <3> QED BY <1>1, <2>9, <2>10, <3>1, <3>2, PrincipalsStep
  <2>19. /\ FollowsItsExecution(r) /\ IsListenedTo(r) /\ IsAnnounced(r)
         /\ r \notin reaped /\ exec[r] \notin Fresh \cup {"starting"} /\ Told(r) = {}
    <3>1. FollowsItsExecution(r) /\ IsListenedTo(r) /\ IsAnnounced(r)
      BY DEF IInv, StatusFollows, ServiceListens, Announced
    <3>2. r \notin reaped /\ Told(r) = {}
      BY <1>8, <3>1 DEF FollowsItsExecution, IsAnnounced, Active, TERMINAL_STAGES
    <3>3. Is(1, "reap", r)
      BY <1>1, <1>2 DEF Is
    <3>4. exec[r] \notin Fresh
      BY <1>1, <1>5, <3>3 DEF MovesInOrder
    <3>5. ASSUME exec[r] = "starting" PROVE FALSE
      <4>1. PICK i \in DOMAIN queue : Is(i, "start", r)
        BY <1>5, <3>5 DEF MovesInOrder
      <4>2. i < 1
        BY <1>1, <1>5, <3>3, <4>1 DEF MovesInOrder
      <4>3. i \in 1..Len(queue) /\ Len(queue) \in Nat
        BY <1>1, <4>1
      <4> QED BY <4>2, <4>3
    <3> QED BY <3>1, <3>2, <3>4, <3>5
  <2>20. FollowsItsExecution(r)' /\ IsListenedTo(r)' /\ IsAnnounced(r)'
    <3>1. r \in reaped'
      BY <2>1
    <3>2. FollowsItsExecution(r)'
      BY <1>4, <2>2, <2>19, <3>1 DEF FollowsItsExecution
    <3>3. IsListenedTo(r)'
      BY <1>4, <2>8, <2>19 DEF IsListenedTo
    <3>4. PICK n \in Nat : n = Len(log[r])
      BY <1>1
    <3>5. /\ log'[r] = Append(log[r], sent) /\ Len(log'[r]) = n + 1 /\ log'[r][n + 1] = sent
          /\ DOMAIN log'[r] = 1..(n + 1) /\ DOMAIN log[r] = 1..n
          /\ \A i \in 1..n : log'[r][i] = log[r][i]
      BY <1>1, <2>12, <3>4
    <3>6. \A i \in 1..(n + 1) : i \in 1..n \/ i = n + 1
      BY <3>4
    <3>7. Told(r)' = {n + 1}
      <4>1. \A i \in DOMAIN log'[r] : Over(log'[r][i]) <=> i = n + 1
        BY <2>12, <2>19, <3>4, <3>5, <3>6 DEF Told
      <4>2. Told(r)' = {i \in DOMAIN log'[r] : Over(log'[r][i])}
        BY DEF Told, Over
      <4>3. n + 1 \in DOMAIN log'[r]
        BY <3>4, <3>5
      <4> QED BY <4>1, <4>2, <4>3
    <3>8. log'[r][n + 1].stage = runStatus'[r] /\ runStatus'[r] \in TERMINAL_STAGES
      BY <2>2, <2>12, <3>5 DEF TERMINAL_STAGES
    <3>9. IsAnnounced(r)'
      BY <1>4, <2>19, <3>1, <3>7, <3>8 DEF IsAnnounced
    <3> QED BY <3>2, <3>3, <3>9
  <2>21. StatusFollows' /\ ServiceListens' /\ Announced'
    <3>1. \A q \in Runs : q # r => log'[q] = log[q]
      BY <2>7 DEF LogGrown
    <3>2. /\ \A q \in Runs : q # r =>
               /\ exec'[q] = exec[q] /\ verdict'[q] = verdict[q] /\ runStatus'[q] = runStatus[q] /\ log'[q] = log[q]
               /\ q \in reaped' <=> q \in reaped
               /\ "service" \in bus.listeners[q] => "service" \in bus'.listeners[q]
          /\ StatusFollows /\ ServiceListens /\ Announced
      BY <1>4, <2>1, <2>2, <2>8, <3>1 DEF IInv
    <3> QED BY <2>20, <3>2, OneRunMoves
  <2>22. EndsAreRecorded'
    <3>1. ASSUME NEW q \in Runs \ reaped, q # r PROVE EndIsRecorded(q)'
      <4>1. EndIsRecorded(q) /\ exec'[q] = exec[q]
        BY <1>4, <3>1 DEF IInv, EndsAreRecorded
      <4>2. timeline'[q] = timeline[q] /\ stage'[q] = stage[q] /\ runStatus'[q] = runStatus[q]
        BY <2>2, <2>3, <3>1
      <4>3. \A x \in M : x.kind = "event" /\ x.run = q => exec[q] # "ended" /\ ~Over(x.event)
        BY <2>11, <3>1
      <4> QED BY <1>1, <1>3, <2>9, <2>10, <4>1, <4>2, <4>3, EndStep
    <3> QED BY <2>1, <3>1 DEF EndsAreRecorded
  <2>23. WatchedAreUsed'
    <3>1. client' = client /\ exec' = exec
      BY <1>4, <2>1 DEF watching
    <3> QED BY <1>1, <3>1, WatchedStay DEF IInv
  <2> QED BY <2>7, <2>14, <2>15, <2>16, <2>17, <2>18, <2>21, <2>22, <2>23 DEF IInv
<1> QED BY <1>7, <1>8

-----------------------------------------------------------------------------
(* The clients                                                                *)

\* A step of one client, and of the stream to it: what has to be shown is about it alone.
LEMMA OneClientMoves ==
  ASSUME IInv, NEW w \in Watchers,
         UNCHANGED <<scenario, database, queue, directory, running, log, answered, reaped, process>>,
         bus' \in Bus, bus'.buffers = bus.buffers,
         \A x \in Listeners \ {w} : \A r \in Runs : x \in bus'.listeners[r] <=> x \in bus.listeners[r],
         client' \in [Watchers -> Hook], got' \in [Watchers -> Seq(RunEvent)],
         wire' \in [Watchers -> Seq(RunEvent)], served' \in [Watchers -> {"none", "open", "ended"}],
         \A x \in Watchers : x # w => /\ client'[x] = client[x] /\ got'[x] = got[x]
                                      /\ wire'[x] = wire[x] /\ served'[x] = served[x],
         StreamsTo(World, w)', IsUsed(w)'
  PROVE  IInv'
<1>1. /\ TypeOK /\ ProcessIsAwaited /\ MovesInOrder /\ StatusFollows /\ ServiceListens /\ CancelsWait
      /\ TablesInOrder /\ MessagesHavePrincipals /\ Announced /\ EndsAreRecorded
      /\ Buffered(World) /\ Streaming(World) /\ WatchedAreUsed
  BY DEF IInv
<1>2. /\ queue \in Seq(Message) /\ log \in [Runs -> Seq(RunEvent)] /\ bus \in Bus
      /\ queue' \in Seq(Message) /\ log' \in [Runs -> Seq(RunEvent)]
  BY <1>1, Typed
<1>3. World' \in Worlds
  BY <1>2 DEF World, Worlds
<1>4. TypeOK'
  BY <1>1, <1>3 DEF TypeOK, database, running, process
<1>5. \A r \in Runs : "service" \in bus'.listeners[r] <=> "service" \in bus.listeners[r]
  BY ScenariosAssumption DEF Listeners
<1>6. Buffered(World)'
  <2>1. bus.buffers \in Seq(Buffer)
    BY <1>2 DEF Bus
  <2>2. ASSUME NEW i \in DOMAIN bus.buffers
        PROVE  "service" \in bus'.listeners[bus.buffers[i].run] <=> "service" \in bus.listeners[bus.buffers[i].run]
    <3>1. bus.buffers[i] \in Buffer
      BY <2>1
    <3>2. bus.buffers[i].run \in Runs
      BY <3>1 DEF Buffer
    <3> QED BY <1>5, <3>2
  <2>3. /\ \A i \in DOMAIN bus.buffers :
               /\ bus.buffers[i].events # << >> /\ IsTail(bus.buffers[i].events, log[bus.buffers[i].run])
               /\ "service" \in bus.listeners[bus.buffers[i].run] =>
                    IsWhole(bus.buffers[i].events, log[bus.buffers[i].run])
        /\ \A r \in Runs : "service" \in bus.listeners[r] => log[r] = << >> \/ IsBuffered(bus, r)
    BY <1>1 DEF Buffered, World
  <2>4. PICK B, L : B = bus.buffers /\ bus'.buffers = B /\ L = log /\ log' = L
    OBVIOUS
  <2>5. \A i \in DOMAIN B :
          /\ B[i].events # << >> /\ IsTail(B[i].events, L[B[i].run])
          /\ "service" \in bus'.listeners[B[i].run] => IsWhole(B[i].events, L[B[i].run])
    BY <2>2, <2>3, <2>4
  <2>6. ASSUME NEW r \in Runs, "service" \in bus'.listeners[r] PROVE L[r] = << >> \/ IsBuffered(bus', r)
    BY <1>5, <2>3, <2>4, <2>6 DEF IsBuffered
  <2> QED BY <2>4, <2>5, <2>6 DEF Buffered, World
<1>7. Streaming(World)'
  <2>1. ASSUME NEW x \in Watchers, x # w PROVE StreamsTo(World, x)'
    <3>1. /\ client'[x] = client[x] /\ got'[x] = got[x] /\ wire'[x] = wire[x] /\ served'[x] = served[x]
          /\ \A r \in Runs : x \in bus'.listeners[r] <=> x \in bus.listeners[r]
          /\ StreamsTo(World, x) /\ log' = log
      BY <1>1, <2>1 DEF Streaming, Listeners
    <3> QED BY <3>1 DEF StreamsTo, Shipped, World
  <2> QED BY <2>1 DEF Streaming
<1>8. WatchedAreUsed'
  <2>1. ASSUME NEW x \in Watchers, x # w PROVE IsUsed(x)'
    <3>1. client'[x] = client[x] /\ exec' = exec /\ IsUsed(x)
      BY <1>1, <2>1 DEF WatchedAreUsed, running
    <3> QED BY <3>1 DEF IsUsed
  <2> QED BY <2>1 DEF WatchedAreUsed
<1>9. exec' = exec /\ verdict' = verdict /\ cancel' = cancel /\ active' = active /\ child' = child /\ exit' = exit
  BY DEF running, process
<1>10. ProcessIsAwaited' /\ CancelsWait'
  <2>1. \A q \in Runs : Stopped(q) => Stopped(q)'
    BY <1>9 DEF Stopped
  <2> QED BY <1>1, <1>9, <2>1, CancelsStay DEF ProcessIsAwaited, Running
<1>11. MovesInOrder'
  BY <1>1, <1>9 DEF MovesInOrder, Is
<1>12. StatusFollows' /\ ServiceListens' /\ Announced'
  BY <1>1, <1>5, <1>9, RunsStay DEF database
<1>13. Serves(0, {})
  BY <1>2, QueueShapes
<1>14. TablesInOrder' /\ MessagesHavePrincipals'
  BY <1>1, <1>2, <1>13, PrincipalsStep DEF database
<1>15. EndsAreRecorded'
  <2>1. ASSUME NEW q \in Runs \ reaped PROVE EndIsRecorded(q)'
    <3>1. timeline' = timeline /\ stage' = stage /\ runStatus' = runStatus
      BY DEF database
    <3>2. timeline'[q] = timeline[q] /\ stage'[q] = stage[q] /\ runStatus'[q] = runStatus[q] /\ exec'[q] = exec[q]
      BY <1>9, <3>1
    <3>3. EndIsRecorded(q)
      BY <1>1 DEF EndsAreRecorded
    <3>4. PICK M : M = {} /\ Serves(0, M) /\ queue \in Seq(Message) /\ queue' \in Seq(Message)
      BY <1>2, <1>13
    <3>5. \A m \in M : m.kind = "event" /\ m.run = q => exec[q] # "ended" /\ ~Over(m.event)
      BY <3>4
    <3>6. /\ exec'[q] = "ended" <=> exec[q] = "ended"
          /\ exec[q] = "ended" => runStatus'[q] = runStatus[q]
          /\ timeline'[q] = timeline[q] /\ stage'[q] = stage[q]
      BY <3>2
    <3> QED BY <3>3, <3>4, <3>5, <3>6, EndStep
  <2> QED BY <2>1 DEF EndsAreRecorded
<1> QED BY <1>4, <1>6, <1>7, <1>8, <1>10, <1>11, <1>12, <1>14, <1>15 DEF IInv

\* A client that fetches a run looks at one that has been admitted.
LEMMA WatchKeeps == ASSUME IInv, NEW w \in Watchers, NEW r \in Runs, Watch(w, r) PROVE IInv'
<1>1. /\ client \in [Watchers -> Hook] /\ got \in [Watchers -> Seq(RunEvent)]
      /\ timeline \in [Runs -> TimelineType] /\ StreamsTo(World, w) /\ FollowsItsExecution(r)
      /\ wire \in [Watchers -> Seq(RunEvent)] /\ served \in [Watchers -> {"none", "open", "ended"}] /\ bus \in Bus
  BY Typed DEF IInv, TypeOK, Streaming, StatusFollows
<1>2. PICK ok \in BOOLEAN :
        client' = [client EXCEPT ![w] =
                     [phase |-> "opening", run |-> r, fetched |-> ok,
                      timeline |-> IF ok THEN timeline[r] ELSE InitialTimeline, seen |-> ok /\ IsOver(r)]]
  BY DEF Watch
<1>3. /\ client[w].phase = "idle" /\ runStatus[r] # "unused"
      /\ UNCHANGED <<scenario, database, queue, directory, running, got, answered, reaped, process, bus, log, stream>>
  BY DEF Watch, Quietly
<1>4. /\ client'[w] \in Hook /\ client'[w].phase = "opening" /\ client'[w].run = r
      /\ \A x \in Watchers : x # w => client'[x] = client[x]
      /\ client' \in [Watchers -> Hook]
  <2> DEFINE t == IF ok THEN timeline[r] ELSE InitialTimeline
             s == ok /\ IsOver(r)
             h == [phase |-> "opening", run |-> r, fetched |-> ok, timeline |-> t, seen |-> s]
  <2>1. client' = [client EXCEPT ![w] = h]
    BY <1>2
  <2>2. t \in TimelineType /\ s \in BOOLEAN
    BY <1>1, InitialIsTyped
  <2> HIDE DEF t, s
  <2>3. h \in Hook /\ h.phase = "opening" /\ h.run = r
    BY <2>2 DEF Hook
  <2> HIDE DEF h
  <2> QED BY <1>1, <2>1, <2>3
<1>5. got' = got /\ bus' = bus /\ log' = log /\ wire' = wire /\ served' = served /\ exec' = exec
  BY <1>3 DEF stream, running
<1>6. got[w] = << >> /\ served[w] = "none" /\ \A q \in Runs : w \notin bus.listeners[q]
  BY <1>1, <1>3 DEF StreamsTo, World
<1>7. StreamsTo(World, w)'
  BY <1>4, <1>5, <1>6 DEF StreamsTo, World
<1>8. IsUsed(w)'
  <2>1. exec[r] \notin Fresh
    <3>1. exec[r] \in Fresh => StatusAt(r) = "unused"
      BY DEF StatusAt, Fresh, Executing
    <3> QED BY <1>1, <1>3, <3>1 DEF FollowsItsExecution
  <2> QED BY <1>4, <1>5, <2>1 DEF IsUsed
<1> QED BY <1>1, <1>3, <1>4, <1>5, <1>7, <1>8, OneClientMoves

\* The fields of a hook.
LEMMA HookFields ==
  ASSUME NEW c \in Hook
  PROVE  /\ c = [phase |-> c.phase, run |-> c.run, fetched |-> c.fetched, timeline |-> c.timeline, seen |-> c.seen]
         /\ c.run \in Runs \cup {NoRun} /\ c.fetched \in BOOLEAN /\ c.timeline \in TimelineType /\ c.seen \in BOOLEAN
BY DEF Hook

\* What leaving a stream does to the hook.
LEMMA LeavesTheStream ==
  ASSUME client \in [Watchers -> Hook], got \in [Watchers -> Seq(RunEvent)], NEW w \in Watchers,
         NEW phase \in {"closing", "polling"}, Leave(w, phase)
  PROVE  /\ client' \in [Watchers -> Hook] /\ client'[w].phase = phase /\ client'[w].run = client[w].run
         /\ got' \in [Watchers -> Seq(RunEvent)]
         /\ \A x \in Watchers : x # w => client'[x] = client[x] /\ got'[x] = got[x]
<1>3. PICK c \in Hook, t \in TimelineType : c = client[w] /\ t = InitialTimeline
  BY InitialIsTyped
<1> DEFINE h == [c EXCEPT !.phase = phase, !.timeline = t]
<1>1. client' = [client EXCEPT ![w] = h] /\ got' = [got EXCEPT ![w] = << >>]
  BY <1>3 DEF Leave
<1>2. h \in Hook /\ h.phase = phase /\ h.run = c.run
  BY <1>3, HookFields DEF Hook
<1> HIDE DEF h
<1> QED BY <1>1, <1>2, <1>3

\* The response is over, or the request or the response fails.
LEMMA LeavingKeeps ==
  ASSUME IInv, NEW w \in Watchers, EndOfStream(w) \/ Break(w)
  PROVE  IInv'
<1>1. /\ client \in [Watchers -> Hook] /\ got \in [Watchers -> Seq(RunEvent)] /\ StreamsTo(World, w) /\ IsUsed(w)
      /\ wire \in [Watchers -> Seq(RunEvent)] /\ served \in [Watchers -> {"none", "open", "ended"}] /\ bus \in Bus
  BY Typed DEF IInv, TypeOK, Streaming, WatchedAreUsed
<1>2. /\ UNCHANGED <<scenario, database, queue, directory, running, log, answered, reaped, process>>
      /\ bus' = bus /\ served' = served
      /\ \/ wire' = wire
         \/ wire' = [wire EXCEPT ![w] = << >>]
      /\ client[w].phase \notin {"idle", "closed", "polling"}
  BY DEF EndOfStream, Break, Quietly, stream
<1>3. PICK phase \in {"closing", "polling"} : Leave(w, phase)
  BY DEF EndOfStream, Break
<1>4. /\ client' \in [Watchers -> Hook] /\ client'[w].phase \in {"closing", "polling"} /\ client'[w].run = client[w].run
      /\ got' \in [Watchers -> Seq(RunEvent)]
      /\ \A x \in Watchers : x # w => client'[x] = client[x] /\ got'[x] = got[x]
  BY <1>1, <1>3, LeavesTheStream
<1>5. wire' \in [Watchers -> Seq(RunEvent)] /\ \A x \in Watchers : x # w => wire'[x] = wire[x]
  <2>1. << >> \in Seq(RunEvent) /\ wire \in [Watchers -> Seq(RunEvent)]
    BY <1>1
  <2>2. wire' = wire \/ wire' = [wire EXCEPT ![w] = << >>]
    BY <1>2
  <2> QED BY <2>1, <2>2
<1>6. StreamsTo(World, w)'
  BY <1>1, <1>2, <1>4 DEF StreamsTo, World
<1>7. IsUsed(w)'
  BY <1>1, <1>2, <1>4 DEF IsUsed, running
<1> QED BY <1>1, <1>2, <1>4, <1>5, <1>6, <1>7, OneClientMoves

\* The last fetch, and a poll that shows that the run is over.
LEMMA FetchingKeeps ==
  ASSUME IInv, NEW w \in Watchers, Refetch(w) \/ Poll(w)
  PROVE  IInv'
<1>1. /\ client \in [Watchers -> Hook] /\ got \in [Watchers -> Seq(RunEvent)] /\ StreamsTo(World, w) /\ IsUsed(w)
      /\ wire \in [Watchers -> Seq(RunEvent)] /\ served \in [Watchers -> {"none", "open", "ended"}] /\ bus \in Bus
  BY Typed DEF IInv, TypeOK, Streaming, WatchedAreUsed
<1>2. /\ UNCHANGED <<scenario, database, queue, directory, running, log, answered, reaped, process>>
      /\ bus' = bus /\ served' = served /\ wire' = wire /\ got' = got
      /\ client[w].phase \in {"closing", "polling"}
  BY DEF Refetch, Poll, Quietly, stream
<1>3. PICK h \in Hook : /\ client' = [client EXCEPT ![w] = h] /\ h.phase \in {"closed", "polling"}
                        /\ h.run = client[w].run
  <2>1. CASE Refetch(w)
    <3>1. PICK c \in Hook, t \in TimelineType, p \in {"live", "closing", "polling", "closed"} :
            c = client[w] /\ p = "closed"
      BY <1>1, InitialIsTyped
    <3>2. PICK s \in BOOLEAN : s = (c.seen \/ IsOver(c.run))
      BY <3>1, HookFields
    <3> DEFINE h == [c EXCEPT !.phase = p, !.seen = s]
    <3>3. client' = [client EXCEPT ![w] = h]
      BY <2>1, <3>1, <3>2 DEF Refetch
    <3>4. h \in Hook /\ h.phase = p /\ h.run = c.run
      BY <3>1, <3>2, HookFields DEF Hook
    <3> HIDE DEF h
    <3> QED BY <3>1, <3>3, <3>4
  <2>2. CASE Poll(w)
    <3> DEFINE h == [client[w] EXCEPT !.seen = TRUE]
    <3>1. client' = [client EXCEPT ![w] = h] /\ client[w].phase = "polling"
      BY <2>2 DEF Poll
    <3>3. PICK c \in Hook : c = client[w]
      BY <1>1
    <3>2. h \in Hook /\ h.phase = client[w].phase /\ h.run = client[w].run
      BY <3>3, HookFields DEF Hook
    <3> HIDE DEF h
    <3> QED BY <3>1, <3>2
  <2> QED BY <2>1, <2>2
<1>4. /\ client' \in [Watchers -> Hook] /\ client'[w] = h
      /\ \A x \in Watchers : x # w => client'[x] = client[x]
  BY <1>1, <1>3
<1>5. StreamsTo(World, w)'
  BY <1>1, <1>2, <1>3, <1>4 DEF StreamsTo, World
<1>6. IsUsed(w)'
  BY <1>1, <1>2, <1>3, <1>4 DEF IsUsed, running
<1> QED BY <1>1, <1>2, <1>4, <1>5, <1>6, OneClientMoves

\* The server sees that a client has gone.
LEMMA ServerSeesCloseKeeps == ASSUME IInv, NEW w \in Watchers, ServerSeesClose(w) PROVE IInv'
<1>1. /\ client \in [Watchers -> Hook] /\ got \in [Watchers -> Seq(RunEvent)] /\ StreamsTo(World, w) /\ IsUsed(w)
      /\ wire \in [Watchers -> Seq(RunEvent)] /\ served \in [Watchers -> {"none", "open", "ended"}] /\ bus \in Bus
  BY Typed DEF IInv, TypeOK, Streaming, WatchedAreUsed
<1>2. /\ UNCHANGED <<scenario, database, queue, directory, running, log, answered, reaped, process>>
      /\ served' = [served EXCEPT ![w] = "ended"] /\ wire' = wire /\ client' = client /\ got' = got
      /\ client[w].phase = "polling" /\ bus' = Unsubscribe(bus, client[w].run, w)
  BY DEF ServerSeesClose, watching
<1>3. PICK r \in Runs : r = client[w].run
  BY <1>1, <1>2 DEF StreamsTo
<1>4. /\ bus' \in Bus /\ bus'.buffers = bus.buffers
      /\ bus'.listeners = [bus.listeners EXCEPT ![r] = @ \ {w}] /\ bus.listeners \in [Runs -> SUBSET Listeners]
  BY <1>1, <1>2, <1>3 DEF Unsubscribe, Bus
<1>5. \A x \in Listeners \ {w} : \A q \in Runs : x \in bus'.listeners[q] <=> x \in bus.listeners[q]
  BY <1>4
<1>6. \A q \in Runs : w \notin bus'.listeners[q]
  BY <1>1, <1>3, <1>4 DEF StreamsTo, World
<1>7. served' \in [Watchers -> {"none", "open", "ended"}] /\ \A x \in Watchers : x # w => served'[x] = served[x]
  BY <1>1, <1>2
<1>8. StreamsTo(World, w)'
  BY <1>1, <1>2, <1>6, <1>7 DEF StreamsTo, World
<1>9. IsUsed(w)'
  BY <1>1, <1>2 DEF IsUsed, running
<1> QED BY <1>1, <1>2, <1>4, <1>5, <1>7, <1>8, <1>9, OneClientMoves

\* Moving the first of a sequence to the end of another leaves their concatenation.
LEMMA HeadMoves ==
  ASSUME NEW S, NEW x \in Seq(S), NEW y \in Seq(S), y # << >>
  PROVE  /\ Head(y) \in S /\ Tail(y) \in Seq(S) /\ Append(x, Head(y)) \in Seq(S)
         /\ Append(x, Head(y)) \o Tail(y) = x \o y
<1> DEFINE n == Len(x) m == Len(y) h == Head(y) z == Append(x, h) t == Tail(y) a == z \o t b == x \o y
<1>1. /\ n \in Nat /\ m \in Nat /\ m >= 1 /\ h \in S /\ h = y[1]
      /\ t \in Seq(S) /\ Len(t) = m - 1
      /\ \A i \in 1..(m - 1) : t[i] = y[i + 1]
      /\ b \in Seq(S) /\ Len(b) = n + m
      /\ \A i \in 1..n : b[i] = x[i]
      /\ \A i \in (n + 1)..(n + m) : b[i] = y[i - n]
  OBVIOUS
<1> HIDE DEF h, t, b
<1>2. z \in Seq(S) /\ Len(z) = n + 1 /\ z[n + 1] = h /\ \A i \in 1..n : z[i] = x[i]
  BY <1>1
<1> HIDE DEF z, n, m
<1>3. /\ a \in Seq(S) /\ Len(a) = (n + 1) + (m - 1)
      /\ \A i \in 1..(n + 1) : a[i] = z[i]
      /\ \A i \in (n + 2)..((n + 1) + (m - 1)) : a[i] = t[i - (n + 1)]
  BY <1>1, <1>2
<1> HIDE DEF a
<1>4. Len(a) = n + m
  BY <1>1, <1>3
<1>5. ASSUME NEW i \in 1..(n + m) PROVE a[i] = b[i]
  <2>1. CASE i \in 1..n
    <3>1. i \in 1..(n + 1)
      BY <1>1, <2>1
    <3> QED BY <1>1, <1>2, <1>3, <2>1, <3>1
  <2>2. CASE i = n + 1
    <3>1. a[i] = y[1]
      BY <1>1, <1>2, <1>3, <2>2
    <3>2. i \in (n + 1)..(n + m) /\ i - n = 1
      BY <1>1, <2>2
    <3> QED BY <1>1, <3>1, <3>2
  <2>3. CASE i > n + 1
    <3>1. i \in (n + 2)..((n + 1) + (m - 1)) /\ i \in (n + 1)..(n + m)
      BY <1>1, <2>3
    <3>2. PICK k \in 1..(m - 1) : k = i - (n + 1) /\ k + 1 = i - n
      BY <1>1, <2>3
    <3>3. a[i] = t[k] /\ b[i] = y[k + 1]
      BY <1>1, <1>3, <3>1, <3>2
    <3> QED BY <1>1, <3>3
  <2> QED BY <1>1, <2>1, <2>2, <2>3
<1>6. a = b
  <2> DEFINE k == n + m
  <2>1. a \in [1..k -> S] /\ b \in [1..k -> S]
    BY <1>1, <1>3, <1>4
  <2> HIDE DEF k
  <2>2. \A i \in 1..k : a[i] = b[i]
    BY <1>5 DEF k
  <2>3. a = [i \in 1..k |-> a[i]] /\ b = [i \in 1..k |-> b[i]]
    BY <2>1
  <2>4. [i \in 1..k |-> a[i]] = [i \in 1..k |-> b[i]]
    BY <2>2
  <2> QED BY <2>3, <2>4
<1> QED BY <1>1, <1>2, <1>6 DEF a, b, z, h, t

\* What is handed over was under way: what was shipped is what it was.
LEMMA DeliverKeeps == ASSUME IInv, NEW w \in Watchers, Deliver(w) PROVE IInv'
<1>1. /\ client \in [Watchers -> Hook] /\ got \in [Watchers -> Seq(RunEvent)] /\ StreamsTo(World, w) /\ IsUsed(w)
      /\ wire \in [Watchers -> Seq(RunEvent)] /\ served \in [Watchers -> {"none", "open", "ended"}] /\ bus \in Bus
  BY Typed DEF IInv, TypeOK, Streaming, WatchedAreUsed
<1>2. /\ UNCHANGED <<scenario, database, queue, directory, running, log, answered, reaped, process>>
      /\ bus' = bus /\ served' = served /\ client[w].phase = "live" /\ wire[w] # << >>
      /\ wire' = [wire EXCEPT ![w] = Tail(@)]
      /\ got' = [got EXCEPT ![w] = Append(@, Head(wire[w]))]
      /\ client' = IF ~client[w].fetched THEN client
                   ELSE [client EXCEPT ![w].timeline = ReduceTimeline(@, Head(wire[w]))]
  BY DEF Deliver
<1>3. PICK x \in Seq(RunEvent), y \in Seq(RunEvent), e \in RunEvent, z \in Seq(RunEvent), t \in Seq(RunEvent) :
        x = got[w] /\ y = wire[w] /\ e = Head(y) /\ z = Append(x, e) /\ t = Tail(y) /\ z \o t = x \o y
  <2>1. PICK x \in Seq(RunEvent), y \in Seq(RunEvent) : x = got[w] /\ y = wire[w]
    BY <1>1
  <2>2. y # << >>
    BY <1>2, <2>1
  <2>3. /\ Head(y) \in RunEvent /\ Tail(y) \in Seq(RunEvent) /\ Append(x, Head(y)) \in Seq(RunEvent)
        /\ Append(x, Head(y)) \o Tail(y) = x \o y
    <3>1. PICK S : S = RunEvent
      OBVIOUS
    <3>2. x \in Seq(S) /\ y \in Seq(S)
      BY <2>1, <3>1
    <3>3. Head(y) \in S /\ Tail(y) \in Seq(S) /\ Append(x, Head(y)) \in Seq(S)
      BY <2>2, <3>2, HeadMoves
    <3>4. Append(x, Head(y)) \o Tail(y) = x \o y
      BY <2>2, <3>2, HeadMoves
    <3> QED BY <3>1, <3>3, <3>4
  <2> QED BY <2>1, <2>3
<1>4. /\ got' = [got EXCEPT ![w] = z] /\ wire' = [wire EXCEPT ![w] = t]
      /\ got' \in [Watchers -> Seq(RunEvent)] /\ wire' \in [Watchers -> Seq(RunEvent)]
      /\ got'[w] = z /\ wire'[w] = t
      /\ \A v \in Watchers : v # w => got'[v] = got[v] /\ wire'[v] = wire[v]
  BY <1>1, <1>2, <1>3
<1>5. /\ client' \in [Watchers -> Hook] /\ client'[w].phase = "live" /\ client'[w].run = client[w].run
      /\ \A v \in Watchers : v # w => client'[v] = client[v]
  <2>1. CASE ~client[w].fetched
    BY <1>1, <1>2, <2>1
  <2>2. CASE client[w].fetched
    <3>1. PICK c \in Hook : c = client[w]
      BY <1>1
    <3> DEFINE f == ReduceTimeline(c.timeline, e)
               h == [c EXCEPT !.timeline = f]
    <3>2. f \in TimelineType
      <4>1. c.timeline \in TimelineType /\ e \in RunEvent
        BY <1>3, <3>1, HookFields
      <4>2. CASE Over(e)
        BY <4>1, <4>2, FinalizedIsClosed DEF ReduceTimeline, Over
      <4>3. CASE ~Over(e)
        BY <4>1, <4>3, AppliedIsShown DEF ReduceTimeline, Over
      <4> QED BY <4>2, <4>3
    <3>3. client' = [client EXCEPT ![w] = h]
      BY <1>2, <1>3, <2>2, <3>1
    <3> HIDE DEF f
    <3>4. h \in Hook /\ h.phase = c.phase /\ h.run = c.run
      BY <3>1, <3>2, HookFields DEF Hook
    <3> HIDE DEF h
    <3> QED BY <1>1, <1>2, <3>1, <3>3, <3>4
  <2> QED BY <2>1, <2>2
<1>6. Shipped(World, w)' = Shipped(World, w)
  BY <1>3, <1>4 DEF Shipped, World
<1>7. StreamsTo(World, w)'
  <2>1. /\ log' = log /\ bus' = bus /\ served' = served
        /\ \A r \in Runs : w \in bus.listeners[r] => client[w].run = r /\ served[w] = "open"
        /\ client[w].run \in Runs /\ IsStretch(Shipped(World, w), log[client[w].run])
        /\ served[w] = "open" =>
             /\ w \in bus.listeners[client[w].run]
             /\ IsWhole(Shipped(World, w), log[client[w].run])
    BY <1>1, <1>2 DEF StreamsTo, World
  <2>2. PICK s, c : s = Shipped(World, w) /\ Shipped(World, w)' = s /\ c = client[w].run /\ client'[w].run = c
    BY <1>5, <1>6
  <2> QED BY <1>5, <2>1, <2>2 DEF StreamsTo, World
<1>8. IsUsed(w)'
  BY <1>1, <1>2, <1>5 DEF IsUsed, running
<1> QED BY <1>1, <1>2, <1>4, <1>5, <1>7, <1>8, OneClientMoves

\* What the bus replays of a run: the newest of its events, and all that fit as long as
\* the service listens.
LEMMA EventsAreTheNewest ==
  ASSUME TypeOK, Buffered(World), NEW r \in Runs
  PROVE  /\ Events(bus, r) \in Seq(RunEvent) /\ IsTail(Events(bus, r), log[r])
         /\ "service" \in bus.listeners[r] => IsWhole(Events(bus, r), log[r])
         /\ IsBuffered(bus, r) => Events(bus, r) # << >>
<1>1. bus \in Bus /\ log \in [Runs -> Seq(RunEvent)]
  BY Typed
<1>2. bus.buffers \in Seq(Buffer)
  BY <1>1 DEF Bus
<1>3. CASE IsBuffered(bus, r)
  <2>1. PICK i \in DOMAIN bus.buffers : bus.buffers[i].run = r /\ Events(bus, r) = bus.buffers[i].events
    BY <1>3 DEF Events, IsBuffered
  <2>2. bus.buffers[i] \in Buffer
    BY <1>2, <2>1
  <2>3. bus.buffers[i].events \in Seq(RunEvent)
    BY <2>2 DEF Buffer
  <2>4. /\ bus.buffers[i].events # << >> /\ IsTail(bus.buffers[i].events, log[r])
        /\ "service" \in bus.listeners[r] => IsWhole(bus.buffers[i].events, log[r])
    BY <2>1 DEF Buffered, World
  <2> QED BY <2>1, <2>3, <2>4
<1>4. CASE ~IsBuffered(bus, r)
  <2>1. Events(bus, r) = << >> /\ log[r] \in Seq(RunEvent)
    BY <1>1, <1>4 DEF Events
  <2>2. "service" \in bus.listeners[r] => log[r] = << >>
    BY <1>4 DEF Buffered, World
  <2>3. << >> \in Seq(RunEvent) /\ IsTail(<< >>, log[r])
    BY <2>1 DEF IsTail
  <2> QED BY <1>4, <2>1, <2>2, <2>3 DEF IsWhole
<1> QED BY <1>3, <1>4

\* A stream that is served begins with what the bus replays; a run that is not over is
\* being executed, so that nothing is missing from it.
LEMMA OpenStreamKeeps == ASSUME IInv, NEW w \in Watchers, OpenStream(w) PROVE IInv'
<1>1. /\ client \in [Watchers -> Hook] /\ got \in [Watchers -> Seq(RunEvent)] /\ StreamsTo(World, w) /\ IsUsed(w)
      /\ wire \in [Watchers -> Seq(RunEvent)] /\ served \in [Watchers -> {"none", "open", "ended"}] /\ bus \in Bus
      /\ TypeOK /\ Buffered(World) /\ log \in [Runs -> Seq(RunEvent)]
      /\ exec \in [Runs -> Fresh \cup Executing \cup {"starting", "ended"}]
  BY Typed DEF IInv, TypeOK, Streaming, WatchedAreUsed
<1>2. /\ UNCHANGED <<scenario, database, queue, directory, running, log, answered, reaped, process>>
      /\ client[w].phase = "opening" /\ got' = got
      /\ client' = [client EXCEPT ![w].phase = "live"]
      /\ wire' = [wire EXCEPT ![w] = Events(bus, client[w].run)]
      /\ served' = [served EXCEPT ![w] = ServedAs(client[w].run)]
      /\ bus' = IF ServedAs(client[w].run) = "open" THEN Subscribe(bus, client[w].run, w) ELSE bus
  BY DEF OpenStream
<1>3. PICK r \in Runs : r = client[w].run
  BY <1>1, <1>2 DEF StreamsTo
<1>4. PICK s \in Seq(RunEvent) : /\ s = Events(bus, r) /\ IsTail(s, log[r])
                                 /\ "service" \in bus.listeners[r] => IsWhole(s, log[r])
  BY <1>1, EventsAreTheNewest
<1>5. ServedAs(r) \in {"open", "ended"}
  BY DEF ServedAs
<1>6. got[w] = << >> /\ \A q \in Runs : w \notin bus.listeners[q]
  BY <1>1, <1>2 DEF StreamsTo, World
<1>7. ASSUME ServedAs(r) = "open" PROVE IsWhole(s, log[r])
  <2>1. exec[r] \notin Fresh /\ runStatus[r] \notin TERMINAL_STAGES
    BY <1>1, <1>2, <1>3, <1>7 DEF IsUsed, ServedAs, IsOver
  <2>2. FollowsItsExecution(r) /\ IsListenedTo(r)
    BY DEF IInv, StatusFollows, ServiceListens
  <2>3. r \notin reaped /\ runStatus[r] = StatusAt(r)
    BY <2>1, <2>2 DEF FollowsItsExecution, TERMINAL_STAGES
  <2>4. exec[r] # "ended"
    <3>1. exec[r] = "ended" => StatusAt(r) = verdict[r] /\ verdict[r] \in TERMINAL_STAGES
      BY <2>2 DEF StatusAt, FollowsItsExecution, Fresh, Executing, Settling
    <3> QED BY <2>1, <2>3, <3>1
  <2>5. exec[r] \in Executing \cup {"starting"}
    BY <1>1, <2>1, <2>4
  <2> QED BY <1>4, <2>2, <2>5 DEF IsListenedTo
<1>8. /\ bus' \in Bus /\ bus'.buffers = bus.buffers
      /\ \A x \in Listeners \ {w} : \A q \in Runs : x \in bus'.listeners[q] <=> x \in bus.listeners[q]
      /\ \A q \in Runs : w \in bus'.listeners[q] <=> q = r /\ ServedAs(r) = "open"
  <2>1. CASE ServedAs(r) = "open"
    <3>1. bus' = Subscribe(bus, r, w)
      BY <1>2, <1>3, <2>1
    <3>2. /\ bus' \in Bus /\ bus'.buffers = bus.buffers
          /\ bus'.listeners = [bus.listeners EXCEPT ![r] = @ \cup {w}] /\ bus.listeners \in [Runs -> SUBSET Listeners]
      <4>1. bus = [seq |-> bus.seq, buffers |-> bus.buffers, listeners |-> bus.listeners]
            /\ bus.seq \in Nat /\ bus.buffers \in Seq(Buffer) /\ bus.listeners \in [Runs -> SUBSET Listeners]
        BY <1>1 DEF Bus
      <4> DEFINE ls == [bus.listeners EXCEPT ![r] = @ \cup {w}]
      <4>2. bus' = [seq |-> bus.seq, buffers |-> bus.buffers, listeners |-> ls]
        BY <3>1, <4>1 DEF Subscribe
      <4>3. ls \in [Runs -> SUBSET Listeners]
        BY <4>1 DEF Listeners
      <4> HIDE DEF ls
      <4>4. bus' \in Bus /\ bus'.buffers = bus.buffers /\ bus'.listeners = ls
        BY <4>1, <4>2, <4>3 DEF Bus
      <4> QED BY <4>1, <4>4 DEF ls
    <3> QED BY <1>6, <2>1, <3>2
  <2>2. CASE ServedAs(r) # "open"
    BY <1>1, <1>2, <1>3, <1>6, <2>2
  <2> QED BY <2>1, <2>2
<1>9. /\ client' \in [Watchers -> Hook] /\ client'[w].phase = "live" /\ client'[w].run = r
      /\ \A v \in Watchers : v # w => client'[v] = client[v]
  <2>1. PICK c \in Hook : c = client[w]
    BY <1>1
  <2> DEFINE h == [c EXCEPT !.phase = "live"]
  <2>2. client' = [client EXCEPT ![w] = h]
    BY <1>2, <2>1
  <2>3. h \in Hook /\ h.phase = "live" /\ h.run = c.run
    BY <2>1, HookFields DEF Hook
  <2> HIDE DEF h
  <2> QED BY <1>1, <1>3, <2>1, <2>2, <2>3
<1>10. /\ wire' \in [Watchers -> Seq(RunEvent)] /\ wire'[w] = s
       /\ served' \in [Watchers -> {"none", "open", "ended"}] /\ served'[w] = ServedAs(r)
       /\ \A v \in Watchers : v # w => wire'[v] = wire[v] /\ served'[v] = served[v]
  <2>1. wire' = [wire EXCEPT ![w] = s] /\ served' = [served EXCEPT ![w] = ServedAs(r)]
    BY <1>2, <1>3, <1>4
  <2> QED BY <1>1, <1>4, <1>5, <2>1
<1>11. Shipped(World, w)' = s
  BY <1>2, <1>4, <1>6, <1>10 DEF Shipped, World
<1>12. IsStretch(s, log[r])
  <2>1. PICK t \in Seq(RunEvent) : t = log[r]
    BY <1>1
  <2>2. Len(s) <= Len(t) /\ \A k \in 1..Len(s) : s[k] = t[Len(t) - Len(s) + k]
    BY <1>4, <2>1 DEF IsTail
  <2>3. Len(s) \in Nat /\ Len(t) \in Nat /\ Len(t) - Len(s) \in 0..(Len(t) - Len(s))
    BY <2>1, <2>2
  <2> QED BY <2>1, <2>2, <2>3 DEF IsStretch
<1>13. StreamsTo(World, w)'
  <2>1. PICK n, p : n = log /\ log' = n /\ p = ServedAs(r)
    BY <1>2
  <2>2. IsStretch(s, n[r])
    BY <1>12, <2>1
  <2>3. p = "open" => IsWhole(s, n[r])
    BY <1>7, <2>1
  <2> QED BY <1>5, <1>8, <1>9, <1>10, <1>11, <2>1, <2>2, <2>3 DEF StreamsTo, World
<1>14. IsUsed(w)'
  BY <1>1, <1>2, <1>3, <1>9 DEF IsUsed, running
<1>15. got' \in [Watchers -> Seq(RunEvent)] /\ \A v \in Watchers : v # w => got'[v] = got[v]
  BY <1>1, <1>2
<1> QED BY <1>2, <1>8, <1>9, <1>10, <1>13, <1>14, <1>15, OneClientMoves

-----------------------------------------------------------------------------
(* The invariant                                                              *)

\* Every step keeps the invariant.
LEMMA NextIInv == ASSUME IInv, [Next]_vars PROVE IInv'
<1>1. CASE ApplyNext
  <2>1. PICK m : m = Head(queue) /\ queue # << >>
    BY <1>1 DEF ApplyNext
  <2>2. \/ m.kind = "admit" /\ Admit(m)
        \/ m.kind = "start" /\ Start(m)
        \/ m.kind = "event" /\ Record(m)
        \/ m.kind = "close" /\ Close(m)
        \/ m.kind = "reap" /\ ReapNow(m)
        \/ m.kind = "principals" /\ KeepPrincipals(m)
    BY <1>1, <2>1 DEF ApplyNext
  <2>3. CASE m.kind = "admit" /\ Admit(m)
    BY <2>1, <2>3, AdmitKeeps
  <2>4. CASE m.kind = "start" /\ Start(m)
    BY <2>1, <2>4, StartKeeps
  <2>5. CASE m.kind = "event" /\ Record(m)
    BY <2>1, <2>5, RecordKeeps
  <2>6. CASE m.kind = "close" /\ Close(m)
    BY <2>1, <2>6, CloseKeeps
  <2>7. CASE m.kind = "reap" /\ ReapNow(m)
    BY <2>1, <2>7, ReapNowKeeps
  <2>8. CASE m.kind = "principals" /\ KeepPrincipals(m)
    BY <2>1, <2>8, KeepPrincipalsKeeps
  <2> QED BY <2>2, <2>3, <2>4, <2>5, <2>6, <2>7, <2>8
<1>2. CASE ProcessMoves
  BY <1>2, ProcessMovesKeeps
<1>3. CASE ProcessEnds
  BY <1>3, ProcessEndsKeeps
<1>4. CASE ChangePrincipals
  BY <1>4, ChangePrincipalsKeeps
<1>5. ASSUME NEW r \in Runs, SendMessage(r) \/ Execute(r) \/ Finish(r) \/ Reap(r) \/ Cancel(r) \/ Removed(r)
      PROVE  IInv'
  BY <1>5, SendMessageKeeps, ExecuteKeeps, FinishKeeps, ReapKeeps, CancelKeeps, RemovedKeeps
<1>6. ASSUME NEW w \in Watchers, Client(w) \/ Break(w) \/ ServerSeesClose(w) PROVE IInv'
  BY <1>6, OpenStreamKeeps, DeliverKeeps, LeavingKeeps, FetchingKeeps, ServerSeesCloseKeeps DEF Client
<1>7. ASSUME NEW w \in Watchers, NEW r \in Runs, Watch(w, r) PROVE IInv'
  BY <1>7, WatchKeeps
<1>8. CASE UNCHANGED vars
  <2>1. /\ UNCHANGED <<scenario, database, queue, directory, running, log, answered, reaped, process>>
        /\ UNCHANGED <<exec, verdict, activeExecution, cancelFlag, cancel, watching, bus, stream>>
    BY <1>8 DEF vars, running
  <2>2. /\ World' \in Worlds /\ Buffered(World)' /\ Streaming(World)' /\ MovesInOrder'
        /\ StatusFollows' /\ ServiceListens' /\ Announced' /\ TablesInOrder' /\ MessagesHavePrincipals'
        /\ EndsAreRecorded' /\ WatchedAreUsed'
        /\ \A q \in Runs : Stopped(q) => Stopped(q)'
    BY <2>1, OnlyProcessMoves
  <2>3. TypeOK'
    BY <2>1, <2>2 DEF IInv, TypeOK, database, watching, process
  <2>4. ProcessIsAwaited' /\ CancelsWait'
    BY <2>1, <2>2, CancelsStay DEF IInv, ProcessIsAwaited, Running, process
  <2> QED BY <2>2, <2>3, <2>4 DEF IInv
<1> QED BY <1>1, <1>2, <1>3, <1>4, <1>5, <1>6, <1>7, <1>8 DEF Next

\* Messages, executions, the process and its two watchdogs, cancels, revocations, streams
\* and clients keep the invariant, whatever comes between.
THEOREM Invariant == Spec => []IInv
<1>1. Init => IInv
  BY InitIInv
<1>2. IInv /\ [Next]_vars => IInv'
  BY NextIInv
<1> QED BY <1>1, <1>2, PTL DEF Spec

-----------------------------------------------------------------------------
(* What is stored and shown                                                   *)

\* The entry of the pipeline an event is about, and those it is past.
At(e, i)     == PIPELINE_STAGES[i] = e.stage
Beyond(e, i) == \E s \in Step : PIPELINE_STAGES[s] = e.stage /\ i < s

\* An entry is as the last event about it left it, among those at the positions P of s,
\* or passed by a later one; or, if none is about it, as it was at the start.
ShowsLast(status, i, s, P) ==
  \A p \in P : At(s[p], i) /\ (\A q \in P : q > p => ~At(s[q], i)) =>
    status = IF \E q \in P : q > p /\ Beyond(s[q], i) THEN Passed(Shown(s[p])) ELSE Shown(s[p])
ShowsNone(status, i, s, P) ==
  (\A p \in P : ~At(s[p], i)) =>
    status = IF \E q \in P : Beyond(s[q], i) THEN Passed(InitialTimeline.steps[i]) ELSE InitialTimeline.steps[i]

\* The events of a run that are on their way to the store are the newest of its log, in
\* order, and the stored pipeline shows all the others, as long as the run is not over.
Unended(s) == \A p \in DOMAIN s : ~Over(s[p])
Awaiting(v, r) == {i \in DOMAIN v.queue : v.queue[i].kind = "event" /\ v.queue[i].run = r}
Recorded(v, r) == {p \in DOMAIN v.log[r] : \A i \in Awaiting(v, r) : v.queue[i].event # v.log[r][p]}
Numbers(v, r) ==
  /\ \A p \in DOMAIN v.log[r] : v.log[r][p].seq < v.bus.seq
  /\ \A p, q \in DOMAIN v.log[r] : p < q => v.log[r][p].seq < v.log[r][q].seq
  /\ \A i, j \in Awaiting(v, r) : i < j => v.queue[i].event.seq < v.queue[j].event.seq
Follows(v, r) ==
  \A i \in Awaiting(v, r) : \E p \in DOMAIN v.log[r] :
    /\ v.queue[i].event = v.log[r][p]
    /\ \A q \in DOMAIN v.log[r] : q > p => \E j \in Awaiting(v, r) : v.queue[j].event = v.log[r][q]
ShowsRecorded(v, r) ==
  \A i \in Step : /\ ShowsLast(timeline[r].steps[i], i, v.log[r], Recorded(v, r))
                  /\ ShowsNone(timeline[r].steps[i], i, v.log[r], Recorded(v, r))
Stores(v, r) == Unended(v.log[r]) => Numbers(v, r) /\ Follows(v, r) /\ ShowsRecorded(v, r)

\* A stream is listening only to a run that is not over.
Listening(v, w) == \A r \in Runs : w \in v.bus.listeners[r] => Unended(v.log[r])

\* What a client shows of an entry is as the last event it was handed about it left it;
\* of an entry that no event of the run is about yet, at most that it was passed.
Handed(status, i, g, s) ==
  /\ ShowsLast(status, i, g, DOMAIN g)
  /\ (\A p \in DOMAIN s : ~At(s[p], i)) =>
       \/ status = InitialTimeline.steps[i] /\ \A p \in DOMAIN g : ~Beyond(g[p], i)
       \/ status = Passed(InitialTimeline.steps[i]) /\ \E p \in DOMAIN s : Beyond(s[p], i)
ShowsHanded(v, w) ==
  LET s == v.log[client[w].run] IN
  client[w].phase \in {"opening", "live"} /\ client[w].fetched /\ Unended(s) =>
    \A i \in Step : Handed(client[w].timeline.steps[i], i, got[w], s)

\* Kept by every step that keeps the inductive invariant.
Faithful(v) == /\ \A r \in Runs : Stores(v, r)
               /\ \A w \in Watchers : Listening(v, w) /\ ShowsHanded(v, w)

-----------------------------------------------------------------------------
(* What the events make of the pipeline                                       *)

\* An event has one entry, and is not past it.
LEMMA OneEntry ==
  ASSUME NEW e, NEW i \in Step, NEW j \in Step, At(e, i)
  PROVE  ~Beyond(e, i) /\ (At(e, j) => i = j)
<1>1. ASSUME NEW a \in Step, NEW b \in Step, PIPELINE_STAGES[a] = PIPELINE_STAGES[b] PROVE a = b
  <2>1. Step = 1..9
    BY DEF Step, PIPELINE_STAGES
  <2>2. a \in 1..9 /\ b \in 1..9
    BY <2>1
  <2> QED BY <1>1, <2>2 DEF PIPELINE_STAGES
<1>2. \A k \in Step : k \in Nat
  BY DEF Step, PIPELINE_STAGES
<1>3. At(e, j) => i = j
  BY <1>1 DEF At
<1>4. ASSUME NEW s \in Step, PIPELINE_STAGES[s] = e.stage, i < s PROVE FALSE
  BY <1>1, <1>2, <1>4 DEF At
<1> QED BY <1>3, <1>4 DEF Beyond

\* What applying an event makes of an entry.
LEMMA Applied ==
  ASSUME NEW t \in TimelineType, NEW e, NEW i \in Step
  PROVE  ApplyEventToTimeline(t, e).steps[i] =
           IF Beyond(e, i) THEN Passed(t.steps[i]) ELSE IF At(e, i) THEN Shown(e) ELSE t.steps[i]
<1> DEFINE new == [k \in Step |-> IF Beyond(e, k) THEN Passed(t.steps[k])
                                  ELSE IF At(e, k) THEN Shown(e) ELSE t.steps[k]]
<1>1. ApplyEventToTimeline(t, e) = [t EXCEPT !.steps = new]
  BY DEF ApplyEventToTimeline, Beyond, At
<1> HIDE DEF new
<1>2. t = [steps |-> t.steps, ends |-> t.ends]
  BY DEF TimelineType
<1>3. [t EXCEPT !.steps = new].steps = new
  BY <1>2
<1>4. ApplyEventToTimeline(t, e).steps[i] = new[i]
  BY <1>1, <1>3
<1> QED BY <1>4 DEF new

\* What an entry shows is about the events alone.
LEMMA ShowsTheSame ==
  ASSUME NEW status, NEW i, NEW s, NEW t, NEW P, \A p \in P : s[p] = t[p]
  PROVE  /\ ShowsLast(status, i, s, P) => ShowsLast(status, i, t, P)
         /\ ShowsNone(status, i, s, P) => ShowsNone(status, i, t, P)
<1>1. \A p \in P : (At(s[p], i) <=> At(t[p], i)) /\ (Beyond(s[p], i) <=> Beyond(t[p], i)) /\ Shown(s[p]) = Shown(t[p])
  OBVIOUS
<1>2. ShowsLast(status, i, s, P) => ShowsLast(status, i, t, P)
  BY <1>1 DEF ShowsLast
<1>3. ShowsNone(status, i, s, P) => ShowsNone(status, i, t, P)
  BY <1>1 DEF ShowsNone
<1> QED BY <1>2, <1>3

\* An entry goes on showing the last event about it when the next event is applied.
LEMMA ShowsNext ==
  ASSUME NEW status, NEW i \in Step, NEW s, NEW P \in SUBSET Nat, NEW n \in Nat, \A p \in P : p < n
  PROVE  LET new == IF Beyond(s[n], i) THEN Passed(status) ELSE IF At(s[n], i) THEN Shown(s[n]) ELSE status
         IN /\ ShowsLast(status, i, s, P) => ShowsLast(new, i, s, P \cup {n})
            /\ ShowsNone(status, i, s, P) => ShowsNone(new, i, s, P \cup {n})
<1> DEFINE new == IF Beyond(s[n], i) THEN Passed(status) ELSE IF At(s[n], i) THEN Shown(s[n]) ELSE status
           Q   == P \cup {n}
<1>1. \A x : Passed(Passed(x)) = Passed(x)
  BY DEF Passed, Open
<1>2. At(s[n], i) => ~Beyond(s[n], i)
  BY OneEntry
<1>3. \A p \in P : p \in Nat /\ p < n /\ ~(n < p) /\ p # n /\ n > p /\ ~(p > n)
  OBVIOUS
<1>4. ~(n > n)
  OBVIOUS
<1>5. ASSUME ShowsLast(status, i, s, P), NEW p \in Q, At(s[p], i), \A q \in Q : q > p => ~At(s[q], i)
      PROVE  new = IF \E q \in Q : q > p /\ Beyond(s[q], i) THEN Passed(Shown(s[p])) ELSE Shown(s[p])
  <2>1. CASE p = n
    <3>1. \A q \in Q : ~(q > p)
      BY <1>3, <1>4, <2>1
    <3>2. new = Shown(s[p])
      BY <1>2, <1>5, <2>1
    <3> QED BY <3>1, <3>2
  <2>2. CASE p # n
    <3>1. p \in P /\ n > p /\ ~At(s[n], i)
      BY <1>3, <1>5, <2>2
    <3>2. status = IF \E q \in P : q > p /\ Beyond(s[q], i) THEN Passed(Shown(s[p])) ELSE Shown(s[p])
      BY <1>5, <3>1 DEF ShowsLast
    <3>3. new = IF Beyond(s[n], i) THEN Passed(status) ELSE status
      BY <3>1
    <3>4. CASE Beyond(s[n], i)
      <4>1. \E q \in Q : q > p /\ Beyond(s[q], i)
        BY <3>1, <3>4
      <4>2. new = Passed(Shown(s[p]))
        BY <1>1, <3>2, <3>3, <3>4
      <4> QED BY <4>1, <4>2
    <3>5. CASE ~Beyond(s[n], i)
      <4>1. (\E q \in Q : q > p /\ Beyond(s[q], i)) <=> \E q \in P : q > p /\ Beyond(s[q], i)
        BY <3>5
      <4> QED BY <3>2, <3>3, <3>5, <4>1
    <3> QED BY <3>4, <3>5
  <2> QED BY <2>1, <2>2
<1>6. ASSUME ShowsNone(status, i, s, P), \A p \in Q : ~At(s[p], i)
      PROVE  new = IF \E q \in Q : Beyond(s[q], i) THEN Passed(InitialTimeline.steps[i]) ELSE InitialTimeline.steps[i]
  <2> DEFINE first == InitialTimeline.steps[i]
  <2> HIDE DEF first
  <2>1. status = IF \E q \in P : Beyond(s[q], i) THEN Passed(first) ELSE first
    BY <1>6 DEF ShowsNone, first
  <2>2. new = IF Beyond(s[n], i) THEN Passed(status) ELSE status
    BY <1>6
  <2>3. (\E q \in Q : Beyond(s[q], i)) <=> Beyond(s[n], i) \/ \E q \in P : Beyond(s[q], i)
    OBVIOUS
  <2>4. new = IF \E q \in Q : Beyond(s[q], i) THEN Passed(first) ELSE first
    BY <1>1, <2>1, <2>2, <2>3
  <2> QED BY <2>4 DEF first
<1> HIDE DEF new
<1>7. ShowsLast(status, i, s, P) => ShowsLast(new, i, s, Q)
  BY <1>5 DEF ShowsLast
<1>8. ShowsNone(status, i, s, P) => ShowsNone(new, i, s, Q)
  BY <1>6 DEF ShowsNone
<1> QED BY <1>7, <1>8 DEF new

-----------------------------------------------------------------------------
(* What an event makes of what is kept and shown                              *)

\* Every event has the next number.
LEMMA NextNumber ==
  ASSUME NEW v \in Worlds, NEW event \in RunEvent
  PROVE  v.bus.seq \in Nat /\ PublishOne(v, event).bus.seq = v.bus.seq + 1
<1> DEFINE r     == event.run
           hears == {w \in Watchers : Listens(v.bus, w, r)}
           after == Emit(v.bus, event)
           out   == PublishOne(v, event)
<1>1. v.bus \in Bus /\ v.bus.seq \in Nat
  BY DEF Worlds, Bus
<1>2. after \in Bus /\ after.seq = v.bus.seq + 1
  BY <1>1, EmitFacts
<1>3. out.bus = (IF Over(event) THEN [after EXCEPT !.listeners[r] = @ \ hears] ELSE after)
  BY DEF PublishOne
<1> HIDE DEF out, after, hears, r
<1>4. after = [seq |-> after.seq, buffers |-> after.buffers, listeners |-> after.listeners]
  BY <1>2 DEF Bus
<1> DEFINE ls == [after.listeners EXCEPT ![r] = @ \ hears]
<1>5. [after EXCEPT !.listeners[r] = @ \ hears] = [after EXCEPT !.listeners = ls]
  OBVIOUS
<1> HIDE DEF ls
<1>6. [after EXCEPT !.listeners = ls].seq = after.seq
  BY <1>4
<1>7. out.bus.seq = after.seq
  BY <1>3, <1>5, <1>6
<1> QED BY <1>1, <1>2, <1>7 DEF out

\* The events of a run are numbered in order and queued in order: the newest of the log
\* are those that are not stored yet.
LEMMA OneEventStores ==
  ASSUME NEW v \in Worlds, NEW event \in RunEvent, NEW q \in Runs, Stores(v, q),
         "service" \in v.bus.listeners[event.run], timeline \in [Runs -> TimelineType]
  PROVE  Stores(PublishOne(v, event), q)
<1> DEFINE r   == event.run
           e   == Sent(v, event)
           m   == Heard(v, event)
           out == PublishOne(v, event)
           k   == Len(v.queue)
<1>1. /\ out \in Worlds /\ e \in RunEvent /\ r \in Runs /\ e = [event EXCEPT !.seq = v.bus.seq]
      /\ out.log = [v.log EXCEPT ![r] = Append(@, e)]
      /\ out.queue = Append(v.queue, m)
  BY OneEvent
<1>2. v.bus.seq \in Nat /\ out.bus.seq = v.bus.seq + 1
  BY NextNumber
<1>3. e.seq = v.bus.seq /\ m.kind = "event" /\ m.run = r /\ m.event = e /\ m \in Message
  BY <1>1 DEF RunEvent, Heard, Message
<1>4. v.log \in [Runs -> Seq(RunEvent)] /\ v.queue \in Seq(Message)
  BY DEF Worlds
<1> HIDE DEF out, e, m
<1>5. /\ k \in Nat /\ DOMAIN v.queue = 1..k /\ DOMAIN out.queue = 1..(k + 1)
      /\ \A i \in 1..k : out.queue[i] = v.queue[i]
      /\ out.queue[k + 1] = m
  BY <1>1, <1>3, <1>4
<1>6. CASE q # r
  <2>1. out.log[q] = v.log[q] /\ v.log[q] \in Seq(RunEvent)
    BY <1>1, <1>4, <1>6
  <2>2. Awaiting(out, q) = Awaiting(v, q)
    BY <1>3, <1>5, <1>6 DEF Awaiting
  <2>3. \A i \in Awaiting(v, q) : out.queue[i] = v.queue[i]
    BY <1>5 DEF Awaiting
  <2>4. Recorded(out, q) = Recorded(v, q)
    BY <2>1, <2>2, <2>3 DEF Recorded
  <2>5. \A p \in DOMAIN v.log[q] : v.log[q][p].seq \in Nat
    <3> DEFINE s == v.log[q]
    <3>1. s \in Seq(RunEvent)
      BY <2>1
    <3> HIDE DEF s
    <3>2. \A p \in DOMAIN s : s[p] \in RunEvent
      BY <3>1
    <3> QED BY <3>2 DEF s, RunEvent
  <2>6. ASSUME Unended(v.log[q]) PROVE Numbers(out, q)
    <3>1. Numbers(v, q)
      BY <2>6 DEF Stores
    <3> QED BY <1>2, <2>1, <2>2, <2>3, <2>5, <3>1 DEF Numbers
  <2>7. ASSUME Unended(v.log[q]) PROVE Follows(out, q) /\ ShowsRecorded(out, q)
    <3>1. Follows(v, q) /\ ShowsRecorded(v, q)
      BY <2>7 DEF Stores
    <3> QED BY <2>1, <2>2, <2>3, <2>4, <3>1 DEF Follows, ShowsRecorded
  <2> QED BY <2>1, <2>6, <2>7 DEF Stores, out
<1>7. CASE q = r
  <2> DEFINE s == v.log[q] n == Len(s) t == out.log[q]
  <2>1. /\ s \in Seq(RunEvent) /\ n \in Nat /\ DOMAIN s = 1..n /\ t = Append(s, e) /\ DOMAIN t = 1..(n + 1)
        /\ \A p \in 1..n : t[p] = s[p] /\ t[p] \in RunEvent
        /\ t[n + 1] = e
    BY <1>1, <1>4, <1>7
  <2> HIDE DEF s, n, t, k
  <2>2. ASSUME Unended(t) PROVE Numbers(out, q) /\ Follows(out, q) /\ ShowsRecorded(out, q)
    <3>1. Unended(s)
      BY <2>1, <2>2 DEF Unended
    <3>2. Numbers(v, q) /\ Follows(v, q) /\ ShowsRecorded(v, q)
      BY <3>1 DEF Stores, s
    <3>3. /\ \A p \in 1..n : s[p].seq < v.bus.seq /\ s[p].seq \in Nat
          /\ \A a, b \in 1..n : a < b => s[a].seq < s[b].seq
      BY <2>1, <3>2 DEF Numbers, s, RunEvent
    <3>4. /\ Awaiting(v, q) \subseteq 1..k /\ Awaiting(out, q) = Awaiting(v, q) \cup {k + 1}
          /\ \A i \in Awaiting(v, q) : out.queue[i] = v.queue[i] /\ i # k + 1
      BY <1>3, <1>5, <1>7 DEF Awaiting
    <3>5. \A i \in Awaiting(v, q) : \E p \in 1..n :
            /\ v.queue[i].event = s[p]
            /\ \A a \in 1..n : a > p => \E j \in Awaiting(v, q) : v.queue[j].event = s[a]
      <4>1. \A i \in Awaiting(v, q) : \E p \in DOMAIN s :
              /\ v.queue[i].event = s[p]
              /\ \A a \in DOMAIN s : a > p => \E j \in Awaiting(v, q) : v.queue[j].event = s[a]
        BY <3>2 DEF Follows, s
      <4> QED BY <2>1, <4>1
    <3>6. \A i, j \in Awaiting(v, q) : i < j => v.queue[i].event.seq < v.queue[j].event.seq
      BY <3>2 DEF Numbers
    <3>7. \A i \in Awaiting(v, q) : v.queue[i].event.seq < v.bus.seq /\ v.queue[i].event # e
      BY <1>2, <1>3, <3>3, <3>5
    <3>8. Numbers(out, q)
      <4>1. \A p \in 1..(n + 1) : t[p].seq < v.bus.seq + 1
        BY <1>2, <1>3, <2>1, <3>3
      <4>2. ASSUME NEW a \in 1..(n + 1), NEW b \in 1..(n + 1), a < b PROVE t[a].seq < t[b].seq
        <5>1. a \in 1..n
          BY <2>1, <4>2
        <5>2. CASE b = n + 1
          BY <1>3, <2>1, <3>3, <5>1, <5>2
        <5>3. CASE b # n + 1
          <6>1. b \in 1..n
            BY <2>1, <5>3
          <6> QED BY <2>1, <3>3, <4>2, <5>1, <6>1
        <5> QED BY <5>2, <5>3
      <4>3. ASSUME NEW i \in Awaiting(out, q), NEW j \in Awaiting(out, q), i < j
            PROVE  out.queue[i].event.seq < out.queue[j].event.seq
        <5>1. i \in Awaiting(v, q)
          BY <1>5, <3>4, <4>3
        <5>2. CASE j = k + 1
          BY <1>3, <1>5, <3>4, <3>7, <5>1, <5>2
        <5>3. CASE j # k + 1
          BY <3>4, <3>6, <4>3, <5>1, <5>3
        <5> QED BY <5>2, <5>3
      <4> QED BY <1>2, <2>1, <4>1, <4>2, <4>3 DEF Numbers, t
    <3>9. Follows(out, q)
      <4>1. k + 1 \in Awaiting(out, q) /\ out.queue[k + 1].event = t[n + 1]
        BY <1>3, <1>5, <2>1, <3>4
      <4>2. ASSUME NEW i \in Awaiting(out, q)
            PROVE  \E p \in 1..(n + 1) :
                     /\ out.queue[i].event = t[p]
                     /\ \A a \in 1..(n + 1) : a > p => \E j \in Awaiting(out, q) : out.queue[j].event = t[a]
        <5>1. CASE i = k + 1
          <6>1. \A a \in 1..(n + 1) : ~(a > n + 1)
            BY <2>1
          <6> QED BY <2>1, <4>1, <5>1, <6>1
        <5>2. CASE i # k + 1
          <6>1. i \in Awaiting(v, q)
            BY <3>4, <5>2
          <6>2. PICK p \in 1..n : /\ v.queue[i].event = s[p]
                                  /\ \A a \in 1..n : a > p => \E j \in Awaiting(v, q) : v.queue[j].event = s[a]
            BY <3>5, <6>1
          <6>3. ASSUME NEW a \in 1..(n + 1), a > p PROVE \E j \in Awaiting(out, q) : out.queue[j].event = t[a]
            <7>1. CASE a = n + 1
              BY <4>1, <7>1
            <7>2. CASE a # n + 1
              <8>1. a \in 1..n
                BY <2>1, <7>2
              <8>2. PICK j \in Awaiting(v, q) : v.queue[j].event = s[a]
                BY <6>2, <6>3, <8>1
              <8> QED BY <2>1, <3>4, <8>1, <8>2
            <7> QED BY <7>1, <7>2
          <6>4. p \in 1..(n + 1) /\ out.queue[i].event = t[p]
            BY <2>1, <3>4, <6>1, <6>2
          <6> QED BY <6>3, <6>4
        <5> QED BY <5>1, <5>2
      <4> QED BY <2>1, <4>2 DEF Follows, t
    <3>10. Recorded(out, q) = Recorded(v, q)
      <4>1. \A p \in 1..n : (\A i \in Awaiting(out, q) : out.queue[i].event # t[p])
                            <=> \A i \in Awaiting(v, q) : v.queue[i].event # s[p]
        <5>1. \A p \in 1..n : out.queue[k + 1].event # t[p]
          BY <1>2, <1>3, <1>5, <2>1, <3>3
        <5> QED BY <2>1, <3>4, <5>1
      <4>2. ~ \A i \in Awaiting(out, q) : out.queue[i].event # t[n + 1]
        BY <1>3, <1>5, <2>1, <3>4
      <4>3. Recorded(out, q) = {p \in 1..(n + 1) : \A i \in Awaiting(out, q) : out.queue[i].event # t[p]}
        BY <2>1 DEF Recorded, t
      <4>4. Recorded(v, q) = {p \in 1..n : \A i \in Awaiting(v, q) : v.queue[i].event # s[p]}
        BY <2>1 DEF Recorded, s
      <4>5. \A p \in 1..(n + 1) : p \in 1..n \/ p = n + 1
        BY <2>1
      <4>6. 1..n \subseteq 1..(n + 1)
        BY <2>1
      <4> QED BY <4>1, <4>2, <4>3, <4>4, <4>5, <4>6
    <3>11. \A p \in Recorded(v, q) : s[p] = t[p]
      BY <2>1 DEF Recorded, s
    <3>12. ShowsRecorded(out, q)
      <4>1. ASSUME NEW i \in Step
            PROVE  /\ ShowsLast(timeline[q].steps[i], i, t, Recorded(v, q))
                   /\ ShowsNone(timeline[q].steps[i], i, t, Recorded(v, q))
        <5>1. /\ ShowsLast(timeline[q].steps[i], i, s, Recorded(v, q))
              /\ ShowsNone(timeline[q].steps[i], i, s, Recorded(v, q))
          BY <3>2 DEF ShowsRecorded, s
        <5> QED BY <3>11, <5>1, ShowsTheSame
      <4> QED BY <3>10, <4>1 DEF ShowsRecorded, t
    <3> QED BY <3>8, <3>9, <3>12
  <2> QED BY <2>2 DEF Stores, t, out
<1> QED BY <1>6, <1>7

\* A stream goes on listening only to a run that is not over, and a client's pipeline
\* is about the events it was handed.
LEMMA OneEventShows ==
  ASSUME NEW v \in Worlds, NEW event \in RunEvent, Streaming(v), NEW w \in Watchers,
         Listening(v, w), ShowsHanded(v, w)
  PROVE  Listening(PublishOne(v, event), w) /\ ShowsHanded(PublishOne(v, event), w)
<1> DEFINE r   == event.run
           e   == Sent(v, event)
           out == PublishOne(v, event)
<1>1. /\ out \in Worlds /\ e \in RunEvent /\ r \in Runs /\ e = [event EXCEPT !.seq = v.bus.seq]
      /\ out.log = [v.log EXCEPT ![r] = Append(@, e)]
      /\ \A q \in Runs : out.bus.listeners[q] =
           (IF Over(event) /\ q = r THEN v.bus.listeners[r] \ Watchers ELSE v.bus.listeners[q])
  BY OneEvent
<1>2. Over(e) <=> Over(event)
  BY <1>1 DEF RunEvent, Over
<1>3. v.log \in [Runs -> Seq(RunEvent)]
  BY DEF Worlds
<1> HIDE DEF out, e, r
<1>4. ASSUME NEW q \in Runs
      PROVE  \/ q # r /\ out.log[q] = v.log[q]
             \/ /\ q = r /\ Len(v.log[q]) \in Nat
                /\ DOMAIN v.log[q] = 1..Len(v.log[q]) /\ DOMAIN out.log[q] = 1..(Len(v.log[q]) + 1)
                /\ out.log[q][Len(v.log[q]) + 1] = e
                /\ \A p \in DOMAIN v.log[q] : p \in DOMAIN out.log[q] /\ out.log[q][p] = v.log[q][p]
  <2>1. CASE q # r
    BY <1>1, <1>3, <2>1
  <2>2. CASE q = r
    <3> DEFINE s == v.log[q] t == out.log[q]
    <3>1. s \in Seq(RunEvent) /\ t = Append(s, e)
      BY <1>1, <1>3, <2>2
    <3> HIDE DEF s, t
    <3>2. /\ Len(s) \in Nat /\ DOMAIN s = 1..Len(s) /\ DOMAIN t = 1..(Len(s) + 1) /\ t[Len(s) + 1] = e
          /\ \A p \in DOMAIN s : p \in DOMAIN t /\ t[p] = s[p]
      BY <3>1
    <3> QED BY <2>2, <3>2 DEF s, t
  <2> QED BY <2>1, <2>2
<1>5. ASSUME NEW q \in Runs, w \in out.bus.listeners[q] PROVE Unended(out.log[q])
  <2>1. w \in v.bus.listeners[q] /\ (q = r => ~Over(event))
    BY <1>1, <1>5
  <2>2. Unended(v.log[q])
    BY <2>1 DEF Listening
  <2>3. CASE q # r
    BY <1>4, <2>2, <2>3
  <2>4. CASE q = r
    <3>1. \A p \in 1..(Len(v.log[q]) + 1) : p \in 1..Len(v.log[q]) \/ p = Len(v.log[q]) + 1
      BY <1>4, <2>4
    <3> QED BY <1>2, <1>4, <2>1, <2>2, <2>4, <3>1 DEF Unended
  <2> QED BY <2>3, <2>4
<1>6. Listening(out, w)
  BY <1>5 DEF Listening
<1>7. ShowsHanded(out, w)
  <2> DEFINE q == client[w].run s == v.log[q] t == out.log[q]
  <2>1. CASE client[w].phase \notin {"opening", "live"}
    BY <2>1 DEF ShowsHanded
  <2>2. CASE client[w].phase \in {"opening", "live"}
    <3>1. q \in Runs
      BY <2>2 DEF Streaming, StreamsTo
    <3>2. \A p \in DOMAIN s : p \in DOMAIN t /\ t[p] = s[p]
      BY <1>4, <3>1
    <3> HIDE DEF q, s, t
    <3>3. Unended(t) => Unended(s)
      BY <3>2 DEF Unended
    <3>4. ASSUME NEW i \in Step, \A p \in DOMAIN t : ~At(t[p], i) PROVE \A p \in DOMAIN s : ~At(s[p], i)
      BY <3>2, <3>4
    <3>5. ASSUME NEW i \in Step, \E p \in DOMAIN s : Beyond(s[p], i) PROVE \E p \in DOMAIN t : Beyond(t[p], i)
      BY <3>2, <3>5
    <3> QED BY <2>2, <3>3, <3>4, <3>5 DEF ShowsHanded, Handed, q, s, t
  <2> QED BY <2>1, <2>2
<1> QED BY <1>6, <1>7 DEF out

\* Each of the events of a turn is kept and shown.
LEMMA NthIsFaithful ==
  ASSUME NEW v \in Worlds, NEW r \in Runs, NEW events \in Seq(Saying), NEW i \in Nat,
         Streaming(v), Faithful(v), "service" \in v.bus.listeners[r], timeline \in [Runs -> TimelineType]
  PROVE  Faithful(PublishNth(v, r, events, i))
<1> DEFINE out == PublishNth(v, r, events, i)
<1>1. CASE i \notin DOMAIN events
  BY <1>1 DEF PublishNth
<1>2. CASE i \in DOMAIN events
  <2> DEFINE event == Event(r, events[i])
  <2>1. events[i] \in Saying
    BY <1>2
  <2>2. event \in RunEvent /\ event.run = r
    BY <2>1 DEF Event, RunEvent, Saying
  <2>3. out = PublishOne(v, event)
    BY <1>2 DEF PublishNth
  <2> HIDE DEF event, out
  <2>4. \A q \in Runs : Stores(out, q)
    BY <2>2, <2>3, OneEventStores DEF Faithful
  <2>5. \A w \in Watchers : Listening(out, w) /\ ShowsHanded(out, w)
    BY <2>2, <2>3, OneEventShows DEF Faithful
  <2> QED BY <2>4, <2>5 DEF Faithful, out
<1> QED BY <1>1, <1>2

\* A turn of the loop that speaks for a run the service listens to.
LEMMA PublishIsFaithful ==
  ASSUME TypeOK, Buffered(World), Streaming(World),
         NEW r \in Runs, NEW events \in Seq(Saying), NEW pending \in Seq(Message),
         NEW ls \in {{}, {"service"}}, Publish(r, events, pending, ls), UNCHANGED watching,
         Faithful([bus |-> bus, queue |-> pending, log |-> log, wire |-> wire, served |-> served]),
         "service" \in bus.listeners[r],
         \A q \in Runs : timeline'[q] = timeline[q] \/ ~Unended(log'[q])
  PROVE  Faithful(World)'
<1> DEFINE u == [bus |-> bus, queue |-> pending, log |-> log, wire |-> wire, served |-> served]
           a == PublishNth(u, r, events, 1)
           b == PublishNth(a, r, events, 2)
           c == PublishNth(b, r, events, 3)
           E == Range(events)
<1>1. got \in [Watchers -> Seq(RunEvent)] /\ World \in Worlds /\ timeline \in [Runs -> TimelineType]
  BY DEF TypeOK
<1>2. u \in Worlds
  BY <1>1 DEF Worlds, World
<1>3. Buffered(u) /\ Streaming(u)
  BY DEF Buffered, Streaming, StreamsTo, Shipped, World
<1>4. Faithful(u) /\ "service" \in u.bus.listeners[r]
  OBVIOUS
<1>5. /\ bus' = [c.bus EXCEPT !.listeners[r] = @ \ ls]
      /\ queue' = c.queue /\ log' = c.log /\ wire' = c.wire /\ served' = c.served
  BY DEF Publish
<1> HIDE DEF u, a, b, c, E
<1>6. a \in Worlds /\ Buffered(a) /\ Streaming(a) /\ Grown(u, a, r, E)
  BY <1>1, <1>2, <1>3, NthGrows DEF a, E
<1>7. Faithful(a) /\ "service" \in a.bus.listeners[r]
  BY <1>1, <1>2, <1>3, <1>4, <1>6, NthIsFaithful DEF a, Grown
<1>8. b \in Worlds /\ Buffered(b) /\ Streaming(b) /\ Grown(a, b, r, E)
  BY <1>1, <1>6, NthGrows DEF b, E
<1>9. Faithful(b) /\ "service" \in b.bus.listeners[r]
  BY <1>1, <1>6, <1>7, <1>8, NthIsFaithful DEF b, Grown
<1>10. Faithful(c) /\ c \in Worlds
  BY <1>1, <1>8, <1>9, NthIsFaithful, NthGrows DEF c
<1>11. /\ bus'.seq = c.bus.seq
       /\ \A q \in Runs, w \in Watchers : w \in bus'.listeners[q] => w \in c.bus.listeners[q]
  <2> DEFINE d == c.bus l == [d.listeners EXCEPT ![r] = @ \ ls]
  <2>1. /\ d = [seq |-> d.seq, buffers |-> d.buffers, listeners |-> d.listeners]
        /\ d.listeners \in [Runs -> SUBSET Listeners]
    BY <1>10 DEF Worlds, Bus
  <2>2. \A q \in Runs : l[q] \subseteq d.listeners[q]
    BY <2>1
  <2>3. bus' = [d EXCEPT !.listeners = l]
    BY <1>5
  <2> HIDE DEF d, l
  <2>4. bus' = [seq |-> d.seq, buffers |-> d.buffers, listeners |-> l]
    BY <2>1, <2>3
  <2> QED BY <2>2, <2>4 DEF d
<1>12. client' = client /\ got' = got
  BY DEF watching
<1>13. /\ World'.queue = c.queue /\ World'.log = c.log /\ World'.bus = bus'
  BY <1>5 DEF World
<1>14. ASSUME NEW q \in Runs PROVE Stores(World, q)'
  <2>1. CASE ~Unended(log'[q])
    BY <2>1 DEF Stores, World
  <2>2. CASE timeline'[q] = timeline[q]
    <3>1. Stores(c, q)
      BY <1>10 DEF Faithful
    <3>2. Awaiting(World, q)' = Awaiting(c, q)
      BY <1>13 DEF Awaiting
    <3>3. Recorded(World, q)' = Recorded(c, q)
      BY <1>13, <3>2 DEF Recorded
    <3>4. Numbers(c, q) => Numbers(World, q)'
      BY <1>11, <1>13, <3>2 DEF Numbers
    <3>5. Follows(c, q) => Follows(World, q)'
      BY <1>13, <3>2 DEF Follows
    <3>6. ShowsRecorded(c, q) => ShowsRecorded(World, q)'
      BY <1>13, <2>2, <3>3 DEF ShowsRecorded, ShowsLast, ShowsNone
    <3> QED BY <1>13, <3>1, <3>4, <3>5, <3>6 DEF Stores
  <2> QED BY <2>1, <2>2
<1>15. ASSUME NEW w \in Watchers PROVE Listening(World, w)' /\ ShowsHanded(World, w)'
  <2>1. Listening(c, w) /\ ShowsHanded(c, w)
    BY <1>10 DEF Faithful
  <2>2. Listening(World, w)'
    BY <1>11, <1>13, <2>1 DEF Listening
  <2>3. ShowsHanded(World, w)'
    BY <1>12, <1>13, <2>1 DEF ShowsHanded
  <2> QED BY <2>2, <2>3
<1> QED BY <1>14, <1>15 DEF Faithful

\* A queue that moved d places on, and took in nothing of run q, nor let go of any of it.
IsOf(m, q) == m.kind = "event" /\ m.run = q
Passes(a, b, d, q) ==
  /\ \A i \in DOMAIN b : IsOf(b[i], q) => i + d \in DOMAIN a /\ b[i] = a[i + d]
  /\ \A i \in DOMAIN a : i > d => i - d \in DOMAIN b /\ b[i - d] = a[i]
  /\ \A i \in DOMAIN a : i <= d => ~IsOf(a[i], q)

\* What such a queue holds of the run is what it held.
LEMMA PassingKeeps ==
  ASSUME NEW u \in Worlds, NEW v \in Worlds, NEW q \in Runs, NEW d \in Nat,
         v.log[q] = u.log[q], v.bus.seq = u.bus.seq, Passes(u.queue, v.queue, d, q), Stores(u, q)
  PROVE  Stores(v, q)
<1> DEFINE a == u.queue b == v.queue s == u.log[q]
<1>1. a \in Seq(Message) /\ b \in Seq(Message)
  BY DEF Worlds
<1> HIDE DEF a, b, s
<1>2. DOMAIN a \subseteq Nat /\ DOMAIN b \subseteq Nat
  BY <1>1
<1>3. /\ \A i \in DOMAIN b : IsOf(b[i], q) => i + d \in DOMAIN a /\ b[i] = a[i + d]
      /\ \A i \in DOMAIN a : i > d => i - d \in DOMAIN b /\ b[i - d] = a[i]
      /\ \A i \in DOMAIN a : i <= d => ~IsOf(a[i], q)
  BY DEF Passes, a, b
<1>4. /\ Awaiting(u, q) = {i \in DOMAIN a : IsOf(a[i], q)}
      /\ Awaiting(v, q) = {i \in DOMAIN b : IsOf(b[i], q)}
  BY DEF Awaiting, IsOf, a, b
<1>5. \A j \in Awaiting(v, q) : j \in Nat /\ j + d \in Awaiting(u, q) /\ a[j + d] = b[j]
  BY <1>2, <1>3, <1>4
<1>6. \A i \in Awaiting(u, q) : \E j \in Awaiting(v, q) : b[j] = a[i]
  <2> TAKE i \in Awaiting(u, q)
  <2>1. i \in DOMAIN a /\ IsOf(a[i], q) /\ i \in Nat
    BY <1>2, <1>4
  <2>2. i > d
    BY <1>3, <2>1
  <2>3. i - d \in DOMAIN b /\ b[i - d] = a[i]
    BY <1>3, <2>1, <2>2
  <2> QED BY <1>4, <2>1, <2>3
<1>7. Recorded(v, q) = Recorded(u, q)
  BY <1>5, <1>6 DEF Recorded, a, b
<1>8. ASSUME Unended(s) PROVE Numbers(v, q) /\ Follows(v, q) /\ ShowsRecorded(v, q)
  <2>1. Numbers(u, q) /\ Follows(u, q) /\ ShowsRecorded(u, q)
    BY <1>8 DEF Stores, s
  <2>2. \A i, j \in Awaiting(u, q) : i < j => a[i].event.seq < a[j].event.seq
    BY <2>1 DEF Numbers, a
  <2>3. ASSUME NEW i \in Awaiting(v, q), NEW j \in Awaiting(v, q), i < j PROVE b[i].event.seq < b[j].event.seq
    <3>1. i + d < j + d
      BY <1>5, <2>3
    <3> QED BY <1>5, <2>2, <3>1
  <2>4. Numbers(v, q)
    BY <2>1, <2>3 DEF Numbers, b
  <2>5. \A i \in Awaiting(u, q) : \E p \in DOMAIN s :
          /\ a[i].event = s[p]
          /\ \A k \in DOMAIN s : k > p => \E j \in Awaiting(u, q) : a[j].event = s[k]
    BY <2>1 DEF Follows, a, s
  <2>6. ASSUME NEW i \in Awaiting(v, q)
        PROVE  \E p \in DOMAIN s :
                 /\ b[i].event = s[p]
                 /\ \A k \in DOMAIN s : k > p => \E j \in Awaiting(v, q) : b[j].event = s[k]
    <3>1. i + d \in Awaiting(u, q) /\ a[i + d] = b[i]
      BY <1>5
    <3>2. PICK p \in DOMAIN s : /\ a[i + d].event = s[p]
                                /\ \A k \in DOMAIN s : k > p => \E j \in Awaiting(u, q) : a[j].event = s[k]
      BY <2>5, <3>1
    <3>3. \A k \in DOMAIN s : k > p => \E j \in Awaiting(v, q) : b[j].event = s[k]
      BY <1>6, <3>2
    <3> QED BY <3>1, <3>2, <3>3
  <2>7. Follows(v, q)
    BY <2>6 DEF Follows, b, s
  <2>8. ShowsRecorded(v, q)
    BY <1>7, <2>1 DEF ShowsRecorded
  <2> QED BY <2>4, <2>7, <2>8
<1> QED BY <1>8 DEF Stores, s

\* A step that leaves a run's events and the pipeline stored for it alone.
LEMMA StoresStays ==
  ASSUME TypeOK, World' \in Worlds, NEW q \in Runs, Stores(World, q), NEW d, NEW M, Serves(d, M),
         log'[q] = log[q], bus'.seq = bus.seq, timeline'[q] = timeline[q],
         d = 1 => ~ Is(1, "event", q), \A m \in M : ~IsOf(m, q)
  PROVE  Stores(World, q)'
<1> PICK v \in Worlds : v = World'
  OBVIOUS
<1>1. queue \in Seq(Message) /\ World \in Worlds
  BY DEF TypeOK, Worlds, World
<1>2. v.queue = queue' /\ v.log = log' /\ v.bus = bus' /\ queue' \in Seq(Message)
  BY DEF World, Worlds
<1>3. /\ d \in {0, 1} /\ DOMAIN queue = 1..Len(queue) /\ Len(queue) \in Nat
      /\ \A i \in DOMAIN queue' :
           \/ i <= Len(queue) - d /\ i + d \in DOMAIN queue /\ queue'[i] = queue[i + d]
           \/ i > Len(queue) - d /\ queue'[i] \in M
      /\ \A i \in DOMAIN queue : i > d => i - d \in DOMAIN queue' /\ queue'[i - d] = queue[i]
  BY <1>1, <1>2, Origin
<1>4. \A i \in DOMAIN queue : i <= d => i = 1 /\ d = 1
  BY <1>3
<1>5. Passes(queue, queue', d, q)
  <2>1. \A i \in DOMAIN queue : i <= d => ~IsOf(queue[i], q)
    BY <1>4 DEF Is, IsOf
  <2> QED BY <1>3, <2>1 DEF Passes
<1>6. World.queue = queue /\ World.log = log /\ World.bus = bus /\ d \in Nat
  BY <1>3 DEF World
<1>7. Stores(v, q)
  <2> PICK w \in Worlds : w = World
    BY <1>1
  <2> QED BY <1>2, <1>5, <1>6, PassingKeeps
<1>8. ShowsRecorded(v, q) => ShowsRecorded(World, q)'
  BY DEF ShowsRecorded, ShowsLast, ShowsNone, Recorded, Awaiting
<1>9. (Numbers(v, q) <=> Numbers(World, q)') /\ (Follows(v, q) <=> Follows(World, q)')
  BY DEF Numbers, Follows, Awaiting
<1> QED BY <1>7, <1>8, <1>9 DEF Stores

\* What a client has and shows stays true as long as it and the log stay.
LEMMA ShownStays ==
  ASSUME NEW w \in Watchers, Listening(World, w), ShowsHanded(World, w),
         log' = log, client'[w] = client[w], got'[w] = got[w],
         \A r \in Runs : w \in bus'.listeners[r] => w \in bus.listeners[r]
  PROVE  Listening(World, w)' /\ ShowsHanded(World, w)'
<1>1. Listening(World, w)'
  BY DEF Listening, World
<1>2. ShowsHanded(World, w)'
  BY DEF ShowsHanded, Handed, World, ShowsLast
<1> QED BY <1>1, <1>2

\* A step that says nothing, stores no event and hands none over.
LEMMA QuietIsFaithful ==
  ASSUME TypeOK, World' \in Worlds, Faithful(World), NEW d, NEW M, Serves(d, M),
         log' = log, bus'.seq = bus.seq, timeline' = timeline, UNCHANGED watching,
         d = 1 => queue[1].kind # "event", \A m \in M : m.kind # "event",
         \A w \in Watchers, r \in Runs : w \in bus'.listeners[r] => w \in bus.listeners[r]
  PROVE  Faithful(World)'
<1>1. ASSUME NEW q \in Runs PROVE Stores(World, q)'
  <2>1. d = 1 => ~Is(1, "event", q)
    BY DEF Is
  <2>2. \A m \in M : ~IsOf(m, q)
    BY DEF IsOf
  <2> QED BY <2>1, <2>2, StoresStays DEF Faithful
<1>2. ASSUME NEW w \in Watchers PROVE Listening(World, w)' /\ ShowsHanded(World, w)'
  BY ShownStays DEF Faithful, watching
<1> QED BY <1>1, <1>2 DEF Faithful

\* Messages, starts, cancels, sweeps, revocations, and the process.
LEMMA QuietStepsAreFaithful ==
  ASSUME IInv, World' \in Worlds, Faithful(World), NEW r,
         \/ r \in Runs /\ (SendMessage(r) \/ Finish(r) \/ Reap(r) \/ Cancel(r) \/ Removed(r))
         \/ ChangePrincipals
         \/ ProcessMoves
  PROVE  Faithful(World)'
<1>1. queue \in Seq(Message) /\ queue' \in Seq(Message)
  BY DEF IInv, TypeOK, Worlds, World
<1>0. 0 # 1
  OBVIOUS
<1> DEFINE Adds(m) == /\ m \in Message /\ m.kind # "event" /\ queue' = Append(queue, m)
                      /\ log' = log /\ bus' = bus /\ timeline' = timeline /\ UNCHANGED watching
<1>2. ASSUME NEW m, Adds(m) PROVE Faithful(World)'
  <2>1. Serves(0, {m})
    BY <1>1, <1>2, QueueShapes
  <2> QED BY <1>0, <1>2, <2>1, QuietIsFaithful DEF IInv
<1>3. CASE r \in Runs /\ SendMessage(r)
  <2>1. Adds([kind |-> "admit", run |-> r])
    BY <1>3 DEF SendMessage, Message, Moves, database
  <2> QED BY <1>2, <2>1
<1>4. CASE r \in Runs /\ Finish(r)
  <2>1. Adds([kind |-> "close", run |-> r])
    BY <1>4 DEF Finish, Quietly, Message, Moves, database
  <2> QED BY <1>2, <2>1
<1>5. CASE r \in Runs /\ Reap(r)
  <2>1. Adds([kind |-> "reap", run |-> r])
    BY <1>5 DEF Reap, Quietly, Message, database
  <2> QED BY <1>2, <2>1
<1>6. CASE ChangePrincipals
  <2>1. directory' \in Tables /\ ActiveFor(directory, Agent) \in Nat
    BY <1>6, ActiveIsLive, ChangeRevokesOne DEF IInv, TypeOK, ChangePrincipals
  <2>2. Adds([kind |-> "principals", run |-> NoRun, kept |-> directory', revoked |-> ActiveFor(directory, Agent)])
    BY <1>6, <2>1 DEF ChangePrincipals, Quietly, Message, database
  <2> QED BY <1>2, <2>2
<1>7. CASE Cancel(r) \/ Removed(r) \/ ProcessMoves
  <2>1. queue' = queue /\ log' = log /\ bus' = bus /\ timeline' = timeline /\ UNCHANGED watching
    BY <1>7 DEF Cancel, Removed, ProcessMoves, Quietly, database
  <2>2. Serves(0, {})
    BY <1>1, <2>1, QueueShapes
  <2> QED BY <1>0, <2>1, <2>2, QuietIsFaithful DEF IInv
<1> QED BY <1>3, <1>4, <1>5, <1>6, <1>7

\* The mutations that are no events.
LEMMA QuietMutationsAreFaithful ==
  ASSUME IInv, World' \in Worlds, Faithful(World), queue # << >>, NEW m, m = Head(queue),
         \/ m.kind = "admit" /\ Admit(m)
         \/ m.kind = "start" /\ Start(m)
         \/ m.kind = "principals" /\ KeepPrincipals(m)
  PROVE  Faithful(World)'
<1>1. queue \in Seq(Message) /\ queue' \in Seq(Message) /\ bus \in Bus
  BY DEF IInv, TypeOK, Worlds, World
<1>2. m = queue[1] /\ m.kind # "event" /\ (m.kind \in Moves => m.run \in Runs)
  BY HeadIsTyped DEF IInv
<1>3. ASSUME queue' = Tail(queue) PROVE Serves(1, {})
  BY <1>1, <1>3, QueueShapes
<1>4. CASE Start(m) \/ KeepPrincipals(m) \/ (agentStatus = "busy" /\ Admit(m))
  <2>1. queue' = Tail(queue) /\ log' = log /\ bus' = bus /\ timeline' = timeline /\ UNCHANGED watching
    BY <1>4 DEF Start, KeepPrincipals, Admit, Quietly, database
  <2>2. Serves(1, {})
    BY <1>3, <2>1
  <2> QED BY <1>2, <2>1, <2>2, QuietIsFaithful DEF IInv
<1>5. CASE m.kind = "admit" /\ Admit(m) /\ agentStatus # "busy"
  <2> DEFINE n == [kind |-> "start", run |-> m.run]
  <2>1. /\ queue' = Append(Tail(queue), n) /\ bus' = Subscribe(bus, m.run, "service")
        /\ UNCHANGED <<timeline, watching, stream, log>>
    BY <1>5 DEF Admit
  <2>2. n \in Message /\ n.kind # "event"
    BY <1>2, <1>5 DEF Message, Moves
  <2>3. Serves(1, {n})
    <3> HIDE DEF n
    <3> QED BY <1>1, <2>1, <2>2, QueueShapes
  <2>4. /\ bus'.seq = bus.seq
        /\ \A w \in Watchers, q \in Runs : w \in bus'.listeners[q] => w \in bus.listeners[q]
    <3> DEFINE l == [bus.listeners EXCEPT ![m.run] = @ \cup {"service"}]
    <3>1. bus = [seq |-> bus.seq, buffers |-> bus.buffers, listeners |-> bus.listeners]
      BY <1>1 DEF Bus
    <3>2. bus' = [bus EXCEPT !.listeners = l]
      BY <2>1 DEF Subscribe
    <3>3. bus.listeners \in [Runs -> SUBSET Listeners] /\ "service" \notin Watchers
      BY <1>1, ScenariosAssumption DEF Bus
    <3>4. \A w \in Watchers, q \in Runs : w \in l[q] => w \in bus.listeners[q]
      BY <3>3
    <3> HIDE DEF l
    <3>5. bus'.seq = bus.seq /\ bus'.listeners = l
      BY <3>1, <3>2
    <3> QED BY <3>4, <3>5
  <2> HIDE DEF n
  <2>5. \A x \in {n} : x.kind # "event"
    BY <2>2
  <2> QED BY <1>2, <2>1, <2>3, <2>4, <2>5, QuietIsFaithful DEF IInv
<1> QED BY <1>4, <1>5 DEF Admit

\* An event that is stored is the oldest of those that were not.
LEMMA RecordStores ==
  ASSUME IInv, World' \in Worlds, queue # << >>, NEW m, m = Head(queue), m.kind = "event", Record(m),
         Stores(World, m.run)
  PROVE  Stores(World, m.run)'
<1> DEFINE r == m.run s == log[r] A == Awaiting(World, r) P == Recorded(World, r)
<1> PICK v \in Worlds : v = World'
  OBVIOUS
<1> DEFINE B == Awaiting(v, r) Q == Recorded(v, r)
<1>1. /\ m = queue[1] /\ r \in Runs /\ m.event \in RunEvent /\ queue \in Seq(Message)
      /\ log \in [Runs -> Seq(RunEvent)] /\ timeline \in [Runs -> TimelineType]
  BY HeadIsTyped, Typed DEF IInv, TypeOK
<1>2. /\ queue' = Tail(queue) /\ log' = log /\ bus' = bus
      /\ Over(m.event) \/ timeline'[r] = ApplyEventToTimeline(timeline[r], m.event)
  BY <1>1 DEF Record, Quietly
<1>3. v.queue = queue' /\ v.log = log /\ v.bus = bus
  BY <1>2 DEF World
<1>4. World.queue = queue /\ World.log = log /\ World.bus = bus
  BY DEF World
<1>5. PICK k \in Nat : /\ DOMAIN queue = 1..(k + 1) /\ DOMAIN queue' = 1..k
                      /\ \A i \in 1..k : queue'[i] = queue[i + 1]
  <2>1. Len(queue) \in Nat /\ Len(queue) >= 1 /\ DOMAIN queue = 1..Len(queue)
    BY <1>1
  <2>2. PICK k \in Nat : Len(queue) = k + 1
    <3>1. Len(queue) - 1 \in Nat /\ Len(queue) = (Len(queue) - 1) + 1
      BY <2>1
    <3> QED BY <3>1
  <2>3. Len(queue') = k /\ DOMAIN queue' = 1..k /\ \A i \in 1..k : queue'[i] = queue[i + 1]
    BY <1>1, <1>2, <2>2
  <2> QED BY <2>1, <2>2, <2>3
<1>6. /\ \A i \in DOMAIN queue : i \in Nat /\ (i # 1 => i - 1 \in DOMAIN queue' /\ queue'[i - 1] = queue[i])
      /\ \A i \in DOMAIN queue' : i \in Nat /\ i + 1 \in DOMAIN queue /\ queue'[i] = queue[i + 1]
  <2>1. ASSUME NEW i \in 1..(k + 1), i # 1 PROVE i - 1 \in 1..k /\ (i - 1) + 1 = i
    BY <2>1
  <2>2. \A i \in 1..k : i + 1 \in 1..(k + 1) /\ i \in Nat
    OBVIOUS
  <2>3. \A i \in 1..(k + 1) : i \in Nat
    OBVIOUS
  <2> QED BY <1>5, <2>1, <2>2, <2>3
<1>7. 1 \in DOMAIN queue /\ 1 \in A
  BY <1>1, <1>4 DEF Awaiting
<1>8. \A i \in A : i \in Nat /\ (i # 1 => i - 1 \in B /\ queue'[i - 1] = queue[i])
  BY <1>3, <1>4, <1>6 DEF Awaiting
<1>9. \A i \in B : i \in Nat /\ 1 < i + 1 /\ i + 1 \in A /\ queue'[i] = queue[i + 1]
  <2>1. \A i \in DOMAIN queue' : 1 < i + 1
    BY <1>5
  <2> QED BY <1>3, <1>4, <1>6, <2>1 DEF Awaiting
<1>10. s \in Seq(RunEvent) /\ DOMAIN s \subseteq Nat
  <2>1. s \in Seq(RunEvent)
    BY <1>1
  <2> HIDE DEF s
  <2> QED BY <2>1
<1>11. /\ P = {p \in DOMAIN s : \A i \in A : queue[i].event # s[p]}
       /\ Q = {p \in DOMAIN s : \A i \in B : queue'[i].event # s[p]}
  BY <1>3, <1>4 DEF Recorded
<1> HIDE DEF r, s, A, B, P, Q
<1>12. ASSUME Unended(s)
       PROVE  /\ Numbers(v, r) /\ Follows(v, r)
              /\ \A i \in Step : /\ ShowsLast(timeline'[r].steps[i], i, s, Q)
                                 /\ ShowsNone(timeline'[r].steps[i], i, s, Q)
  <2>1. Numbers(World, r) /\ Follows(World, r) /\ ShowsRecorded(World, r)
    BY <1>4, <1>12 DEF Stores, s, r
  <2>2. /\ \A p \in DOMAIN s : s[p].seq < bus.seq
        /\ \A p, q \in DOMAIN s : p < q => s[p].seq < s[q].seq
        /\ \A i, j \in A : i < j => queue[i].event.seq < queue[j].event.seq
    BY <1>4, <2>1 DEF Numbers, s, A
  <2>3. \A i \in A : \E p \in DOMAIN s :
          /\ queue[i].event = s[p]
          /\ \A q \in DOMAIN s : q > p => \E j \in A : queue[j].event = s[q]
    BY <1>4, <2>1 DEF Follows, s, A
  <2>4. \A i \in Step : ShowsLast(timeline[r].steps[i], i, s, P) /\ ShowsNone(timeline[r].steps[i], i, s, P)
    BY <1>4, <2>1 DEF ShowsRecorded, s, P
  <2>5. \A p \in DOMAIN s : s[p] \in RunEvent /\ s[p].seq \in Nat /\ p \in Nat
    <3>1. \A p \in DOMAIN s : s[p] \in RunEvent /\ p \in Nat
      BY <1>10
    <3>2. \A e \in RunEvent : e.seq \in Nat
      BY DEF RunEvent
    <3> QED BY <3>1, <3>2
  <2>6. PICK n \in DOMAIN s : /\ m.event = s[n]
                              /\ \A q \in DOMAIN s : q > n => \E j \in A : queue[j].event = s[q]
    BY <1>1, <1>7, <2>3
  <2>7. \A p \in P : p \in Nat /\ p < n
    <3> TAKE p \in P
    <3>1. p \in DOMAIN s /\ p \in Nat /\ n \in Nat /\ \A i \in A : queue[i].event # s[p]
      BY <1>11, <2>5
    <3>2. p # n
      BY <1>1, <1>7, <2>6, <3>1
    <3>3. ~(p > n)
      BY <2>6, <3>1
    <3> QED BY <3>1, <3>2, <3>3
  <2>8. \A i \in B : queue'[i].event # s[n]
    <3> TAKE i \in B
    <3>1. queue[1].event.seq < queue[i + 1].event.seq
      BY <1>7, <1>9, <2>2
    <3>2. queue[1].event.seq \in Nat
      BY <1>1, <2>5, <2>6
    <3> QED BY <1>1, <1>9, <2>6, <3>1, <3>2
  <2>9. Q = P \cup {n}
    <3>1. ASSUME NEW p \in Q, p # n PROVE p \in P
      <4>1. p \in DOMAIN s /\ \A i \in B : queue'[i].event # s[p]
        BY <1>11, <3>1
      <4>2. s[p].seq # s[n].seq
        <5>1. p \in Nat /\ n \in Nat /\ s[p].seq \in Nat /\ s[n].seq \in Nat
          BY <2>5, <4>1
        <5>2. CASE p < n
          BY <2>2, <4>1, <5>1, <5>2
        <5>3. CASE n < p
          BY <2>2, <4>1, <5>1, <5>3
        <5> QED BY <3>1, <5>1, <5>2, <5>3
      <4>3. \A i \in A : queue[i].event # s[p]
        BY <1>1, <1>8, <2>6, <4>1, <4>2
      <4> QED BY <1>11, <4>1, <4>3
    <3>2. P \subseteq Q
      BY <1>9, <1>11
    <3>3. n \in Q
      BY <1>11, <2>8
    <3> QED BY <3>1, <3>2, <3>3
  <2>10. Numbers(v, r)
    <3>1. ASSUME NEW i \in B, NEW j \in B, i < j PROVE queue'[i].event.seq < queue'[j].event.seq
      <4>1. i + 1 \in A /\ j + 1 \in A /\ i + 1 < j + 1
        BY <1>9, <3>1
      <4> QED BY <1>9, <2>2, <4>1
    <3> QED BY <1>3, <2>2, <3>1 DEF Numbers, s, B
  <2>11. Follows(v, r)
    <3>1. ASSUME NEW i \in B
          PROVE  \E p \in DOMAIN s :
                   /\ queue'[i].event = s[p]
                   /\ \A q \in DOMAIN s : q > p => \E j \in B : queue'[j].event = s[q]
      <4>1. i + 1 \in A /\ queue'[i] = queue[i + 1] /\ 1 < i + 1
        BY <1>9
      <4>2. PICK p \in DOMAIN s : /\ queue[i + 1].event = s[p]
                                  /\ \A q \in DOMAIN s : q > p => \E j \in A : queue[j].event = s[q]
        BY <2>3, <4>1
      <4>3. s[n].seq < s[p].seq
        BY <1>1, <1>7, <2>2, <2>6, <4>1, <4>2
      <4>4. n < p
        <5>1. n \in Nat /\ p \in Nat /\ s[n].seq \in Nat /\ s[p].seq \in Nat
          BY <2>5
        <5>2. ~(p < n) /\ p # n
          BY <2>2, <4>3, <5>1
        <5> QED BY <5>1, <5>2
      <4>5. ASSUME NEW q \in DOMAIN s, q > p PROVE \E j \in B : queue'[j].event = s[q]
        <5>1. PICK j \in A : queue[j].event = s[q]
          BY <4>2, <4>5
        <5>2. n < q /\ s[n].seq < s[q].seq /\ s[n].seq \in Nat
          <6>1. n \in Nat /\ p \in Nat /\ q \in Nat /\ s[n].seq \in Nat
            BY <2>5, <4>5
          <6>2. n < q
            BY <4>4, <4>5, <6>1
          <6> QED BY <2>2, <4>5, <6>1, <6>2
        <5>3. j # 1
          BY <1>1, <2>5, <2>6, <5>1, <5>2
        <5> QED BY <1>8, <5>1, <5>3
      <4> QED BY <4>1, <4>2, <4>5
    <3> QED BY <1>3, <3>1 DEF Follows, s, B
  <2>12. ASSUME NEW i \in Step
         PROVE  ShowsLast(timeline'[r].steps[i], i, s, Q) /\ ShowsNone(timeline'[r].steps[i], i, s, Q)
    <3>1. ~Over(m.event)
      BY <1>12, <2>6 DEF Unended
    <3>2. timeline[r] \in TimelineType
      BY <1>1 DEF r
    <3>3. timeline'[r].steps[i] = IF Beyond(s[n], i) THEN Passed(timeline[r].steps[i])
                                  ELSE IF At(s[n], i) THEN Shown(s[n]) ELSE timeline[r].steps[i]
      <4>1. timeline'[r] = ApplyEventToTimeline(timeline[r], s[n])
        BY <1>2, <2>6, <3>1 DEF r
      <4> QED BY <3>2, <4>1, Applied
    <3>4. P \in SUBSET Nat /\ n \in Nat /\ \A p \in P : p < n
      BY <2>5, <2>7
    <3>5. ASSUME NEW old, NEW new, NEW t, NEW R,
                 old = timeline[r].steps[i], new = timeline'[r].steps[i], t = s, R = P
          PROVE  ShowsLast(new, i, t, R \cup {n}) /\ ShowsNone(new, i, t, R \cup {n})
      <4>1. new = IF Beyond(t[n], i) THEN Passed(old) ELSE IF At(t[n], i) THEN Shown(t[n]) ELSE old
        BY <3>3, <3>5
      <4>2. ShowsLast(old, i, t, R) /\ ShowsNone(old, i, t, R) /\ R \in SUBSET Nat /\ n \in Nat /\ \A p \in R : p < n
        BY <2>4, <3>4, <3>5
      <4> QED BY <4>1, <4>2, ShowsNext
    <3> QED BY <2>9, <3>5
  <2> QED BY <2>10, <2>11, <2>12
<1>13. Stores(World, r)'
  <2>1. World'.log[r] = s
    BY <1>3 DEF s
  <2>2. Numbers(v, r) /\ Follows(v, r) => Numbers(World, r)' /\ Follows(World, r)'
    BY DEF Numbers, Follows, Awaiting
  <2>3. Recorded(World, r)' = Q
    BY DEF Recorded, Awaiting, Q
  <2>4. (\A i \in Step : /\ ShowsLast(timeline'[r].steps[i], i, s, Q)
                         /\ ShowsNone(timeline'[r].steps[i], i, s, Q)) => ShowsRecorded(World, r)'
    BY <2>1, <2>3 DEF ShowsRecorded, ShowsLast, ShowsNone
  <2> QED BY <1>12, <2>1, <2>2, <2>4 DEF Stores
<1> QED BY <1>13 DEF r

\* The store catches up with a run by an event.
LEMMA RecordIsFaithful ==
  ASSUME IInv, World' \in Worlds, Faithful(World), queue # << >>, NEW m, m = Head(queue), m.kind = "event", Record(m)
  PROVE  Faithful(World)'
<1>1. /\ m = queue[1] /\ m.run \in Runs /\ queue \in Seq(Message) /\ timeline \in [Runs -> TimelineType]
  BY HeadIsTyped, Typed DEF IInv, TypeOK
<1>2. /\ queue' = Tail(queue) /\ log' = log /\ bus' = bus /\ UNCHANGED watching
      /\ \A q \in Runs : q # m.run => timeline'[q] = timeline[q]
  BY <1>1 DEF Record, Quietly
<1>3. Serves(1, {})
  BY <1>1, <1>2, QueueShapes
<1>4. ASSUME NEW q \in Runs PROVE Stores(World, q)'
  <2>1. CASE q = m.run
    BY <2>1, RecordStores DEF Faithful
  <2>2. CASE q # m.run
    <3>1. ~Is(1, "event", q)
      BY <1>1, <2>2 DEF Is
    <3> QED BY <1>2, <1>3, <2>2, <3>1, StoresStays DEF Faithful, IInv
  <2> QED BY <2>1, <2>2
<1>5. ASSUME NEW w \in Watchers PROVE Listening(World, w)' /\ ShowsHanded(World, w)'
  BY <1>2, ShownStays DEF Faithful, watching
<1> QED BY <1>4, <1>5 DEF Faithful

\* A mutation that is no event leaves the queue before it speaks.
LEMMA TailIsFaithful ==
  ASSUME TypeOK, Faithful(World), queue # << >>, queue[1].kind # "event"
  PROVE  Faithful([bus |-> bus, queue |-> Tail(queue), log |-> log, wire |-> wire, served |-> served])
<1> PICK w \in Worlds : w = World
  BY DEF TypeOK
<1>1. w.bus = bus /\ w.queue = queue /\ w.log = log /\ w.wire = wire /\ w.served = served
  BY DEF World
<1> PICK u : u = [bus |-> bus, queue |-> Tail(queue), log |-> log, wire |-> wire, served |-> served]
  OBVIOUS
<1>2. u.bus = bus /\ u.queue = Tail(queue) /\ u.log = log /\ u.wire = wire /\ u.served = served
  OBVIOUS
<1>3. queue \in Seq(Message) /\ Tail(queue) \in Seq(Message)
  BY <1>1 DEF Worlds
<1>4. u \in Worlds
  BY <1>1, <1>3 DEF Worlds
<1>5. ASSUME NEW q \in Runs PROVE Stores(u, q)
  <2>1. \A i \in DOMAIN Tail(queue) : i + 1 \in DOMAIN queue /\ Tail(queue)[i] = queue[i + 1]
    BY <1>3
  <2>2. \A i \in DOMAIN queue : /\ i > 1 => i - 1 \in DOMAIN Tail(queue) /\ Tail(queue)[i - 1] = queue[i]
                                /\ i <= 1 => i = 1
    BY <1>3
  <2>3. Passes(queue, Tail(queue), 1, q)
    BY <2>1, <2>2 DEF Passes, IsOf
  <2>4. Stores(w, q)
    BY DEF Faithful
  <2> QED BY <1>1, <1>2, <1>4, <2>3, <2>4, PassingKeeps
<1>6. ASSUME NEW x \in Watchers PROVE Listening(u, x) /\ ShowsHanded(u, x)
  <2>1. Listening(w, x) /\ ShowsHanded(w, x)
    BY DEF Faithful
  <2> QED BY <1>1, <1>2, <2>1 DEF Listening, ShowsHanded
<1> QED BY <1>5, <1>6 DEF Faithful

\* What the runner says of a process is said while the service listens.
LEMMA RunnerIsFaithful ==
  ASSUME IInv, World' \in Worlds, Faithful(World), NEW r,
         \/ r \in Runs /\ Execute(r)
         \/ ProcessEnds
  PROVE  Faithful(World)'
<1>1. /\ TypeOK /\ Buffered(World) /\ Streaming(World) /\ queue \in Seq(Message)
      /\ exit \in Exits \cup {"none"} /\ active \in Entry
  BY Typed DEF IInv, TypeOK
<1>2. Faithful([bus |-> bus, queue |-> queue, log |-> log, wire |-> wire, served |-> served])
  BY DEF World
<1>3. timeline' = timeline /\ UNCHANGED watching
  BY DEF Execute, ProcessEnds, database
<1>4. ASSUME NEW q \in Runs, exec[q] \in Executing, NEW events \in Seq(Saying), Publish(q, events, queue, {})
      PROVE  Faithful(World)'
  <2>1. "service" \in bus.listeners[q]
    BY <1>4 DEF IInv, ServiceListens, IsListenedTo
  <2>2. {} \in {{}, {"service"}}
    OBVIOUS
  <2>3. \A x \in Runs : timeline'[x] = timeline[x] \/ ~Unended(log'[x])
    BY <1>3
  <2> QED BY <1>1, <1>2, <1>3, <1>4, <2>1, <2>2, <2>3, PublishIsFaithful
<1>5. CASE r \in Runs /\ Execute(r)
  <2>1. CASE Quietly(queue)
    <3>1. queue' = queue /\ log' = log /\ bus' = bus /\ 0 # 1
      BY <2>1 DEF Quietly
    <3>2. Serves(0, {})
      BY <1>1, <3>1, QueueShapes
    <3> QED BY <1>1, <1>3, <3>1, <3>2, QuietIsFaithful
  <2>2. CASE ~Quietly(queue)
    <3>1. Publish(r, StartEvents, queue, {}) /\ exec[r] \in Executing
      BY <1>5, <2>2 DEF Execute, Executing
    <3> QED BY <1>4, <1>5, <3>1, StartSays
  <2> QED BY <2>1, <2>2
<1>6. CASE ProcessEnds
  <2>1. Publish(active.run, EndEvents, queue, {}) /\ child = "exited"
    BY <1>6 DEF ProcessEnds, Settle
  <2>2. exit \in Exits /\ active.run \in Runs /\ exec[active.run] \in Executing
    <3>1. Running /\ exit # "none"
      BY <2>1 DEF IInv, ProcessIsAwaited
    <3> QED BY <1>1, <3>1 DEF IInv, ProcessIsAwaited, Running, Entry, Executing
  <2> QED BY <1>4, <2>1, <2>2, EndSays
<1> QED BY <1>5, <1>6

\* The end of a run is said while the service listens, by its execution or the watchdog.
LEMMA EndingIsFaithful ==
  ASSUME IInv, World' \in Worlds, Faithful(World), queue # << >>, NEW m, m = Head(queue),
         \/ m.kind = "close" /\ Close(m)
         \/ m.kind = "reap" /\ ReapNow(m)
  PROVE  Faithful(World)'
<1>1. /\ m = queue[1] /\ m.run \in Runs /\ Tail(queue) \in Seq(Message) /\ queue[1].kind # "event" /\ 1 \in DOMAIN queue
      /\ TypeOK /\ Buffered(World) /\ Streaming(World) /\ queue \in Seq(Message)
      /\ runStatus \in [Runs -> Active \cup TERMINAL_STAGES \cup {"unused"}]
      /\ exec \in [Runs -> Fresh \cup Executing \cup {"starting", "ended"}]
      /\ log \in [Runs -> Seq(RunEvent)] /\ log' \in [Runs -> Seq(RunEvent)]
      /\ timeline \in [Runs -> TimelineType]
  BY HeadIsTyped, Typed DEF IInv, TypeOK, Moves, Worlds, World
<1>2. PICK r \in Runs : r = m.run
  BY <1>1
<1>3. Faithful([bus |-> bus, queue |-> Tail(queue), log |-> log, wire |-> wire, served |-> served])
  BY <1>1, TailIsFaithful
<1>4. \A how \in TERMINAL_STAGES : TerminalEvent(how) \in Saying /\ TerminalEvent(how).stage = how
  BY DEF TerminalEvent, Saying, Emitted, Severities, TERMINAL_STAGES
<1>5. FollowsItsExecution(r) /\ IsListenedTo(r)
  BY DEF IInv, StatusFollows, ServiceListens
<1>6. CASE m.kind = "close" /\ Close(m)
  <2>1. /\ Publish(r, IF StillOpen(r) THEN <<TerminalEvent(verdict[r])>> ELSE << >>, Tail(queue), {"service"})
        /\ UNCHANGED watching /\ timeline' = timeline
    BY <1>2, <1>6 DEF Close
  <2>2. exec[r] = "closing"
    BY <1>1, <1>2, <1>6 DEF IInv, MovesInOrder, Moves, Mover
  <2>3. "service" \in bus.listeners[r] /\ verdict[r] \in TERMINAL_STAGES
    BY <1>5, <2>2 DEF IsListenedTo, FollowsItsExecution, Executing, Settling
  <2>4. PICK events \in Seq(Saying) : events = IF StillOpen(r) THEN <<TerminalEvent(verdict[r])>> ELSE << >>
    <3>1. PICK e \in Saying : e = TerminalEvent(verdict[r])
      BY <1>4, <2>3
    <3>2. <<e>> \in Seq(Saying) /\ << >> \in Seq(Saying)
      OBVIOUS
    <3> QED BY <3>1, <3>2
  <2>5. \A q \in Runs : timeline'[q] = timeline[q] \/ ~Unended(log'[q])
    BY <2>1
  <2> QED BY <1>1, <1>3, <2>1, <2>3, <2>4, <2>5, PublishIsFaithful
<1>7. CASE ReapNow(m) /\ runStatus[r] \notin Active
  <2>1. queue' = Tail(queue) /\ log' = log /\ bus' = bus /\ timeline' = timeline /\ UNCHANGED watching
    BY <1>2, <1>7 DEF ReapNow, Quietly, database
  <2>2. Serves(1, {})
    BY <1>1, <2>1, QueueShapes
  <2> QED BY <1>1, <2>1, <2>2, QuietIsFaithful
<1>8. CASE ReapNow(m) /\ runStatus[r] \in Active
  <2> DEFINE e == TerminalEvent("failed") sent == [Event(r, e) EXCEPT !.seq = bus.seq]
  <2>1. /\ Publish(r, <<e>>, Tail(queue), {}) /\ UNCHANGED watching
        /\ timeline' = [timeline EXCEPT ![r] = FinalizeTimeline(@, "failed")]
    BY <1>2, <1>8 DEF ReapNow
  <2>2. e \in Saying /\ e.stage \in TERMINAL_STAGES /\ <<e>> \in Seq(Saying)
    BY <1>4 DEF TERMINAL_STAGES
  <2> HIDE DEF e
  <2>3. sent \in RunEvent /\ Over(sent) /\ log' = [log EXCEPT ![r] = Append(@, sent)]
    BY <1>1, <2>1, <2>2, PublishEnds
  <2> HIDE DEF sent
  <2>4. ~Unended(log'[r])
    <3> DEFINE s == log[r]
    <3>1. s \in Seq(RunEvent) /\ log'[r] = Append(s, sent)
      BY <1>1, <2>3
    <3> HIDE DEF s
    <3>2. Len(s) + 1 \in DOMAIN Append(s, sent) /\ Append(s, sent)[Len(s) + 1] = sent
      BY <2>3, <3>1
    <3> QED BY <2>3, <3>1, <3>2 DEF Unended
  <2>5. \A q \in Runs : timeline'[q] = timeline[q] \/ ~Unended(log'[q])
    BY <1>1, <2>1, <2>4
  <2>6. "service" \in bus.listeners[r]
    <3>1. runStatus[r] # "failed" /\ runStatus[r] # "unused" /\ runStatus[r] \notin TERMINAL_STAGES
      BY <1>8 DEF Active, TERMINAL_STAGES
    <3>2. r \notin reaped /\ runStatus[r] = StatusAt(r)
      BY <1>5, <3>1 DEF FollowsItsExecution
    <3>3. exec[r] \notin Fresh /\ exec[r] # "ended"
      <4>1. exec[r] = "ended" => verdict[r] \in TERMINAL_STAGES
        BY <1>5 DEF FollowsItsExecution, Settling
      <4> QED BY <3>1, <3>2, <4>1 DEF StatusAt, Fresh, Executing
    <3> QED BY <1>1, <1>5, <3>3 DEF IsListenedTo
  <2>7. {} \in {{}, {"service"}}
    OBVIOUS
  <2> QED BY <1>1, <1>3, <2>1, <2>2, <2>5, <2>6, <2>7, PublishIsFaithful
<1> QED BY <1>6, <1>7, <1>8

\* An entry that is shown as the events handed over left it, and the next one.
LEMMA HandedNext ==
  ASSUME NEW status, NEW i \in Step, NEW g \in Seq(RunEvent), NEW s, NEW k \in DOMAIN s, s[k] \in RunEvent,
         Handed(status, i, g, s)
  PROVE  Handed(IF Beyond(s[k], i) THEN Passed(status) ELSE IF At(s[k], i) THEN Shown(s[k]) ELSE status,
                i, Append(g, s[k]), s)
<1> DEFINE e   == s[k]
           h   == Append(g, e)
           n   == Len(g) + 1
           new == IF Beyond(e, i) THEN Passed(status) ELSE IF At(e, i) THEN Shown(e) ELSE status
<1>1. /\ DOMAIN g \in SUBSET Nat /\ n \in Nat /\ (\A p \in DOMAIN g : p < n /\ h[p] = g[p])
      /\ DOMAIN h = DOMAIN g \cup {n} /\ h[n] = e
  <2>1. Len(g) \in Nat /\ DOMAIN g = 1..Len(g)
    OBVIOUS
  <2>2. DOMAIN h = 1..n /\ h[n] = e /\ \A p \in 1..Len(g) : h[p] = g[p]
    OBVIOUS
  <2>3. 1..n = 1..Len(g) \cup {n} /\ \A p \in 1..Len(g) : p < n
    BY <2>1
  <2> QED BY <2>1, <2>2, <2>3
<1>2. e = s[k] /\ \A x : Passed(Passed(x)) = Passed(x)
  BY DEF Passed, Open
<1> HIDE DEF e, h, n
<1>3. ShowsLast(new, i, h, DOMAIN h)
  <2>1. ShowsLast(status, i, g, DOMAIN g)
    BY DEF Handed
  <2>2. PICK P : P = DOMAIN g
    OBVIOUS
  <2>3. ShowsLast(status, i, h, P)
    BY <1>1, <2>1, <2>2, ShowsTheSame
  <2>4. ShowsLast(new, i, h, P \cup {n})
    <3>1. new = IF Beyond(h[n], i) THEN Passed(status) ELSE IF At(h[n], i) THEN Shown(h[n]) ELSE status
      BY <1>1
    <3>2. P \in SUBSET Nat /\ n \in Nat /\ \A p \in P : p < n
      BY <1>1, <2>2
    <3> HIDE DEF new
    <3> QED BY <2>3, <3>1, <3>2, ShowsNext
  <2> QED BY <1>1, <2>2, <2>4
<1>4. ASSUME \A p \in DOMAIN s : ~At(s[p], i)
      PROVE  \/ new = InitialTimeline.steps[i] /\ \A p \in DOMAIN h : ~Beyond(h[p], i)
             \/ new = Passed(InitialTimeline.steps[i]) /\ \E p \in DOMAIN s : Beyond(s[p], i)
  <2>1. ~At(e, i)
    BY <1>2, <1>4
  <2>2. \/ status = InitialTimeline.steps[i] /\ \A p \in DOMAIN g : ~Beyond(g[p], i)
        \/ status = Passed(InitialTimeline.steps[i]) /\ \E p \in DOMAIN s : Beyond(s[p], i)
    BY <1>4 DEF Handed
  <2>3. CASE Beyond(e, i)
    <3>1. new = Passed(InitialTimeline.steps[i])
      BY <1>2, <2>2, <2>3
    <3> QED BY <1>2, <2>3, <3>1
  <2>4. CASE ~Beyond(e, i)
    <3>1. new = status
      BY <2>1, <2>4
    <3> QED BY <1>1, <2>2, <2>4, <3>1
  <2> QED BY <2>3, <2>4
<1> HIDE DEF new
<1>5. Handed(new, i, h, s)
  BY <1>3, <1>4 DEF Handed
<1> QED BY <1>5 DEF new, h, e

\* A step of one client leaves the others, and what is stored.
LEMMA OneClientIsFaithful ==
  ASSUME IInv, World' \in Worlds, Faithful(World), NEW w \in Watchers,
         queue' = queue, log' = log, timeline' = timeline, bus'.seq = bus.seq,
         \A x \in Watchers : x # w =>
           /\ client'[x] = client[x] /\ got'[x] = got[x]
           /\ \A r \in Runs : x \in bus'.listeners[r] => x \in bus.listeners[r],
         Listening(World, w)', ShowsHanded(World, w)'
  PROVE  Faithful(World)'
<1>1. queue \in Seq(Message) /\ TypeOK /\ 0 # 1
  BY Typed DEF IInv
<1>2. Serves(0, {})
  BY <1>1, QueueShapes
<1>3. ASSUME NEW q \in Runs PROVE Stores(World, q)'
  BY <1>1, <1>2, StoresStays DEF Faithful
<1>4. ASSUME NEW x \in Watchers, x # w PROVE Listening(World, x)' /\ ShowsHanded(World, x)'
  BY <1>4, ShownStays DEF Faithful
<1> QED BY <1>3, <1>4 DEF Faithful

\* A client is handed an event of its run.
LEMMA DeliverIsFaithful ==
  ASSUME IInv, World' \in Worlds, Faithful(World), NEW w \in Watchers, Deliver(w)
  PROVE  Faithful(World)'
<1>1. /\ client \in [Watchers -> Hook] /\ got \in [Watchers -> Seq(RunEvent)] /\ StreamsTo(World, w)
      /\ wire \in [Watchers -> Seq(RunEvent)] /\ log \in [Runs -> Seq(RunEvent)]
  BY Typed DEF IInv, TypeOK, Streaming
<1>2. /\ queue' = queue /\ log' = log /\ timeline' = timeline /\ bus' = bus
      /\ client[w].phase = "live" /\ wire[w] # << >>
      /\ got' = [got EXCEPT ![w] = Append(@, Head(wire[w]))]
      /\ client' = IF ~client[w].fetched THEN client
                   ELSE [client EXCEPT ![w].timeline = ReduceTimeline(@, Head(wire[w]))]
  BY DEF Deliver, database
<1>3. PICK r \in Runs : r = client[w].run
  BY <1>1, <1>2 DEF StreamsTo
<1>4. PICK g \in Seq(RunEvent), y \in Seq(RunEvent), s \in Seq(RunEvent), c \in Hook :
        g = got[w] /\ y = wire[w] /\ s = log[r] /\ c = client[w]
  BY <1>1
<1>5. PICK k \in DOMAIN s : s[k] = Head(y) /\ s[k] \in RunEvent
  <2>1. PICK z : z = g \o y
    OBVIOUS
  <2>2. IsStretch(z, s)
    BY <1>1, <1>2, <1>3, <1>4, <2>1 DEF StreamsTo, Shipped, World
  <2>3. Len(g) + 1 \in 1..Len(z) /\ z[Len(g) + 1] = Head(y) /\ Len(z) \in Nat
    <3>1. y # << >> /\ Len(y) \in Nat /\ Len(y) >= 1 /\ Head(y) = y[1] /\ Len(g) \in Nat
      BY <1>2, <1>4
    <3>2. Len(z) = Len(g) + Len(y) /\ \A n \in 1..Len(z) : z[n] = IF n <= Len(g) THEN g[n] ELSE y[n - Len(g)]
      BY <2>1
    <3>3. Len(g) + 1 \in 1..Len(z) /\ ~(Len(g) + 1 <= Len(g)) /\ (Len(g) + 1) - Len(g) = 1
      BY <3>1, <3>2
    <3> QED BY <3>1, <3>2, <3>3
  <2>4. PICK i \in 0..(Len(s) - Len(z)) : Len(z) <= Len(s) /\ \A n \in 1..Len(z) : z[n] = s[i + n]
    BY <2>2 DEF IsStretch
  <2>5. s[i + (Len(g) + 1)] = Head(y) /\ i + (Len(g) + 1) \in 1..Len(s)
    BY <2>3, <2>4
  <2> QED BY <2>5
<1>6. /\ \A x \in Watchers : x # w => client'[x] = client[x] /\ got'[x] = got[x]
      /\ got'[w] = Append(g, s[k])
      /\ client'[w] = IF ~c.fetched THEN c ELSE [c EXCEPT !.timeline = ReduceTimeline(c.timeline, s[k])]
  <2>1. got'[w] = Append(g, s[k]) /\ \A x \in Watchers : x # w => got'[x] = got[x]
    BY <1>1, <1>2, <1>4, <1>5
  <2> DEFINE f == ReduceTimeline(c.timeline, s[k]) h == [c EXCEPT !.timeline = f]
  <2>2. client' = IF ~c.fetched THEN client ELSE [client EXCEPT ![w] = h]
    BY <1>2, <1>4, <1>5
  <2> HIDE DEF h
  <2>3. client'[w] = (IF ~c.fetched THEN c ELSE h) /\ \A x \in Watchers : x # w => client'[x] = client[x]
    BY <1>1, <1>4, <2>2
  <2> QED BY <2>1, <2>3 DEF h
<1>7. Listening(World, w)'
  BY <1>2 DEF Faithful, Listening, World
<1>8. ShowsHanded(World, w)'
  <2> DEFINE f == ReduceTimeline(c.timeline, s[k]) h == [c EXCEPT !.timeline = f]
  <2>1. CASE ~c.fetched
    BY <1>4, <1>6, <2>1 DEF ShowsHanded
  <2>2. CASE c.fetched
    <3>1. c = [phase |-> c.phase, run |-> c.run, fetched |-> c.fetched, timeline |-> c.timeline, seen |-> c.seen]
          /\ c.timeline \in TimelineType
      BY HookFields
    <3>2. client'[w] = h
      BY <1>6, <2>2
    <3> HIDE DEF f
    <3>3. h.run = r /\ h.timeline = f
      BY <1>3, <1>4, <3>1
    <3> HIDE DEF h
    <3>4. ASSUME Unended(s), NEW i \in Step PROVE Handed(f.steps[i], i, Append(g, s[k]), s)
      <4>1. Handed(c.timeline.steps[i], i, g, s)
        BY <1>2, <1>3, <1>4, <2>2, <3>4 DEF Faithful, ShowsHanded, World
      <4>2. f = ApplyEventToTimeline(c.timeline, s[k])
        BY <3>4 DEF f, ReduceTimeline, Unended, Over
      <4>3. f.steps[i] = IF Beyond(s[k], i) THEN Passed(c.timeline.steps[i])
                         ELSE IF At(s[k], i) THEN Shown(s[k]) ELSE c.timeline.steps[i]
        BY <3>1, <4>2, Applied
      <4> QED BY <1>5, <4>1, <4>3, HandedNext
    <3>5. log'[r] = s
      BY <1>2, <1>4
    <3> QED BY <1>6, <3>2, <3>3, <3>4, <3>5 DEF ShowsHanded, World
  <2> QED BY <2>1, <2>2
<1> QED BY <1>2, <1>6, <1>7, <1>8, OneClientIsFaithful

\* A client looks up its run, and its stream is opened.
LEMMA WatchIsFaithful ==
  ASSUME IInv, World' \in Worlds, Faithful(World), NEW w \in Watchers, NEW r \in Runs, Watch(w, r)
  PROVE  Faithful(World)'
<1>1. /\ client \in [Watchers -> Hook] /\ StreamsTo(World, w)
  BY DEF IInv, TypeOK, Streaming
<1>2. /\ queue' = queue /\ log' = log /\ timeline' = timeline /\ bus' = bus /\ got' = got
      /\ client[w].phase = "idle"
  BY DEF Watch, Quietly, database
<1>3. got[w] = << >>
  BY <1>1, <1>2 DEF StreamsTo
<1>4. PICK ok \in BOOLEAN :
        client' = [client EXCEPT ![w] =
                     [phase |-> "opening", run |-> r, fetched |-> ok,
                      timeline |-> IF ok THEN timeline[r] ELSE InitialTimeline, seen |-> ok /\ IsOver(r)]]
  BY DEF Watch
<1>5. /\ client'[w].run = r /\ client'[w].fetched = ok /\ (ok => client'[w].timeline = timeline[r])
      /\ \A x \in Watchers : x # w => client'[x] = client[x]
  <2> DEFINE h == [phase |-> "opening", run |-> r, fetched |-> ok,
                   timeline |-> IF ok THEN timeline[r] ELSE InitialTimeline, seen |-> ok /\ IsOver(r)]
  <2>1. h.run = r /\ h.fetched = ok /\ (ok => h.timeline = timeline[r])
    OBVIOUS
  <2>2. client' = [client EXCEPT ![w] = h]
    BY <1>4
  <2> HIDE DEF h
  <2> QED BY <1>1, <2>1, <2>2
<1>6. Listening(World, w)'
  BY <1>2 DEF Faithful, Listening, World
<1>7. ASSUME ok, Unended(log[r]), NEW i \in Step PROVE Handed(timeline[r].steps[i], i, << >>, log[r])
  <2>1. ShowsNone(timeline[r].steps[i], i, log[r], Recorded(World, r))
    BY <1>7 DEF Faithful, Stores, ShowsRecorded, World
  <2>2. Recorded(World, r) \subseteq DOMAIN log[r]
    BY DEF Recorded, World
  <2>3. ShowsLast(timeline[r].steps[i], i, << >>, DOMAIN << >>)
    BY DEF ShowsLast
  <2>4. \A p \in DOMAIN << >> : ~Beyond(<< >>[p], i)
    OBVIOUS
  <2> QED BY <2>1, <2>2, <2>3, <2>4 DEF Handed, ShowsNone
<1>8. ShowsHanded(World, w)'
  BY <1>2, <1>3, <1>5, <1>7 DEF ShowsHanded, World
<1> QED BY <1>2, <1>5, <1>6, <1>8, OneClientIsFaithful

\* A stream that is opened listens only if the run is not over.
LEMMA OpenStreamIsFaithful ==
  ASSUME IInv, World' \in Worlds, Faithful(World), NEW w \in Watchers, OpenStream(w)
  PROVE  Faithful(World)'
<1>1. /\ client \in [Watchers -> Hook] /\ StreamsTo(World, w) /\ bus \in Bus
  BY Typed DEF IInv, TypeOK, Streaming
<1>2. /\ queue' = queue /\ log' = log /\ timeline' = timeline /\ got' = got
      /\ client[w].phase = "opening" /\ client' = [client EXCEPT ![w].phase = "live"]
      /\ bus' = IF ServedAs(client[w].run) = "open" THEN Subscribe(bus, client[w].run, w) ELSE bus
  BY DEF OpenStream, database
<1>3. PICK r \in Runs : r = client[w].run
  BY <1>1, <1>2 DEF StreamsTo
<1>4. /\ bus'.seq = bus.seq
      /\ \A x \in Watchers, q \in Runs : x \in bus'.listeners[q] =>
           x \in bus.listeners[q] \/ (x = w /\ q = r /\ ~IsOver(r))
  <2>1. CASE bus' = bus
    BY <2>1
  <2>2. CASE ~IsOver(r) /\ bus' = Subscribe(bus, r, w)
    <3> DEFINE l == [bus.listeners EXCEPT ![r] = @ \cup {w}]
    <3>1. bus = [seq |-> bus.seq, buffers |-> bus.buffers, listeners |-> bus.listeners]
      BY <1>1 DEF Bus
    <3>2. bus' = [bus EXCEPT !.listeners = l]
      BY <2>2 DEF Subscribe
    <3>3. bus.listeners \in [Runs -> SUBSET Listeners]
      BY <1>1 DEF Bus
    <3>4. \A x \in Watchers, q \in Runs : x \in l[q] => x \in bus.listeners[q] \/ (x = w /\ q = r)
      BY <3>3
    <3> HIDE DEF l
    <3>5. bus'.seq = bus.seq /\ bus'.listeners = l
      BY <3>1, <3>2
    <3> QED BY <2>2, <3>4, <3>5
  <2> QED BY <1>2, <1>3, <2>1, <2>2 DEF ServedAs
<1>5. ~IsOver(r) => Unended(log[r])
  <2>1. ~IsOver(r) => Told(r) = {}
    BY DEF IInv, Announced, IsAnnounced, IsOver
  <2> QED BY <2>1 DEF Told, Unended
<1>6. Listening(World, w)'
  <2>1. \A q \in Runs : w \in bus.listeners[q] => Unended(log[q])
    BY DEF Faithful, Listening, World
  <2> QED BY <1>2, <1>4, <1>5, <2>1 DEF Listening, World
<1>7. PICK c \in Hook : c = client[w]
  BY <1>1
<1>8. /\ client'[w].run = r /\ client'[w].fetched = c.fetched /\ client'[w].timeline = c.timeline
      /\ \A x \in Watchers : x # w => client'[x] = client[x]
  <2> DEFINE h == [c EXCEPT !.phase = "live"]
  <2>1. client' = [client EXCEPT ![w] = h]
    BY <1>2, <1>7
  <2>2. h.run = r /\ h.fetched = c.fetched /\ h.timeline = c.timeline
    BY <1>3, <1>7, HookFields
  <2> HIDE DEF h
  <2> QED BY <1>1, <2>1, <2>2
<1>9. ShowsHanded(World, w)'
  <2>1. c.fetched /\ Unended(log[r]) => \A i \in Step : Handed(c.timeline.steps[i], i, got[w], log[r])
    BY <1>2, <1>3, <1>7 DEF Faithful, ShowsHanded, World
  <2> QED BY <1>2, <1>8, <2>1 DEF ShowsHanded, World
<1>10. \A x \in Watchers : x # w => \A q \in Runs : x \in bus'.listeners[q] => x \in bus.listeners[q]
  BY <1>4
<1> QED BY <1>2, <1>4, <1>6, <1>8, <1>9, <1>10, OneClientIsFaithful

\* A client that left its stream shows nothing of its events.
LEMMA LeftIsFaithful ==
  ASSUME IInv, World' \in Worlds, Faithful(World), NEW w \in Watchers,
         EndOfStream(w) \/ Break(w) \/ Refetch(w) \/ Poll(w) \/ ServerSeesClose(w)
  PROVE  Faithful(World)'
<1>1. /\ client \in [Watchers -> Hook] /\ got \in [Watchers -> Seq(RunEvent)] /\ StreamsTo(World, w) /\ bus \in Bus
  BY Typed DEF IInv, TypeOK, Streaming
<1>2. queue' = queue /\ log' = log /\ timeline' = timeline
  BY DEF EndOfStream, Break, Refetch, Poll, ServerSeesClose, Quietly, database
<1>3. ASSUME bus' = bus PROVE Listening(World, w)'
  BY <1>2, <1>3 DEF Faithful, Listening, World
<1>4. CASE EndOfStream(w) \/ Break(w)
  <2>1. PICK phase \in {"closing", "polling"} : Leave(w, phase) /\ bus' = bus
    BY <1>4 DEF EndOfStream, Break, Quietly
  <2>2. client'[w].phase = phase /\ \A x \in Watchers : x # w => client'[x] = client[x] /\ got'[x] = got[x]
    BY <1>1, <2>1, LeavesTheStream
  <2>3. ShowsHanded(World, w)'
    BY <2>2 DEF ShowsHanded
  <2> QED BY <1>2, <1>3, <2>1, <2>2, <2>3, OneClientIsFaithful
<1>5. CASE Refetch(w) \/ Poll(w)
  <2>1. PICK c \in Hook : c = client[w] /\ c.phase \in {"closing", "polling"}
    BY <1>1, <1>5 DEF Refetch, Poll
  <2>2. got' = got /\ bus' = bus
    BY <1>5 DEF Refetch, Poll, Quietly
  <2>3. client'[w].phase \in {"closed", "polling", "closing"} /\ \A x \in Watchers : x # w => client'[x] = client[x]
    <3>1. CASE Refetch(w)
      <4> DEFINE s == c.seen \/ IsOver(c.run)
                 h == [c EXCEPT !.phase = "closed", !.seen = s]
      <4>1. client' = [client EXCEPT ![w] = h]
        BY <2>1, <3>1 DEF Refetch
      <4> HIDE DEF s
      <4>2. h.phase = "closed"
        BY <2>1, HookFields
      <4> HIDE DEF h
      <4> QED BY <1>1, <4>1, <4>2
    <3>2. CASE Poll(w)
      <4> DEFINE h == [c EXCEPT !.seen = TRUE]
      <4>1. client' = [client EXCEPT ![w] = h]
        BY <2>1, <3>2 DEF Poll
      <4>2. h.phase = c.phase
        BY <2>1, HookFields
      <4> HIDE DEF h
      <4> QED BY <1>1, <2>1, <4>1, <4>2
    <3> QED BY <1>5, <3>1, <3>2
  <2>4. ShowsHanded(World, w)'
    BY <2>3 DEF ShowsHanded
  <2> QED BY <1>2, <1>3, <2>2, <2>3, <2>4, OneClientIsFaithful
<1>6. CASE ServerSeesClose(w)
  <2>1. UNCHANGED watching /\ bus' = Unsubscribe(bus, client[w].run, w)
    BY <1>6 DEF ServerSeesClose
  <2>2. /\ bus'.seq = bus.seq
        /\ \A x \in Watchers, q \in Runs : x \in bus'.listeners[q] => x \in bus.listeners[q]
    <3> DEFINE l == [bus.listeners EXCEPT ![client[w].run] = @ \ {w}]
    <3>1. /\ bus = [seq |-> bus.seq, buffers |-> bus.buffers, listeners |-> bus.listeners]
          /\ bus.listeners \in [Runs -> SUBSET Listeners]
      BY <1>1 DEF Bus
    <3>2. bus' = [bus EXCEPT !.listeners = l]
      BY <2>1 DEF Unsubscribe
    <3>3. \A x \in Watchers, q \in Runs : x \in l[q] => x \in bus.listeners[q]
      BY <3>1
    <3> HIDE DEF l
    <3>4. bus'.seq = bus.seq /\ bus'.listeners = l
      BY <3>1, <3>2
    <3> QED BY <3>3, <3>4
  <2>3. queue \in Seq(Message) /\ TypeOK /\ 0 # 1
    BY Typed DEF IInv
  <2>4. Serves(0, {})
    BY <1>2, <2>3, QueueShapes
  <2> QED BY <1>2, <2>1, <2>2, <2>3, <2>4, QuietIsFaithful
<1> QED BY <1>4, <1>5, <1>6

\* At the start nothing was said, stored or shown.
LEMMA InitIsFaithful == ASSUME Init PROVE Faithful(World)
<1>1. /\ log = [r \in Runs |-> << >>] /\ queue = << >> /\ timeline = [r \in Runs |-> InitialTimeline]
      /\ bus.listeners = [r \in Runs |-> {}]
  BY DEF Init, NewBus
<1>2. ASSUME NEW r \in Runs PROVE Stores(World, r)
  <2>1. World.log[r] = << >> /\ World.queue = << >> /\ timeline[r] = InitialTimeline
    BY <1>1 DEF World
  <2>2. Awaiting(World, r) = {} /\ Recorded(World, r) = {}
    BY <2>1 DEF Awaiting, Recorded
  <2>3. Numbers(World, r) /\ Follows(World, r)
    BY <2>1, <2>2 DEF Numbers, Follows
  <2>4. ShowsRecorded(World, r)
    BY <2>1, <2>2 DEF ShowsRecorded, ShowsLast, ShowsNone
  <2> QED BY <2>3, <2>4 DEF Stores
<1>3. ASSUME NEW w \in Watchers PROVE Listening(World, w) /\ ShowsHanded(World, w)
  <2>1. Listening(World, w)
    BY <1>1 DEF Listening, World
  <2>2. client[w].phase = "idle"
    BY DEF Init, Absent
  <2> QED BY <2>1, <2>2 DEF ShowsHanded
<1> QED BY <1>2, <1>3 DEF Faithful

\* Whatever comes next is kept and shown.
LEMMA NextIsFaithful == ASSUME IInv, Faithful(World), [Next]_vars PROVE Faithful(World)'
<1>1. World' \in Worlds
  BY NextIInv DEF IInv, TypeOK
<1>2. CASE ApplyNext
  <2>1. PICK m : m = Head(queue) /\ queue # << >>
    BY <1>2 DEF ApplyNext
  <2>2. \/ m.kind = "admit" /\ Admit(m)
        \/ m.kind = "start" /\ Start(m)
        \/ m.kind = "event" /\ Record(m)
        \/ m.kind = "close" /\ Close(m)
        \/ m.kind = "reap" /\ ReapNow(m)
        \/ m.kind = "principals" /\ KeepPrincipals(m)
    BY <1>2, <2>1 DEF ApplyNext
  <2> QED BY <1>1, <2>1, <2>2, QuietMutationsAreFaithful, RecordIsFaithful, EndingIsFaithful
<1>3. CASE ProcessMoves \/ ChangePrincipals
  BY <1>1, <1>3, QuietStepsAreFaithful
<1>4. CASE ProcessEnds
  BY <1>1, <1>4, RunnerIsFaithful
<1>5. ASSUME NEW r \in Runs, SendMessage(r) \/ Execute(r) \/ Finish(r) \/ Reap(r) \/ Cancel(r) \/ Removed(r)
      PROVE  Faithful(World)'
  BY <1>1, <1>5, QuietStepsAreFaithful, RunnerIsFaithful
<1>6. ASSUME NEW w \in Watchers, Client(w) \/ Break(w) \/ ServerSeesClose(w) PROVE Faithful(World)'
  BY <1>1, <1>6, OpenStreamIsFaithful, DeliverIsFaithful, LeftIsFaithful DEF Client
<1>7. ASSUME NEW w \in Watchers, NEW r \in Runs, Watch(w, r) PROVE Faithful(World)'
  BY <1>1, <1>7, WatchIsFaithful
<1>8. CASE UNCHANGED vars
  <2>1. queue' = queue /\ log' = log /\ bus' = bus /\ timeline' = timeline /\ UNCHANGED watching
    BY <1>8 DEF vars, database, stream
  <2>2. queue \in Seq(Message) /\ TypeOK /\ 0 # 1
    BY Typed DEF IInv
  <2>3. Serves(0, {})
    BY <2>1, <2>2, QueueShapes
  <2> QED BY <1>1, <2>1, <2>2, <2>3, QuietIsFaithful
<1> QED BY <1>2, <1>3, <1>4, <1>5, <1>6, <1>7, <1>8 DEF Next

\* Among the events about an entry, one is the last.
LEMMA LastAbout ==
  ASSUME NEW s \in Seq(RunEvent), NEW i, NEW k \in DOMAIN s, At(s[k], i)
  PROVE  \E p \in DOMAIN s : At(s[p], i) /\ \A q \in DOMAIN s : q > p => ~At(s[q], i)
<1> DEFINE n == Len(s) T == {d \in Nat : n - d \in DOMAIN s /\ At(s[n - d], i)}
<1>1. n \in Nat /\ DOMAIN s = 1..n
  OBVIOUS
<1> HIDE DEF n
<1>2. \A p \in 1..n : n - p \in Nat /\ n - (n - p) = p
  BY <1>1
<1>3. n - k \in T
  BY <1>1, <1>2
<1>4. PICK d \in T : \A c \in T : d <= c
  <2>1. T \subseteq Nat /\ T # {}
    BY <1>3
  <2> HIDE DEF T
  <2> QED BY <2>1, MinIsLeast
<1>5. d \in Nat /\ n - d \in 1..n /\ At(s[n - d], i)
  BY <1>1, <1>4
<1>6. ASSUME NEW q \in 1..n, q > n - d PROVE ~At(s[q], i)
  <2>1. n - q \in Nat /\ ~(d <= n - q) /\ n - (n - q) = q
    BY <1>1, <1>2, <1>5, <1>6
  <2> QED BY <1>1, <1>4, <2>1
<1> QED BY <1>1, <1>5, <1>6

\* Two pipelines that show the same events are the same.
LEMMA SameIsShown ==
  ASSUME NEW s \in Seq(RunEvent), NEW i, NEW a, NEW b, Handed(a, i, s, s),
         ShowsLast(b, i, s, DOMAIN s), ShowsNone(b, i, s, DOMAIN s)
  PROVE  a = b
<1>1. CASE \E p \in DOMAIN s : At(s[p], i)
  <2>1. PICK p \in DOMAIN s : At(s[p], i) /\ \A q \in DOMAIN s : q > p => ~At(s[q], i)
    BY <1>1, LastAbout
  <2>2. ShowsLast(a, i, s, DOMAIN s)
    BY DEF Handed
  <2> QED BY <2>1, <2>2 DEF ShowsLast
<1>2. CASE \A p \in DOMAIN s : ~At(s[p], i)
  BY <1>2 DEF Handed, ShowsNone
<1> QED BY <1>1, <1>2

\* A client that was handed every event shows the pipeline the store holds.
LEMMA ShowsIt ==
  ASSUME IInv, Faithful(World), NEW w \in Watchers, client[w].phase = "live"
  PROVE  ShowsWhatIsKept(w)
<1>1. /\ client \in [Watchers -> Hook] /\ timeline \in [Runs -> TimelineType] /\ log \in [Runs -> Seq(RunEvent)]
      /\ StreamsTo(World, w)
  BY Typed DEF IInv, TypeOK, Streaming
<1>2. PICK r \in Runs : r = client[w].run
  BY <1>1 DEF StreamsTo
<1> SUFFICES ASSUME served[w] = "open", got[w] = log[r], client[w].fetched, \A i \in DOMAIN queue : queue[i].run # r
             PROVE  client[w].timeline.steps = timeline[r].steps
  BY <1>2 DEF ShowsWhatIsKept
<1>3. PICK s \in Seq(RunEvent) : s = log[r]
  BY <1>1
<1>4. Unended(s)
  <2>1. w \in bus.listeners[r]
    BY <1>1, <1>2 DEF StreamsTo, World
  <2> QED BY <1>3, <2>1 DEF Faithful, Listening, World
<1>5. Recorded(World, r) = DOMAIN s
  <2>1. Awaiting(World, r) = {}
    BY DEF Awaiting, World
  <2> QED BY <1>3, <2>1 DEF Recorded, World
<1>6. PICK x \in TimelineType, y \in TimelineType : x = client[w].timeline /\ y = timeline[r]
  BY <1>1, HookFields
<1>7. ASSUME NEW i \in Step PROVE x.steps[i] = y.steps[i]
  <2>1. Handed(x.steps[i], i, s, s)
    BY <1>2, <1>3, <1>4, <1>6 DEF Faithful, ShowsHanded, World
  <2>2. ShowsLast(y.steps[i], i, s, DOMAIN s) /\ ShowsNone(y.steps[i], i, s, DOMAIN s)
    BY <1>3, <1>4, <1>5, <1>6 DEF Faithful, Stores, ShowsRecorded, World
  <2> QED BY <2>1, <2>2, SameIsShown
<1>8. x.steps \in [Step -> Status] /\ y.steps \in [Step -> Status]
  BY DEF TimelineType
<1> QED BY <1>6, <1>7, <1>8

-----------------------------------------------------------------------------
(* What is promised                                                           *)

\* Only a message's own mutation queues a run that was not in use.
LEMMA QueuedByAMessage ==
  ASSUME IInv, Next, NEW r \in Runs, runStatus[r] = "unused", runStatus'[r] = "queued"
  PROVE  queue # << >> /\ queue[1].kind = "admit" /\ directory' = directory
<1>1. runStatus \in [Runs -> Active \cup TERMINAL_STAGES \cup {"unused"}] /\ runStatus' # runStatus
  BY DEF IInv, TypeOK
<1>2. database' # database
  BY <1>1 DEF database
<1>3. ApplyNext
  <2>1. ~ProcessMoves /\ ~ProcessEnds /\ ~ChangePrincipals
    BY <1>2 DEF ProcessMoves, ProcessEnds, ChangePrincipals
  <2>2. \A q \in Runs : ~(SendMessage(q) \/ Execute(q) \/ Finish(q) \/ Reap(q) \/ Cancel(q) \/ Removed(q))
    BY <1>2 DEF SendMessage, Execute, Finish, Reap, Cancel, Removed
  <2>3. \A w \in Watchers : ~(Client(w) \/ Break(w) \/ ServerSeesClose(w))
    BY <1>2 DEF Client, OpenStream, Deliver, EndOfStream, Refetch, Poll, Break, ServerSeesClose
  <2>4. \A w \in Watchers, q \in Runs : ~Watch(w, q)
    BY <1>2 DEF Watch
  <2> QED BY <2>1, <2>2, <2>3, <2>4 DEF Next
<1>4. PICK m : m = Head(queue) /\ queue # << >>
  BY <1>3 DEF ApplyNext
<1>5. \/ m.kind = "admit" /\ Admit(m)
      \/ m.kind = "start" /\ Start(m)
      \/ m.kind = "event" /\ Record(m)
      \/ m.kind = "close" /\ Close(m)
      \/ m.kind = "reap" /\ ReapNow(m)
      \/ m.kind = "principals" /\ KeepPrincipals(m)
  BY <1>3, <1>4 DEF ApplyNext
<1>6. m = queue[1] /\ (m.kind \in Moves \cup {"reap", "event"} => m.run \in Runs) /\ 1 \in DOMAIN queue
  BY <1>4, HeadIsTyped DEF IInv
<1>7. ~(m.kind = "start" /\ Start(m))
  BY <1>1, <1>6 DEF Start, Moves
<1>8. ~(m.kind = "event" /\ Record(m)) /\ ~(m.kind = "principals" /\ KeepPrincipals(m))
  BY <1>1 DEF Record, KeepPrincipals
<1>9. ~(m.kind = "close" /\ Close(m))
  <2> SUFFICES ASSUME m.kind = "close", Close(m) PROVE FALSE
    OBVIOUS
  <2>1. m.run \in Runs /\ exec[m.run] = "closing"
    BY <1>6 DEF IInv, MovesInOrder, Moves, Mover
  <2>2. verdict[m.run] \in TERMINAL_STAGES
    BY <2>1 DEF IInv, StatusFollows, FollowsItsExecution, Settling
  <2>3. runStatus' = IF StillOpen(m.run) THEN [runStatus EXCEPT ![m.run] = verdict[m.run]] ELSE runStatus
    BY DEF Close
  <2> QED BY <1>1, <2>1, <2>2, <2>3 DEF TERMINAL_STAGES
<1>10. ~(m.kind = "reap" /\ ReapNow(m))
  <2> SUFFICES ASSUME m.kind = "reap", ReapNow(m) PROVE FALSE
    OBVIOUS
  <2>1. UNCHANGED database \/ runStatus' = [runStatus EXCEPT ![m.run] = "failed"]
    BY DEF ReapNow
  <2> QED BY <1>1, <1>2, <2>1
<1>11. m.kind = "admit" /\ Admit(m)
  BY <1>5, <1>7, <1>8, <1>9, <1>10
<1> QED BY <1>4, <1>6, <1>11 DEF Admit

\* A revocation that was answered is stored, and no message is admitted when every
\* principal of the Agent has been revoked and answered for.
THEOREM RevocationIsKept == Spec => RevocationHolds
<1> DEFINE A == /\ \A p \in answered' : agentPrincipals'[p].revoked
                /\ \A r \in Runs : runStatus[r] = "unused" /\ runStatus'[r] = "queued"
                                   => \E p \in DOMAIN directory : p \notin answered
<1>1. ASSUME IInv, IInv', [Next]_vars PROVE [A]_vars
  <2>1. \A p \in answered' : agentPrincipals'[p].revoked
    BY <1>1 DEF IInv, TablesInOrder, Revoked
  <2>2. ASSUME Next, NEW r \in Runs, runStatus[r] = "unused", runStatus'[r] = "queued"
        PROVE  \E p \in DOMAIN directory : p \notin answered
    <3>1. queue # << >> /\ queue[1].kind = "admit"
      BY <1>1, <2>2, QueuedByAMessage
    <3>2. 1 \in DOMAIN queue
      BY <1>1, <3>1, Typed DEF IInv
    <3> QED BY <1>1, <3>1, <3>2 DEF IInv, MessagesHavePrincipals
  <2> QED BY <1>1, <2>1, <2>2
<1> QED BY <1>1, Invariant, PTL DEF Spec, RevocationHolds

\* A cancel that waited for a process left no child of the server running for it, and an
\* execution that ended as cancelled. For a container the child is the engine's client.
THEOREM CancelsStop == Spec => []CancelMeansStopped
<1>1. ASSUME IInv PROVE CancelMeansStopped
  <2> SUFFICES ASSUME NEW r \in Runs, cancel[r].told # NoRun, cancel[r].phase \in {"awaiting", "answered"}
               PROVE  active.run # cancel[r].told /\ verdict[cancel[r].told] = "cancelled"
    BY DEF CancelMeansStopped
  <2>1. Stopped(cancel[r].told)
    BY <1>1 DEF IInv, CancelsWait
  <2>2. exec[cancel[r].told] # "running" /\ verdict[cancel[r].told] = "cancelled"
    BY <2>1 DEF Stopped, Settling
  <2>3. active.run = cancel[r].told => exec[active.run] = "running"
    BY <1>1 DEF IInv, ProcessIsAwaited, Running
  <2> QED BY <2>2, <2>3
<1> QED BY <1>1, Invariant, PTL

\* A stretch of a sequence is one of its subsequences.
LEMMA StretchIsSubSeq ==
  ASSUME NEW S, NEW s \in Seq(S), NEW t \in Seq(S), NEW i \in Nat, i + Len(s) <= Len(t),
         \A k \in 1..Len(s) : s[k] = t[i + k]
  PROVE  s = SubSeq(t, i + 1, i + Len(s))
<1> DEFINE n == Len(s) u == SubSeq(t, i + 1, i + n)
<1>1. n \in Nat /\ Len(t) \in Nat /\ s \in [1..n -> S]
  OBVIOUS
<1>2. u \in Seq(S) /\ Len(u) = n /\ \A k \in 1..n : u[k] = t[i + k]
  <2>1. i + 1 \in 1..(Len(t) + 1) /\ i + n \in i..Len(t) /\ (i + n) - (i + 1) + 1 = n
    BY <1>1
  <2>2. u = [k \in 1..((i + n) - (i + 1) + 1) |-> t[(i + 1) + k - 1]]
    OBVIOUS
  <2>3. u = [k \in 1..n |-> t[(i + 1) + k - 1]]
    BY <2>1, <2>2
  <2>4. \A k \in 1..n : i + k \in 1..Len(t) /\ (i + 1) + k - 1 = i + k
    BY <1>1
  <2>5. \A k \in 1..n : u[k] = t[i + k] /\ t[i + k] \in S
    BY <2>3, <2>4
  <2> QED BY <1>1, <2>3, <2>5
<1> HIDE DEF u
<1>3. u \in [1..n -> S]
  <2>1. Len(u) = n /\ u \in Seq(S)
    BY <1>2
  <2> HIDE DEF n
  <2> QED BY <1>1, <2>1
<1>4. \A k \in 1..n : s[k] = u[k]
  BY <1>2
<1>5. s = [k \in 1..n |-> s[k]] /\ u = [k \in 1..n |-> u[k]]
  BY <1>1, <1>3
<1>6. s = u
  BY <1>4, <1>5
<1> QED BY <1>6 DEF u

\* A whole stretch is what it is a stretch of.
LEMMA WholeIsAll ==
  ASSUME NEW S, NEW s \in Seq(S), NEW t \in Seq(S), IsTail(s, t), Len(s) = Len(t)
  PROVE  s = t
<1> DEFINE n == Len(t)
<1>1. n \in Nat /\ s \in [1..n -> S] /\ t \in [1..n -> S]
  OBVIOUS
<1>2. \A k \in 1..n : s[k] = t[n - n + k]
  BY DEF IsTail
<1> HIDE DEF n
<1>3. \A k \in 1..n : n - n + k = k
  BY <1>1
<1>4. \A k \in 1..n : s[k] = t[k]
  BY <1>2, <1>3
<1>5. s = [k \in 1..n |-> s[k]] /\ t = [k \in 1..n |-> t[k]]
  BY <1>1
<1> QED BY <1>4, <1>5

\* What a stream has carried is a stretch of its run's events that reaches to the newest
\* as long as the stream is served, and back to the oldest unless the buffer was full.
LEMMA CarriesIt ==
  ASSUME IInv, NEW w \in Watchers, client[w].phase = "live"
  PROVE  CarriesTheLog(w)
<1>1. StreamsTo(World, w)
  BY DEF IInv, Streaming
<1>2. PICK r \in Runs : r = client[w].run
  BY <1>1 DEF StreamsTo
<1>3. PICK t \in Seq(RunEvent) : t = log[r]
  BY Typed DEF IInv
<1>4. PICK s \in Seq(RunEvent) : s = Carried(w) /\ s = Shipped(World, w)
  <2>1. got[w] \in Seq(RunEvent) /\ wire[w] \in Seq(RunEvent)
    BY Typed DEF IInv, TypeOK
  <2>2. \A S : \A x, y \in Seq(S) : x \o y \in Seq(S)
    OBVIOUS
  <2>3. got[w] \o wire[w] \in Seq(RunEvent)
    BY <2>1, <2>2
  <2> QED BY <2>3 DEF Carried, Shipped, World
<1>5. IsStretch(s, t) /\ (served[w] = "open" => IsWhole(s, t))
  BY <1>1, <1>2, <1>3, <1>4 DEF StreamsTo, World
<1>6. PICK n \in Nat, m \in Nat : n = Len(s) /\ m = Len(t)
  OBVIOUS
<1>7. \E i \in 0..m : s = SubSeq(t, i + 1, i + n)
  <2>1. PICK i \in 0..(m - n) : n <= m /\ \A k \in 1..n : s[k] = t[i + k]
    BY <1>5, <1>6 DEF IsStretch
  <2>2. i \in Nat /\ i + n <= m /\ i \in 0..m
    BY <2>1, <1>6
  <2> QED BY <1>6, <2>1, <2>2, StretchIsSubSeq
<1>8. ASSUME served[w] = "open" PROVE s = SubSeq(t, m - n + 1, m) /\ (n < MaxBuffered => s = t)
  <2>1. n <= m /\ (\A k \in 1..n : s[k] = t[m - n + k]) /\ (n = m \/ n >= MaxBuffered)
    BY <1>5, <1>6, <1>8 DEF IsWhole, IsTail
  <2>2. PICK i \in Nat : i = m - n /\ i + n = m
    BY <1>6, <2>1
  <2>3. s = SubSeq(t, i + 1, i + n)
    <3>1. i + Len(s) <= Len(t) /\ \A k \in 1..Len(s) : s[k] = t[i + k]
      BY <1>6, <2>1, <2>2
    <3> QED BY <1>6, <3>1, StretchIsSubSeq
  <2>4. n < MaxBuffered => n = m
    BY <1>6, <2>1, LimitsAssumption
  <2>5. n = m => s = t
    BY <1>5, <1>6, <1>8, WholeIsAll DEF IsWhole
  <2> QED BY <2>2, <2>3, <2>4, <2>5
<1> QED BY <1>2, <1>3, <1>4, <1>6, <1>7, <1>8 DEF CarriesTheLog

\* A stream carries its run's events in order, none left out, and a client that was handed
\* them all, on top of whatever it had fetched, shows the pipeline the store holds.
THEOREM StreamsShowTheLog == Spec => []StreamsAreFaithful
<1>1. Init => Faithful(World)
  BY InitIsFaithful
<1>2. IInv /\ Faithful(World) /\ [Next]_vars => Faithful(World)'
  BY NextIsFaithful
<1>3. IInv /\ Faithful(World) => StreamsAreFaithful
  BY CarriesIt, ShowsIt DEF StreamsAreFaithful
<1> QED BY <1>1, <1>2, <1>3, Invariant, PTL DEF Spec

\* A span ends where the events do, or before.
LEMMA SpansEnd ==
  ASSUME NEW s \in Seq(RunEvent), NEW i \in DOMAIN s
  PROVE  Traces!EndOf(s, i) \in Int /\ Traces!EndOf(s, i) <= Len(s)
<1> DEFINE T == {j \in Traces!Begins(s) : j > i} \cup {Len(s) + 1}
<1>1. T \subseteq Nat /\ T # {} /\ Len(s) + 1 \in T
  BY DEF Traces!Begins
<1>2. Traces!EndOf(s, i) = Traces!Min(T) - 1
  BY DEF Traces!EndOf
<1>3. Traces!Min(T) = Min(T)
  BY DEF Traces!Min, Min
<1> HIDE DEF T
<1>4. Min(T) \in T /\ Min(T) <= Len(s) + 1
  BY <1>1, MinIsLeast
<1>7. Min(T) \in Nat
  BY <1>1, <1>4
<1>8. Len(s) \in Nat
  OBVIOUS
<1>5. PICK a \in Nat, n \in Nat : a = Min(T) /\ n = Len(s)
  BY <1>7, <1>8
<1>6. Traces!EndOf(s, i) = a - 1
  BY <1>2, <1>3, <1>5
<1> QED BY <1>4, <1>5, <1>6

\* A run is announced once, with the status on record; one that its own execution closed
\* is recorded as closed once nothing of it is in the queue; and its trace says error
\* exactly when the record does.
THEOREM WhatIsToldIsKept == Spec => []ToldWhatIsKept
<1>1. ASSUME IInv, NEW r \in Runs
      PROVE  Told(r) = {} \/ \E i \in Told(r) : Told(r) = {i} /\ log[r][i].stage = runStatus[r]
  BY <1>1 DEF IInv, Announced, IsAnnounced
<1>2. ASSUME IInv, NEW r \in Runs, Drained(r), r \notin reaped PROVE IsRecorded(r)
  <2>1. EndIsRecorded(r) /\ exec[r] = "ended" /\ \A i \in DOMAIN queue : ~ Is(i, "event", r)
    BY <1>2 DEF IInv, EndsAreRecorded, Drained, Is
  <2> QED BY <2>1 DEF EndIsRecorded, IsLast
<1>3. ASSUME IInv, NEW r \in Runs, Told(r) # {}, r \notin reaped, Events(bus, r) # << >>
      PROVE  Traces!BuildTrace(Events(bus, r)).status = "error" <=> runStatus[r] = "failed"
  <2>1. PICK s \in Seq(RunEvent), t \in Seq(RunEvent) : s = Events(bus, r) /\ t = log[r] /\ IsTail(s, t) /\ s # << >>
    BY <1>3, Typed, EventsAreTheNewest DEF IInv
  <2>2. PICK n \in Nat, m \in Nat : n = Len(s) /\ m = Len(t) /\ n >= 1 /\ DOMAIN s = 1..n /\ DOMAIN t = 1..m
    BY <2>1
  <2>3. n <= m /\ \A k \in 1..n : s[k] = t[m - n + k]
    BY <2>1, <2>2 DEF IsTail
  <2>4. runStatus[r] \in TERMINAL_STAGES /\ t[m].stage = runStatus[r]
    BY <1>3, <2>1, <2>2 DEF IInv, Announced, IsAnnounced
  <2>5. Traces!Last(s).stage = runStatus[r]
    <3>1. Traces!Last(s) = s[n]
      BY <2>2 DEF Traces!Last
    <3>2. n \in 1..n /\ m - n + n = m
      BY <2>2
    <3> QED BY <2>3, <2>4, <3>1, <3>2
  <2>6. ASSUME NEW i \in Traces!Begins(s), Traces!SpanStatus(s, i) = "error" PROVE runStatus[r] = "failed"
    <3>1. i \in DOMAIN s
      BY DEF Traces!Begins
    <3>2. PICK j \in i..Traces!EndOf(s, i) : s[j].severity = "error"
      BY <2>6 DEF Traces!SpanStatus
    <3>3. j \in 1..n
      BY <2>2, <3>1, <3>2, SpansEnd
    <3>4. m - n + j \in DOMAIN t /\ t[m - n + j].severity = "error"
      BY <2>2, <2>3, <3>2, <3>3
    <3>5. exec[r] \in Settling /\ verdict[r] = "failed"
      BY <1>3, <2>1, <3>4 DEF IInv, Announced, IsAnnounced
    <3>6. runStatus[r] = StatusAt(r)
      BY <1>3 DEF IInv, StatusFollows, FollowsItsExecution
    <3>7. exec[r] = "ended"
      BY <2>4, <3>5, <3>6 DEF StatusAt, Settling, Executing, Fresh, TERMINAL_STAGES
    <3> QED BY <3>5, <3>6, <3>7 DEF StatusAt, Executing, Fresh
  <2>7. Traces!BuildTrace(s).status =
          IF (\E i \in Traces!Begins(s) : Traces!SpanStatus(s, i) = "error") \/ Traces!Last(s).stage = "failed"
          THEN "error"
          ELSE IF Traces!Last(s).stage \in Traces!TERMINAL_STAGES THEN "ok" ELSE "in_progress"
    BY DEF Traces!BuildTrace
  <2> QED BY <2>1, <2>5, <2>6, <2>7
<1>4. IInv => ToldWhatIsKept
  BY <1>1, <1>2, <1>3 DEF ToldWhatIsKept, IsRecorded
<1> QED BY <1>4, Invariant, PTL
=============================================================================
