----------------------------- MODULE AgentQueue -----------------------------
(* The event channel of one agent run (agent_queue_manager.py and            *)
(* BaseAgent.stream, astream): the agent publishes its events from a thread  *)
(* of its own, the listener hands them to the HTTP response and publishes    *)
(* heartbeats, the timeout and the user's stop into the same channel.        *)
(*                                                                           *)
(* Every publish is a short program of its thread; the two interleave at     *)
(* each access to what they share.  A run under stream reads a thread queue  *)
(* that the first of the two to need it creates; a run under astream reads   *)
(* an asyncio queue that exists before the agent starts; its synchronous     *)
(* nodes run in threads of the executor, so they interleave all the same.    *)
EXTENDS Naturals, Sequences

CONSTANTS
  Setups,       \* pairs <<"stream" or "astream", "memory" or "redis">>
  MaxMessages,  \* bounds of the model: ordinary events of the agent,
  MaxEndings,   \* its terminal events,
  MaxPings,     \* heartbeats,
  MaxFaults     \* failed Redis commands

ASSUME AgentQueueAssumption ==
  /\ Setups \subseteq {"stream", "astream"} \X {"memory", "redis"}
  /\ MaxMessages \in Nat /\ MaxEndings \in Nat /\ MaxPings \in Nat /\ MaxFaults \in Nat

VARIABLES
  setup,      \* how the run is executed, and AGENT_QUEUE_REDIS_CONSUME
  box,        \* the queue object in _queues, named for the thread that made it
  queue,      \* the content of each queue object
  replaced,   \* events were left in a queue that another took the place of
  log,        \* the Redis list, when it is read
  terminal,   \* _terminal_events
  pub,        \* where each thread is in publish, and with which event
  listen,     \* where the listener is, and the item it took
  delivered,  \* the events yielded to the response
  agent,      \* how much the agent has published
  late,       \* listen_timeout seconds have passed
  pings, faults

queueVars == <<setup, box, queue, replaced, log, terminal, pub, listen, delivered, agent,
               late, pings, faults>>

Publishers == {"agent", "listener"}
Boxes == Publishers \cup {"shared"}
TerminalEvents == {"stop", "error", "timeout", "end"}

Event(kind) == [kind |-> kind, no |-> 0]
Message(n) == [kind |-> "message", no |-> n]
QueueItems == {Event(k) : k \in TerminalEvents \cup {"ping", "none", "wait"}}
                \cup {Message(n) : n \in 1..MaxMessages}

None == Event("none")       \* the marker that ends the listening
Wait == Event("wait")       \* _QUEUE_WAIT

Mode == setup[1]
FromRedis == setup[2] = "redis"
IsTerminal(item) == item.kind \in TerminalEvents

QueueInit ==
  /\ setup \in Setups
  /\ box = "none"
  /\ queue = [b \in Boxes |-> <<>>]
  /\ replaced = FALSE
  /\ log = <<>>
  /\ terminal = {}
  /\ pub = [t \in Publishers |-> [pc |-> "idle", item |-> Wait]]
  /\ listen = [pc |-> "poll", item |-> Wait]
  /\ delivered = <<>>
  /\ agent = [sent |-> 0, endings |-> 0]
  /\ late = FALSE
  /\ pings = 0
  /\ faults = 0

-----------------------------------------------------------------------------
(* publish, as a thread executes it step by step.                            *)

At(t, pc) == pub[t].pc = pc
Goes(t, pc) == pub' = [pub EXCEPT ![t].pc = pc]

\* Mutant of Publish: nothing is dropped.
PublishAnyway(t, item) ==
  /\ At(t, "idle")
  /\ pub' = [pub EXCEPT ![t] =
               [pc |-> IF IsTerminal(item) THEN "mark" ELSE "put", item |-> item]]

\* After a terminal event everything is dropped.
Publish(t, item) ==
  /\ At(t, "idle")
  /\ pub' = [pub EXCEPT ![t] =
               IF terminal # {} THEN @
               ELSE [pc |-> IF IsTerminal(item) THEN "mark" ELSE "put", item |-> item]]

\* A terminal event is published once.
MarkTerminal(t) ==
  /\ At(t, "mark")
  /\ terminal' = terminal \cup {pub[t].item.kind}
  /\ Goes(t, IF pub[t].item.kind \in terminal THEN "idle" ELSE "put")
  /\ UNCHANGED <<setup, box, queue, replaced, log, listen, delivered, agent, late, pings, faults>>

\* What follows the put: the marker after a terminal event, the log if it is read.
AfterPut(t) == IF IsTerminal(pub[t].item) THEN "close" ELSE IF FromRedis THEN "persist" ELSE "idle"

\* queue(task_id) finds no queue: the thread is about to make one.
Missing(t) ==
  /\ At(t, "put") /\ box = "none"
  /\ Goes(t, "create")
  /\ UNCHANGED <<setup, box, queue, replaced, log, terminal, listen, delivered, agent, late, pings, faults>>

\* The queue that is read; under astream the thread queue fills as well, unread.
ReadFrom(b) == IF Mode = "astream" THEN "shared" ELSE b

\* A thread's own queue takes the place of the one there is, with what nobody read of it.
Install(t) ==
  /\ box' = t
  /\ replaced' = (replaced \/ (setup = <<"stream", "memory">> /\ box # "none" /\ queue[box] # <<>>))

\* Mutant of Put: the marker first.
PutBehind(t) ==
  /\ At(t, "create") \/ (At(t, "put") /\ box # "none")
  /\ IF At(t, "create") THEN Install(t) ELSE UNCHANGED <<box, replaced>>
  /\ queue' = [queue EXCEPT ![ReadFrom(box')] =
                  IF IsTerminal(pub[t].item) THEN @ \o <<None, pub[t].item>> ELSE Append(@, pub[t].item)]
  /\ Goes(t, IF FromRedis THEN "persist" ELSE "idle")
  /\ UNCHANGED <<setup, log, terminal, listen, delivered, agent, late, pings, faults>>

\* Put the event into the queue there is, or, however many exist by now, into
\* one's own, which replaces the other.
Put(t) ==
  /\ At(t, "create") \/ (At(t, "put") /\ box # "none")
  /\ IF At(t, "create") THEN Install(t) ELSE UNCHANGED <<box, replaced>>
  /\ queue' = [queue EXCEPT ![ReadFrom(box')] = Append(@, pub[t].item)]
  /\ Goes(t, AfterPut(t))
  /\ UNCHANGED <<setup, log, terminal, listen, delivered, agent, late, pings, faults>>

\* Mutant of StopListen: only the log gets its marker.
NeverStopListen(t) ==
  /\ At(t, "close")
  /\ Goes(t, IF FromRedis THEN "persist" ELSE "idle")
  /\ UNCHANGED <<setup, box, queue, replaced, log, terminal, listen, delivered, agent, late, pings, faults>>

\* The marker goes to the queue that is current now.
StopListen(t) ==
  /\ At(t, "close")
  /\ queue' = [queue EXCEPT ![ReadFrom(box)] = Append(@, None)]
  /\ Goes(t, IF FromRedis THEN "persist" ELSE "idle")
  /\ UNCHANGED <<setup, box, replaced, log, terminal, listen, delivered, agent, late, pings, faults>>

\* Mutant of Persist: LPUSH.
PersistFirst(t) ==
  /\ At(t, "persist")
  /\ log' = <<pub[t].item>> \o log
  /\ Goes(t, IF IsTerminal(pub[t].item) THEN "seal" ELSE "idle")
  /\ UNCHANGED <<setup, box, queue, replaced, terminal, listen, delivered, agent, late, pings, faults>>

Persist(t) ==
  /\ At(t, "persist")
  /\ log' = Append(log, pub[t].item)
  /\ Goes(t, IF IsTerminal(pub[t].item) THEN "seal" ELSE "idle")
  /\ UNCHANGED <<setup, box, queue, replaced, terminal, listen, delivered, agent, late, pings, faults>>

Seal(t) ==
  /\ At(t, "seal")
  /\ log' = Append(log, None)
  /\ Goes(t, "idle")
  /\ UNCHANGED <<setup, box, queue, replaced, terminal, listen, delivered, agent, late, pings, faults>>

\* A failure of Redis is swallowed with the rest of the persisting.
PersistFails(t) ==
  /\ At(t, "persist") \/ At(t, "seal")
  /\ faults < MaxFaults
  /\ faults' = faults + 1
  /\ Goes(t, "idle")
  /\ UNCHANGED <<setup, box, queue, replaced, log, terminal, listen, delivered, agent, late, pings>>

\* The failure of the command that goes with a new queue is not swallowed: the
\* event is lost with its marker, the response breaks off, or the agent fails.
QueueRaises(t) ==
  /\ At(t, "create") /\ faults < MaxFaults
  /\ faults' = faults + 1
  /\ Goes(t, "idle")
  /\ listen' = IF t = "listener" THEN [pc |-> "raised", item |-> Wait] ELSE listen
  /\ UNCHANGED <<setup, box, queue, replaced, log, terminal, delivered, agent, late, pings>>

PublishStep(t) ==
  MarkTerminal(t) \/ Missing(t) \/ Put(t) \/ StopListen(t) \/ Persist(t) \/ Seal(t)

-----------------------------------------------------------------------------
(* The agent, which may fall silent at any moment, having said why or not.   *)

Say ==
  /\ agent.sent < MaxMessages
  /\ Publish("agent", Message(agent.sent + 1))
  /\ agent' = [agent EXCEPT !.sent = @ + 1]
  /\ UNCHANGED <<setup, box, queue, replaced, log, terminal, listen, delivered, late, pings, faults>>

\* The answer is complete, or something failed or ran out of time.
Conclude ==
  /\ agent.endings < MaxEndings
  /\ \E k \in {"end", "error", "timeout"} : Publish("agent", Event(k))
  /\ agent' = [agent EXCEPT !.endings = @ + 1]
  /\ UNCHANGED <<setup, box, queue, replaced, log, terminal, listen, delivered, late, pings, faults>>

-----------------------------------------------------------------------------
(* The listener: take an item, send the heartbeats, hand the item over.      *)

Listening(pc) == listen.pc = pc /\ At("listener", "idle")
Took(item) == listen' = [pc |-> "ping", item |-> item]

\* The Redis log: an event, the marker, or nothing yet.
Pop ==
  /\ Listening("poll") /\ FromRedis
  /\ IF log = <<>> THEN Took(Wait) /\ UNCHANGED log ELSE Took(Head(log)) /\ log' = Tail(log)
  /\ UNCHANGED <<setup, box, queue, replaced, terminal, pub, delivered, agent, late, pings, faults>>

\* The memory queue: get(timeout=1).  Without a queue the listener makes it.
Poll ==
  IF ReadFrom(box) = "none"
  THEN /\ listen' = [listen EXCEPT !.pc = "create"]
       /\ UNCHANGED queue
  ELSE IF queue[ReadFrom(box)] = <<>> THEN Took(Wait) /\ UNCHANGED queue
  ELSE Took(Head(queue[ReadFrom(box)])) /\ queue' = [queue EXCEPT ![ReadFrom(box)] = Tail(@)]

Get ==
  /\ Listening("poll") /\ ~FromRedis
  /\ Poll
  /\ UNCHANGED <<setup, box, replaced, log, terminal, pub, delivered, agent, late, pings, faults>>

\* LPOP fails: read the memory queue this time.
PopFails ==
  /\ Listening("poll") /\ FromRedis /\ faults < MaxFaults
  /\ faults' = faults + 1
  /\ Poll
  /\ UNCHANGED <<setup, box, replaced, log, terminal, pub, delivered, agent, late, pings>>

MakeQueue ==
  /\ Listening("create")
  /\ Install("listener")
  /\ Took(Wait)
  /\ UNCHANGED <<setup, queue, log, terminal, pub, delivered, agent, late, pings, faults>>

\* _emit_heartbeats: a ping if ten seconds have passed, ...
Ping ==
  /\ Listening("ping")
  /\ \/ /\ pings < MaxPings
        /\ pings' = pings + 1
        /\ Publish("listener", Event("ping"))
     \/ UNCHANGED <<pub, pings>>
  /\ listen' = [listen EXCEPT !.pc = "timeout"]
  /\ UNCHANGED <<setup, box, queue, replaced, log, terminal, delivered, agent, late, faults>>

\* ... the timeout when it is over, ...
ListenTimeout ==
  /\ Listening("timeout")
  /\ IF late THEN Publish("listener", Event("timeout")) ELSE UNCHANGED pub
  /\ listen' = [listen EXCEPT !.pc = "stop"]
  /\ UNCHANGED <<setup, box, queue, replaced, log, terminal, delivered, agent, late, pings, faults>>

\* The user may have asked for a stop meanwhile.  set_stop_flag obeys only while
\* the key exists that goes with a new queue; the flag expires after ten minutes.
MayBeStopped == box # "none" \/ \E t \in Publishers : At(t, "create")

\* ... and the stop.
Stop ==
  /\ Listening("stop")
  /\ (MayBeStopped /\ Publish("listener", Event("stop"))) \/ UNCHANGED pub
  /\ listen' = [listen EXCEPT !.pc = "yield"]
  /\ UNCHANGED <<setup, box, queue, replaced, log, terminal, delivered, agent, late, pings, faults>>

\* Reading the stop flag or making the queue fails: the response breaks off.
ListenRaises ==
  /\ \E pc \in {"stop", "create"} : Listening(pc)
  /\ faults < MaxFaults
  /\ faults' = faults + 1
  /\ listen' = [pc |-> "raised", item |-> Wait]
  /\ UNCHANGED <<setup, box, queue, replaced, log, terminal, pub, delivered, agent, late, pings>>

\* A waiting listener goes round again, the marker ends it, an event is handed over.
Yield ==
  /\ Listening("yield")
  /\ delivered' = IF listen.item \in {Wait, None} THEN delivered ELSE Append(delivered, listen.item)
  /\ listen' = [pc |-> IF listen.item = None THEN "ended" ELSE "poll", item |-> Wait]
  /\ UNCHANGED <<setup, box, queue, replaced, log, terminal, pub, agent, late, pings, faults>>

ListenStep == Pop \/ Get \/ MakeQueue \/ Ping \/ ListenTimeout \/ Stop \/ Yield

\* listen_timeout seconds pass.
TimePasses ==
  /\ ~late
  /\ late' = TRUE
  /\ UNCHANGED <<setup, box, queue, replaced, log, terminal, pub, listen, delivered, agent, pings, faults>>

-----------------------------------------------------------------------------
QueueNext ==
  \/ \E t \in Publishers : PublishStep(t) \/ PersistFails(t) \/ QueueRaises(t)
  \/ Say \/ Conclude
  \/ ListenStep \/ PopFails \/ ListenRaises
  \/ TimePasses

QueueSpec == QueueInit /\ [][QueueNext]_queueVars

\* Threads go on, and the time passes; the agent may hang for ever.
FairQueueSpec ==
  /\ QueueSpec
  /\ \A t \in Publishers : WF_queueVars(PublishStep(t))
  /\ WF_queueVars(ListenStep) /\ WF_queueVars(TimePasses)

-----------------------------------------------------------------------------
QueueTypeOK ==
  /\ setup \in Setups
  /\ box \in Boxes \cup {"none"}
  /\ queue \in [Boxes -> Seq(QueueItems \ {Wait})]
  /\ log \in Seq(QueueItems \ {Wait})
  /\ terminal \subseteq TerminalEvents
  /\ pub \in [Publishers -> [pc : {"idle", "mark", "put", "create", "close", "persist", "seal"}, item : QueueItems]]
  /\ listen \in [pc : {"poll", "create", "ping", "timeout", "stop", "yield", "ended", "raised"},
                 item : QueueItems]
  /\ delivered \in Seq(QueueItems \ {None, Wait})
  /\ agent \in [sent : 0..MaxMessages, endings : 0..MaxEndings]
  /\ late \in BOOLEAN /\ replaced \in BOOLEAN
  /\ pings \in 0..MaxPings /\ faults \in 0..MaxFaults

\* While Redis answers, and no queue was replaced with events in it, the response gets
\* the agent's events in the order of their publication, each once and none left out, up
\* to where it ends.
EventsInOrder ==
  faults = 0 /\ ~replaced => \A i \in DOMAIN delivered : delivered[i].kind = "message" =>
    {delivered[j].no : j \in {k \in 1..(i - 1) : delivered[k].kind = "message"}} = 1..(delivered[i].no - 1)

\* The listening ends only after the response was told why, unless Redis failed
\* more than once or a queue was replaced with events in it.
ToldWhy ==
  listen.pc = "ended" /\ faults <= 1 /\ ~replaced => \E i \in DOMAIN delivered : IsTerminal(delivered[i])

\* After the event that says why, the response gets at most the one event that
\* the other thread had already decided to publish, unless it reads a log that failed.
LittleAfterTheEnd ==
  ~FromRedis \/ faults = 0 =>
    \A i, j \in DOMAIN delivered : IsTerminal(delivered[i]) /\ i < j => j = i + 1 /\ j = Len(delivered)

\* While Redis answers, the listening ends, whatever the agent does: by its end,
\* its failure, the user's stop or the timeout; unless the event that says so was
\* left in a queue that was replaced.
ListenEnds == <>(listen.pc \in {"ended", "raised"} \/ faults > 0 \/ replaced)

\* What the listener waits for: it is told the end, at the latest by its timeout.
ListenAlwaysEnds == <>(listen.pc \in {"ended", "raised"} \/ faults > 0)
=============================================================================
