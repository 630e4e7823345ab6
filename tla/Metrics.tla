------------------------------ MODULE Metrics -------------------------------
(***************************************************************************)
(* The way of a usage event (controller/metrics): OpenZiti appends it to a *)
(* file; the bridge, a process of its own, tails the file and pushes the   *)
(* lines onto an AMQP queue; the metrics agent of the controller takes     *)
(* them from there, writes them to InfluxDB, hands them to the limits      *)
(* agent through a bounded queue, and acknowledges them.                   *)
(*                                                                         *)
(* The channels between a source and its consumer have no buffer: a send   *)
(* and its receive are one step, and the sender waits for it.              *)
(***************************************************************************)
EXTENDS Naturals, Sequences, FiniteSets

CONSTANTS
  N,          \* the lines of the file
  QueueSize,  \* of the queue in front of the limits agent, 1024
  Crashes,    \* a bound on the crashes of either process
  Failures,   \* a bound on refused pushes, writes and lookups, and lost connections
  Unreadable  \* the lines that are not JSON

ASSUME MetricsAssumption ==
  /\ {N, QueueSize, Crashes, Failures} \subseteq Nat
  /\ Unreadable \subseteq 1..N

VARIABLES
  \* the bridge
  ptr,        \* the pointer file: the last line known to be handed over
  source,     \* fileSource: its step, and the line it is at
  bridge,     \* the event loop: its step, and the event it handles
  stopping,   \* whether Stop was called
  dropped,    \* history: the events whose push failed
  \* the queue: all messages ever pushed, and where each one is
  pushed, place,
  \* the controller
  amqp,       \* amqpSource: its step, its message, and whether it is connected
  agent,      \* the event loop of the agent: its step, its message, and what to ack
  recorded,   \* the events in InfluxDB
  nameless,   \* history: the events whose share was not found
  queue,      \* the queue of the limits agent
  crashes,    \* how often the bridge and the controller have crashed
  failures,
  reread      \* history: the lines behind the pointer at the starts that could not read it

bridgeVars == <<ptr, source, bridge, stopping, dropped, reread>>
agentVars == <<amqp, agent, recorded, nameless, queue>>
metricsVars == <<bridgeVars, pushed, place, agentVars, crashes, failures>>

Events == 1..N
Messages == DOMAIN pushed

Selecting == [step |-> "select", event |-> 0]
Tailing(line) == [step |-> "tail", line |-> line]
Waiting == [step |-> "wait", message |-> 0, fresh |-> FALSE, ack |-> FALSE]
Dialing == [step |-> "dial", message |-> 0, connected |-> FALSE]

MetricsInit ==
  /\ ptr = 0 /\ source = Tailing(0) /\ bridge = Selecting /\ stopping = FALSE
  /\ dropped = {} /\ reread = 0
  /\ pushed = <<>> /\ place = <<>>
  /\ amqp = Dialing /\ agent = Waiting
  /\ recorded = {} /\ nameless = {} /\ queue = <<>>
  /\ crashes = [bridge |-> 0, controller |-> 0] /\ failures = 0

Fails == failures < Failures /\ failures' = failures + 1
-----------------------------------------------------------------------------
(* The bridge.                                                             *)

ReadLine ==
  /\ source.step = "tail" /\ source.line < N /\ ~stopping
  /\ source' = [step |-> "send", line |-> source.line + 1]
  /\ UNCHANGED <<ptr, bridge, stopping, dropped, pushed, place, reread, agentVars, crashes, failures>>

\* Mutant: the pointer is written before the line is handed over.
HandOverWritten ==
  /\ source.step = "send" /\ ptr' = source.line
  /\ IF bridge.step = "select"
     THEN bridge' = [step |-> "handle", event |-> source.line] /\ source' = [source EXCEPT !.step = "write"]
     ELSE UNCHANGED <<bridge, source>>
  /\ UNCHANGED <<stopping, dropped, pushed, place, reread, agentVars, crashes, failures>>

HandOver ==
  /\ source.step = "send" /\ bridge.step = "select"
  /\ source' = [source EXCEPT !.step = "write"]
  /\ bridge' = [step |-> "handle", event |-> source.line]
  /\ UNCHANGED <<ptr, stopping, dropped, pushed, place, reread, agentVars, crashes, failures>>

\* While the loop handles the event.  An error is logged.
WritePtr ==
  /\ source.step = "write"
  /\ \/ ptr' = source.line /\ UNCHANGED failures
     \/ Fails /\ UNCHANGED ptr
  /\ source' = Tailing(source.line)
  /\ UNCHANGED <<bridge, stopping, dropped, pushed, place, reread, agentVars, crashes>>

\* amqpSink.Handle; whether it was pushed or not the event is acknowledged.
Push ==
  /\ bridge.step = "handle"
  /\ \/ /\ pushed' = Append(pushed, bridge.event) /\ place' = Append(place, "ready")
        /\ UNCHANGED <<dropped, failures>>
     \/ /\ Fails
        /\ dropped' = dropped \cup {bridge.event}
        /\ UNCHANGED <<pushed, place>>
  /\ bridge' = Selecting
  /\ UNCHANGED <<ptr, source, stopping, reread, agentVars, crashes>>

\* The tail is killed, and the loop told to close.
Stop ==
  /\ ~stopping /\ stopping' = TRUE
  /\ UNCHANGED <<ptr, source, bridge, dropped, pushed, place, reread, agentVars, crashes, failures>>

LinesEnd ==
  /\ stopping /\ source.step = "tail"
  /\ source' = [source EXCEPT !.step = "ended"]
  /\ UNCHANGED <<ptr, bridge, stopping, dropped, pushed, place, reread, agentVars, crashes, failures>>

LoopCloses ==
  /\ stopping /\ bridge.step = "select"
  /\ bridge' = [bridge EXCEPT !.step = "ended"]
  /\ UNCHANGED <<ptr, source, stopping, dropped, pushed, place, reread, agentVars, crashes, failures>>

\* Mutant: the pointer is not read.
RestartedFromTheFirst ==
  /\ source' = Tailing(0) /\ bridge' = Selecting /\ stopping' = FALSE
  /\ UNCHANGED <<ptr, dropped, pushed, place, agentVars, failures, reread>>

\* From the line of the pointer; when it cannot be read that is logged, and the file
\* is tailed from its first line.
Restarted ==
  /\ \/ source' = Tailing(ptr) /\ UNCHANGED <<failures, reread>>
     \/ Fails /\ source' = Tailing(0) /\ reread' = reread + ptr
  /\ bridge' = Selecting /\ stopping' = FALSE
  /\ UNCHANGED <<ptr, dropped, pushed, place, agentVars>>

\* Both joins were closed: the process ends, and is started again.
StartAgain ==
  /\ source.step = "ended" /\ bridge.step = "ended"
  /\ Restarted /\ UNCHANGED crashes

\* It also has to be killed when it hangs in Stop.
BridgeCrashes ==
  /\ crashes.bridge < Crashes
  /\ Restarted
  /\ crashes' = [crashes EXCEPT !.bridge = @ + 1]
-----------------------------------------------------------------------------
(* The queue and the source of the agent.                                  *)

\* Messages that were delivered and not acknowledged are delivered again.
Requeued == [m \in Messages |-> IF place[m] = "sent" THEN "ready" ELSE place[m]]

Connect ==
  /\ amqp.step = "dial"
  /\ amqp' = [step |-> "receive", message |-> 0, connected |-> TRUE]
  /\ UNCHANGED <<bridgeVars, pushed, place, agent, recorded, nameless, queue, crashes, failures>>

Deliver ==
  /\ amqp.step = "receive" /\ amqp.connected
  /\ \E m \in Messages :
       /\ place[m] = "ready" /\ \A k \in Messages : place[k] = "ready" => m <= k
       /\ place' = [place EXCEPT ![m] = "sent"]
       /\ amqp' = [amqp EXCEPT !.step = "send", !.message = m]
  /\ UNCHANGED <<bridgeVars, pushed, agent, recorded, nameless, queue, crashes, failures>>

\* Seen by the source when it receives again.
Disconnects ==
  /\ amqp.connected /\ Fails
  /\ amqp' = [amqp EXCEPT !.connected = FALSE]
  /\ agent' = [agent EXCEPT !.fresh = FALSE]
  /\ place' = Requeued
  /\ UNCHANGED <<bridgeVars, pushed, recorded, nameless, queue, crashes>>

NoticesDisconnect ==
  /\ amqp.step = "receive" /\ ~amqp.connected
  /\ amqp' = Dialing
  /\ UNCHANGED <<bridgeVars, pushed, place, agent, recorded, nameless, queue, crashes, failures>>
-----------------------------------------------------------------------------
(* The agent.                                                              *)

Event == pushed[agent.message]

Take ==
  /\ amqp.step = "send" /\ agent.step = "wait"
  /\ agent' = [step |-> "record", message |-> amqp.message, fresh |-> amqp.connected, ack |-> TRUE]
  /\ amqp' = [amqp EXCEPT !.step = "receive", !.message = 0]
  /\ UNCHANGED <<bridgeVars, pushed, place, recorded, nameless, queue, crashes, failures>>

\* Mutant: the loop ends with an event that cannot be read.
IngestFailsEnds ==
  /\ agent.step = "record" /\ Event \in Unreadable
  /\ agent' = [agent EXCEPT !.step = "ended"]
  /\ UNCHANGED <<bridgeVars, pushed, place, amqp, recorded, nameless, queue, crashes, failures>>

\* It is neither handled nor acknowledged.
IngestFails ==
  /\ agent.step = "record" /\ Event \in Unreadable
  /\ agent' = Waiting
  /\ UNCHANGED <<bridgeVars, pushed, place, amqp, recorded, nameless, queue, crashes, failures>>

\* The share is found and the usage written; or it is not found, for whatever
\* reason, and nothing is written; or the write fails.
Record ==
  /\ agent.step = "record" /\ Event \notin Unreadable
  /\ \/ /\ recorded' = recorded \cup {Event}
        /\ agent' = [agent EXCEPT !.step = "enqueue"]
        /\ UNCHANGED <<nameless, failures>>
     \/ /\ Fails
        /\ nameless' = nameless \cup {Event}
        /\ agent' = [agent EXCEPT !.step = "enqueue"]
        /\ UNCHANGED recorded
     \/ /\ Fails
        /\ agent' = [agent EXCEPT !.step = "enqueue", !.ack = FALSE]
        /\ UNCHANGED <<recorded, nameless>>
  /\ UNCHANGED <<bridgeVars, pushed, place, amqp, queue, crashes>>

\* Waits while the queue is full.
Enqueue ==
  /\ agent.step = "enqueue" /\ Len(queue) < QueueSize
  /\ queue' = Append(queue, Event)
  /\ agent' = [agent EXCEPT !.step = "ack"]
  /\ UNCHANGED <<bridgeVars, pushed, place, amqp, recorded, nameless, crashes, failures>>

\* Mutant: what a sink refused is acknowledged too.
AcksAll == agent.fresh

\* On the connection it was delivered on.
Acks == agent.ack /\ agent.fresh

Ack ==
  /\ agent.step = "ack"
  /\ place' = IF Acks THEN [place EXCEPT ![agent.message] = "acked"] ELSE place
  /\ agent' = Waiting
  /\ UNCHANGED <<bridgeVars, pushed, amqp, recorded, nameless, queue, crashes, failures>>

\* Agent.run of the limits agent.
Enforce ==
  /\ queue # <<>> /\ queue' = Tail(queue)
  /\ UNCHANGED <<bridgeVars, pushed, place, amqp, agent, recorded, nameless, crashes, failures>>

ControllerCrashes ==
  /\ crashes.controller < Crashes
  /\ amqp' = Dialing /\ agent' = Waiting /\ queue' = <<>>
  /\ place' = Requeued
  /\ crashes' = [crashes EXCEPT !.controller = @ + 1]
  /\ UNCHANGED <<bridgeVars, pushed, recorded, nameless, failures>>
-----------------------------------------------------------------------------
BridgeNext ==
  \/ ReadLine \/ HandOver \/ WritePtr \/ Push
  \/ Stop \/ LinesEnd \/ LoopCloses \/ StartAgain \/ BridgeCrashes

AgentNext ==
  \/ Connect \/ Deliver \/ Disconnects \/ NoticesDisconnect
  \/ Take \/ IngestFails \/ Record \/ Enqueue \/ Ack \/ Enforce \/ ControllerCrashes

MetricsNext == BridgeNext \/ AgentNext

\* The three goroutines of the controller run for as long as it does, and dial
\* again every ten seconds; nothing is asked of the bridge.
MetricsSpec ==
  /\ MetricsInit /\ [][MetricsNext]_metricsVars
  /\ WF_metricsVars(Connect \/ Deliver \/ NoticesDisconnect)
  /\ WF_metricsVars(Take \/ IngestFails \/ Record \/ Enqueue \/ Ack)
  /\ WF_metricsVars(Enforce)
-----------------------------------------------------------------------------
(* Properties.                                                             *)

MetricsTypeOK ==
  /\ ptr \in 0..N
  /\ source \in [step : {"tail", "send", "write", "ended"}, line : 0..N]
  /\ bridge \in [step : {"select", "handle", "ended"}, event : 0..N]
  /\ stopping \in BOOLEAN
  /\ dropped \subseteq Events /\ recorded \subseteq Events /\ nameless \subseteq Events
  /\ pushed \in Seq(Events)
  /\ place \in [Messages -> {"ready", "sent", "acked"}]
  /\ amqp \in [step : {"dial", "receive", "send"}, message : 0..Len(pushed), connected : BOOLEAN]
  /\ agent \in [step : {"wait", "record", "enqueue", "ack"}, message : 0..Len(pushed),
               fresh : BOOLEAN, ack : BOOLEAN]
  /\ queue \in Seq(Events)
  /\ crashes \in [bridge : 0..Crashes, controller : 0..Crashes]
  /\ failures \in 0..Failures /\ reread \in Nat

EventsPushed == {pushed[m] : m \in Messages}

\* A line is behind the pointer although no message carries it only when its
\* push was refused, or when the bridge crashed with it in hand: every crash
\* costs one event at most (the pointer is written after the event was handed
\* over, fileSource.go:89-93, and there is one event between the two).
LosesOnePerCrash ==
  Cardinality(1..ptr \ (EventsPushed \cup dropped \cup
                        {e \in {bridge.event} : bridge.step = "handle"}))
    <= crashes.bridge

\* An event is on the queue twice only for a crash between its hand-over and
\* the write of the pointer, for a pointer that could not be written, which
\* repeat one event each, or for a start that could not read the pointer
\* (fileSource.go:52-55), which repeats at most the lines behind it: an orderly
\* Stop and a new start repeat nothing (bridge.go:73-78).
RepeatsOnlyForFailures ==
  Len(pushed) - Cardinality(EventsPushed) <= crashes.bridge + failures + reread

\* A message that was acknowledged is in InfluxDB, unless its share was not
\* found: a crash, a lost connection or a refused write before that leaves it
\* on the queue (agent.go:53-65).
AckedIsRecorded ==
  \A m \in Messages : place[m] = "acked" => pushed[m] \in recorded \cup nameless

\* The messages of the queue are all taken some time, whatever the lines say
\* and although the limits agent lets only QueueSize of them wait
\* (agent.go:43-73, limits/agent.go:216-256).
Flows ==
  (\E m \in Messages : place[m] = "ready") ~> (\A m \in Messages : place[m] # "ready")
=============================================================================
