--------------------------- MODULE MetricsProofs ----------------------------
(***************************************************************************)
(* Theorems about Metrics: for any number of lines, crashes and failures   *)
(* of any kind, how often an event of the file may be lost or doubled on   *)
(* its way to the queue, and that what leaves the queue was recorded.      *)
(***************************************************************************)
EXTENDS Metrics, FiniteSetTheorems, TLAPS

BridgeType ==
  /\ ptr \in 0..N
  /\ source \in [step : {"tail", "send", "write", "ended"}, line : 0..N]
  /\ bridge \in [step : {"select", "handle", "ended"}, event : 0..N]
  /\ source.step = "send" => source.line > 0
  /\ bridge.step = "handle" => bridge.event > 0
  /\ stopping \in BOOLEAN
  /\ dropped \subseteq Events

QueueType ==
  /\ pushed \in Seq(Events)
  /\ place \in [Messages -> {"ready", "sent", "acked"}]
  /\ crashes \in [bridge : 0..Crashes, controller : 0..Crashes]
  /\ failures \in 0..Failures /\ reread \in Nat

\* Whoever has a message has one that was pushed.
AgentType ==
  /\ recorded \subseteq Events /\ nameless \subseteq Events
  /\ amqp \in [step : {"dial", "receive", "send"}, message : 0..Len(pushed), connected : BOOLEAN]
  /\ amqp.step = "send" => amqp.message \in Messages
  /\ agent \in [step : {"wait", "record", "enqueue", "ack"}, message : 0..Len(pushed),
               fresh : BOOLEAN, ack : BOOLEAN]
  /\ agent.step # "wait" => agent.message \in Messages
  /\ queue \in Seq(Events)

\* What is to be acknowledged was recorded.
Recorded ==
  /\ agent.step \in {"enqueue", "ack"} /\ agent.ack => Event \in recorded \cup nameless
  /\ AckedIsRecorded

\* The last line the source has handed over since it was started.
Handed == IF source.step = "send" THEN source.line - 1 ELSE source.line

\* The source may be at a line before the pointer, when that could not be read; Back
\* is the last line behind both, Reached the last one behind either.
Back == IF ptr <= Handed THEN ptr ELSE Handed
Reached == IF ptr <= Handed THEN Handed ELSE ptr

InHand == IF bridge.step = "handle" THEN {bridge.event} ELSE {}

\* The line that was handed over and the pointer is about to move up to.
Writing == IF source.step = "write" /\ source.line > ptr THEN {source.line} ELSE {}

\* Pushed, or about to be.
Carried == EventsPushed \cup InHand

\* What was handed over and is nowhere; what is handed over once more when the
\* source reads on, or after a restart.
Lost == 1..Reached \ (Carried \cup dropped)
Again == {e \in Carried \cup Writing : e > Back}

Excused == failures + reread

LossInv == Cardinality(Lost) <= crashes.bridge

\* The line that is being written is behind the pointer soon.
RepeatInv ==
  Len(pushed) + Cardinality(InHand) + Cardinality(Again)
    <= Cardinality(Carried) + crashes.bridge + Excused + Cardinality(Writing)

MetricsInv == BridgeType /\ QueueType /\ AgentType /\ Recorded /\ LossInv /\ RepeatInv
-----------------------------------------------------------------------------
LEMMA Bounds == N \in Nat /\ QueueSize \in Nat /\ Crashes \in Nat /\ Failures \in Nat
    BY MetricsAssumption

LEMMA Smaller ==
  ASSUME NEW S, IsFiniteSet(S), NEW T, T \subseteq S
  PROVE  /\ IsFiniteSet(T) /\ Cardinality(T) \in Nat /\ Cardinality(S) \in Nat
         /\ Cardinality(T) <= Cardinality(S)
  BY FS_Subset, FS_CardinalityType

LEMMA Counts == ASSUME BridgeType, QueueType
                PROVE  /\ IsFiniteSet(Carried) /\ Cardinality(Carried) \in Nat
                       /\ IsFiniteSet(Lost) /\ Cardinality(Lost) \in Nat
                       /\ IsFiniteSet(Again) /\ Cardinality(Again) \in Nat
                       /\ Carried \subseteq Events /\ EventsPushed \subseteq Events
                       /\ Cardinality(InHand) = IF bridge.step = "handle" THEN 1 ELSE 0
                       /\ Cardinality(Writing) \in {0, 1}
                       /\ Handed \in 0..N /\ Back \in 0..N /\ Reached \in 0..N
<1>1. N \in Nat
    BY Bounds
<1>2. IsFiniteSet(0..N)
    BY <1>1, FS_Interval
<1>3. EventsPushed \subseteq Events /\ InHand \subseteq Events /\ Writing \subseteq 0..N
    BY <1>1 DEF EventsPushed, Messages, InHand, Writing, Events, BridgeType, QueueType
<1>4. Handed \in 0..N /\ Back \in 0..N /\ Reached \in 0..N
    BY <1>1 DEF Handed, Back, Reached, BridgeType
<1>5. Carried \subseteq 0..N /\ Lost \subseteq 0..N /\ Again \subseteq 0..N
  <2>1. Carried \subseteq 0..N
      BY <1>1, <1>3 DEF Carried, Events
  <2>2. Lost \subseteq 1..Reached /\ Again \subseteq Carried \cup Writing
      BY DEF Lost, Again
  <2> QED BY <1>1, <1>3, <1>4, <2>1, <2>2
<1>6. IsFiniteSet(Carried) /\ IsFiniteSet(Lost) /\ IsFiniteSet(Again)
    BY <1>2, <1>5, FS_Subset
<1>7. /\ Cardinality(InHand) = IF bridge.step = "handle" THEN 1 ELSE 0
      /\ Cardinality(Writing) \in {0, 1}
    BY FS_EmptySet, FS_Singleton DEF InHand, Writing
<1> QED BY <1>3, <1>4, <1>6, <1>7, FS_CardinalityType DEF Carried

LEMMA InitInv == MetricsInit => MetricsInv
<1> SUFFICES ASSUME MetricsInit PROVE MetricsInv
    OBVIOUS
<1>1. BridgeType
  <2>1. /\ ptr = 0 /\ stopping = FALSE /\ dropped = {}
        /\ source = [step |-> "tail", line |-> 0] /\ bridge = [step |-> "select", event |-> 0]
      BY DEF MetricsInit, Tailing, Selecting
  <2>2. 0 \in 0..N
      BY Bounds
  <2> QED BY <2>1, <2>2 DEF BridgeType
<1>2. QueueType
  <2>1. pushed = <<>> /\ place = <<>> /\ crashes = [bridge |-> 0, controller |-> 0] /\ failures = 0 /\ reread = 0
      BY DEF MetricsInit
  <2>2. Messages = {} /\ pushed \in Seq(Events)
      BY <2>1 DEF Messages
  <2>3. place \in [Messages -> {"ready", "sent", "acked"}]
      BY <2>1, <2>2
  <2>4. 0 \in 0..Crashes /\ 0 \in 0..Failures
      BY MetricsAssumption
  <2> QED BY <2>1, <2>2, <2>3, <2>4 DEF QueueType
<1>3. AgentType /\ Recorded
    BY MetricsAssumption
    DEF MetricsInit, AgentType, Recorded, AckedIsRecorded, Messages, Dialing, Waiting
<1>4. /\ Handed = 0 /\ Reached = 0 /\ InHand = {} /\ Writing = {} /\ EventsPushed = {}
    BY DEF MetricsInit, Handed, Reached, InHand, Writing, EventsPushed, Messages, Tailing, Selecting
<1>5. Lost = {} /\ Again = {} /\ Carried = {}
    BY <1>4 DEF Lost, Again, Carried
<1>6. Len(pushed) = 0 /\ crashes.bridge = 0 /\ Excused = 0
    BY DEF MetricsInit, Excused
<1>7. LossInv /\ RepeatInv
    BY <1>4, <1>5, <1>6, FS_EmptySet DEF LossInv, RepeatInv
<1> QED BY <1>1, <1>2, <1>3, <1>7 DEF MetricsInv
-----------------------------------------------------------------------------
(* What a step of the one side leaves of the other.                        *)

LEMMA AgentStays ==
  ASSUME MetricsInv, UNCHANGED <<agentVars, pushed, place>>
  PROVE  AgentType' /\ Recorded'
  BY DEF MetricsInv, AgentType, Recorded, AckedIsRecorded, Messages, Event, agentVars

LEMMA MoreFailures ==
  ASSUME NEW l \in Nat, NEW h \in Nat, NEW a \in Nat, NEW c \in Nat, NEW k \in Nat,
         NEW f \in Nat, NEW g \in Nat, NEW w \in Nat,
         l + h + a <= c + k + f + w, f <= g
  PROVE  l + h + a <= c + k + g + w
  OBVIOUS

LEMMA SameAdded ==
  ASSUME NEW f \in Nat, NEW g \in Nat, NEW r \in Nat, f <= g
  PROVE  f + r \in Nat /\ g + r \in Nat /\ f + r <= g + r
  OBVIOUS

LEMMA BridgeStays ==
  ASSUME MetricsInv, QueueType', UNCHANGED <<bridgeVars, pushed>>,
         crashes'.bridge = crashes.bridge, failures <= failures'
  PROVE  BridgeType' /\ LossInv' /\ RepeatInv'
<1>1. BridgeType'
    BY DEF MetricsInv, BridgeType, bridgeVars
<1>2. /\ Lost' = Lost /\ Again' = Again /\ Carried' = Carried /\ InHand' = InHand /\ Writing' = Writing
      /\ Handed' = Handed /\ Len(pushed') = Len(pushed) /\ ptr' = ptr /\ source' = source
    BY DEF Lost, Again, Carried, InHand, Writing, Handed, Back, Reached, EventsPushed, Messages, bridgeVars
<1>3. /\ Excused \in Nat /\ Excused' \in Nat /\ Excused <= Excused' /\ crashes.bridge \in Nat /\ Len(pushed) \in Nat
      /\ Cardinality(InHand) \in Nat /\ Cardinality(Writing) \in Nat
  <2>1. failures \in Nat /\ failures' \in Nat /\ reread \in Nat /\ reread' = reread
      BY Bounds DEF MetricsInv, QueueType, bridgeVars
  <2>2. Excused \in Nat /\ Excused' \in Nat /\ Excused <= Excused'
    <3>1. Excused = failures + reread /\ Excused' = failures' + reread
        BY <2>1 DEF Excused
    <3>2. failures <= failures'
        OBVIOUS
    <3>3. /\ failures + reread \in Nat /\ failures' + reread \in Nat
          /\ failures + reread <= failures' + reread
        BY <2>1, <3>2, SameAdded, Zenon
    <3> QED BY <3>1, <3>3, Zenon
  <2>3. Cardinality(InHand) \in Nat /\ Cardinality(Writing) \in Nat
      BY Counts DEF MetricsInv
  <2> QED BY <2>2, <2>3, Bounds DEF MetricsInv, QueueType
<1>4. LossInv'
    BY <1>2 DEF MetricsInv, LossInv
<1>5. RepeatInv'
  <2>1. Len(pushed) + Cardinality(InHand) + Cardinality(Again)
          <= Cardinality(Carried) + crashes.bridge + Excused + Cardinality(Writing)
      BY DEF MetricsInv, RepeatInv
  <2>2. Cardinality(Again) \in Nat /\ Cardinality(Carried) \in Nat
      BY Counts DEF MetricsInv
  <2>3. Len(pushed) + Cardinality(InHand) + Cardinality(Again)
          <= Cardinality(Carried) + crashes.bridge + Excused' + Cardinality(Writing)
      BY <1>3, <2>1, <2>2, MoreFailures, Zenon
  <2> QED BY <1>2, <2>3 DEF MetricsInv, RepeatInv
<1> QED BY <1>1, <1>4, <1>5

\* The numbers RepeatInv and LossInv add up.
LEMMA Numbers ==
  ASSUME MetricsInv
  PROVE  /\ failures \in Nat /\ reread \in Nat /\ Excused \in Nat /\ crashes.bridge \in Nat /\ Len(pushed) \in Nat
         /\ ptr \in Nat /\ source.line \in Nat
         /\ Handed \in Nat /\ Back \in Nat /\ Reached \in Nat
         /\ Cardinality(InHand) \in Nat /\ Cardinality(Writing) \in Nat
         /\ Cardinality(Carried) \in Nat /\ Cardinality(Again) \in Nat /\ Cardinality(Lost) \in Nat
<1>1. /\ failures \in Nat /\ reread \in Nat /\ Excused \in Nat
      /\ crashes.bridge \in Nat /\ Len(pushed) \in Nat
    BY Bounds DEF MetricsInv, QueueType, Excused
<1>2. /\ Cardinality(InHand) \in Nat /\ Cardinality(Writing) \in Nat
      /\ Cardinality(Carried) \in Nat /\ Cardinality(Again) \in Nat /\ Cardinality(Lost) \in Nat
    BY Counts DEF MetricsInv
<1>3. ptr \in Nat /\ source.line \in Nat /\ Handed \in Nat /\ Back \in Nat /\ Reached \in Nat
    BY Bounds, Counts DEF MetricsInv, BridgeType
<1> QED BY <1>1, <1>2, <1>3
-----------------------------------------------------------------------------
(* The steps of the bridge.                                                *)

\* A step that hands nothing over, writes nothing and takes nothing in hand.
LEMMA SameHands ==
  ASSUME MetricsInv, BridgeType', QueueType',
         UNCHANGED <<agentVars, pushed, place, ptr, dropped, failures, reread>>,
         crashes'.bridge = crashes.bridge,
         Handed' = Handed, InHand' = InHand, Writing' = Writing
  PROVE  MetricsInv'
<1>1. Lost' = Lost /\ Again' = Again /\ Carried' = Carried
    BY DEF Lost, Again, Carried, Back, Reached, EventsPushed, Messages
<1>2. LossInv' /\ RepeatInv'
    BY <1>1 DEF MetricsInv, LossInv, RepeatInv, Excused
<1> QED BY <1>2, AgentStays DEF MetricsInv

LEMMA ReadLineInv == ASSUME MetricsInv, ReadLine PROVE MetricsInv'
<1>1. /\ source.step = "tail" /\ source.line < N /\ source.line \in 0..N
      /\ source' = [step |-> "send", line |-> source.line + 1]
      /\ UNCHANGED <<ptr, bridge, stopping, dropped, pushed, place, reread, agentVars, crashes, failures>>
    BY DEF ReadLine, MetricsInv, BridgeType
<1>2. BridgeType' /\ QueueType'
    BY <1>1, Bounds DEF MetricsInv, BridgeType, QueueType, Messages
<1>3. Handed' = Handed /\ InHand' = InHand /\ Writing' = Writing
    BY <1>1, Bounds DEF Handed, InHand, Writing
<1> QED BY <1>1, <1>2, <1>3, SameHands

LEMMA StopInv == ASSUME MetricsInv, Stop \/ LinesEnd \/ LoopCloses PROVE MetricsInv'
<1>1. /\ UNCHANGED <<ptr, dropped, pushed, place, reread, agentVars, crashes, failures>>
      /\ BridgeType' /\ Handed' = Handed /\ InHand' = InHand /\ Writing' = Writing
    BY DEF Stop, LinesEnd, LoopCloses, MetricsInv, BridgeType, Handed, InHand, Writing
<1>2. QueueType'
    BY <1>1 DEF MetricsInv, QueueType, Messages
<1> QED BY <1>1, <1>2, SameHands

\* A line that is handed over comes after every line the source has read since it was
\* started: it is a new one, or it is being read again and was counted in Again.
LEMMA HandOverInv == ASSUME MetricsInv, HandOver PROVE MetricsInv'
<1> DEFINE e == source.line
<1>1. /\ source.step = "send" /\ bridge.step = "select"
      /\ source' = [source EXCEPT !.step = "write"] /\ bridge' = [step |-> "handle", event |-> e]
      /\ UNCHANGED <<ptr, stopping, dropped, pushed, place, reread, agentVars, crashes, failures>>
      /\ e \in 1..N
    BY Bounds DEF HandOver, MetricsInv, BridgeType
<1>2. BridgeType' /\ QueueType' /\ source'.step = "write" /\ source'.line = e
    BY <1>1 DEF MetricsInv, BridgeType, QueueType, Messages
<1>3. /\ InHand = {} /\ InHand' = {e} /\ Writing = {}
      /\ Handed = e - 1 /\ Handed' = e
    BY <1>1, <1>2 DEF InHand, Writing, Handed
<1>4. /\ Carried' = Carried \cup {e}
      /\ Cardinality(Carried') = IF e \in Carried THEN Cardinality(Carried) ELSE Cardinality(Carried) + 1
  <2>1. Carried' = Carried \cup {e}
      BY <1>1, <1>3 DEF Carried, EventsPushed, Messages
  <2> QED BY <2>1, Counts, FS_AddElement DEF MetricsInv
<1>5. e \in Nat /\ ptr \in Nat /\ \A x \in Carried : x \in Nat
  <2>1. Carried \subseteq 1..N /\ N \in Nat
      BY Counts, Bounds DEF MetricsInv, Events
  <2> QED BY <1>1, <2>1, Numbers
<1>6. /\ Len(pushed) \in Nat /\ Cardinality(Again) \in Nat /\ Cardinality(Carried) \in Nat
      /\ crashes.bridge \in Nat /\ Excused \in Nat
      /\ Cardinality(InHand) = 0 /\ Cardinality(InHand') = 1 /\ Cardinality(Writing) = 0
    BY <1>3, Numbers, FS_EmptySet, FS_Singleton
<1>7. Len(pushed) + Cardinality(Again) <= Cardinality(Carried) + crashes.bridge + Excused
    BY <1>6 DEF MetricsInv, RepeatInv
<1>8. Len(pushed) + 1 + Cardinality(Again')
        <= Cardinality(Carried') + crashes.bridge + Excused + Cardinality(Writing')
  <2>1. CASE ptr < e
    <3>1. Writing' = {e} /\ Back = ptr /\ Back' = ptr
        BY <1>1, <1>2, <1>3, <1>5, <2>1 DEF Writing, Back
    <3>2. Again' = Again \cup {e} /\ (e \in Again <=> e \in Carried)
        BY <1>3, <1>4, <1>5, <2>1, <3>1 DEF Again
    <3>3. Cardinality(Again') = IF e \in Carried THEN Cardinality(Again) ELSE Cardinality(Again) + 1
        BY <3>2, Counts, FS_AddElement DEF MetricsInv
    <3>4. Cardinality(Writing') = 1
        BY <3>1, FS_Singleton
    <3>5. CASE e \in Carried
      <4>1. Cardinality(Carried') = Cardinality(Carried) /\ Cardinality(Again') = Cardinality(Again)
          BY <1>4, <3>3, <3>5
      <4> QED BY <1>6, <1>7, <3>4, <4>1
    <3>6. CASE e \notin Carried
      <4>1. Cardinality(Carried') = Cardinality(Carried) + 1 /\ Cardinality(Again') = Cardinality(Again) + 1
          BY <1>4, <3>3, <3>6
      <4> QED BY <1>6, <1>7, <3>4, <4>1
    <3> QED BY <3>5, <3>6
  <2>2. CASE ptr >= e
    <3>1. Writing' = {} /\ Back = e - 1 /\ Back' = e
        BY <1>1, <1>2, <1>3, <1>5, <2>2 DEF Writing, Back
    <3>2. Again' = Again \ {e} /\ (e \in Again <=> e \in Carried)
        BY <1>3, <1>4, <1>5, <3>1 DEF Again
    <3>3. Cardinality(Again') = IF e \in Carried THEN Cardinality(Again) - 1 ELSE Cardinality(Again)
        BY <3>2, Counts, FS_RemoveElement DEF MetricsInv
    <3>4. Cardinality(Writing') = 0
        BY <3>1, FS_EmptySet
    <3>5. CASE e \in Carried
      <4>1. Cardinality(Carried') = Cardinality(Carried) /\ Cardinality(Again') = Cardinality(Again) - 1
          BY <1>4, <3>3, <3>5
      <4> QED BY <1>6, <1>7, <3>4, <4>1
    <3>6. CASE e \notin Carried
      <4>1. Cardinality(Carried') = Cardinality(Carried) + 1 /\ Cardinality(Again') = Cardinality(Again)
          BY <1>4, <3>3, <3>6
      <4> QED BY <1>6, <1>7, <3>4, <4>1
    <3> QED BY <3>5, <3>6
  <2> QED BY <1>5, <2>1, <2>2
<1>9. RepeatInv'
  <2>1. Excused' = Excused
      BY <1>1 DEF Excused
  <2> QED BY <1>1, <1>6, <1>8, <2>1 DEF RepeatInv
<1>10. LossInv'
  <2>1. 1..Reached' \subseteq 1..Reached \cup {e}
      BY <1>1, <1>3, <1>5 DEF Reached
  <2>2. Lost' \subseteq Lost
      BY <1>1, <1>4, <2>1 DEF Lost
  <2>3. Cardinality(Lost') <= Cardinality(Lost) /\ Cardinality(Lost') \in Nat
      BY <2>2, Counts, Smaller DEF MetricsInv
  <2> QED BY <1>1, <2>3, Numbers DEF MetricsInv, LossInv
<1> QED BY <1>1, <1>2, <1>9, <1>10, AgentStays DEF MetricsInv

\* Once the pointer is written no restart hands the line over again.
LEMMA WritePtrInv == ASSUME MetricsInv, WritePtr PROVE MetricsInv'
<1> DEFINE e == source.line
<1>1. /\ source.step = "write" /\ source' = [step |-> "tail", line |-> e] /\ e \in 0..N
      /\ UNCHANGED <<bridge, stopping, dropped, pushed, place, reread, agentVars, crashes>>
    BY DEF WritePtr, Tailing, MetricsInv, BridgeType
<1>2. \/ ptr' = e /\ failures' = failures
      \/ ptr' = ptr /\ failures' = failures + 1 /\ failures < Failures
    BY DEF WritePtr, Fails
<1>3. BridgeType' /\ QueueType'
  <2>1. failures' \in 0..Failures
      BY <1>2, Bounds DEF MetricsInv, QueueType
  <2> QED BY <1>1, <1>2, <2>1 DEF MetricsInv, BridgeType, QueueType, Messages
<1>4. /\ InHand' = InHand /\ Carried' = Carried /\ Writing' = {}
      /\ Handed' = e /\ Handed = e
    BY <1>1 DEF InHand, Carried, Writing, Handed, EventsPushed, Messages
<1>5. e \in Nat /\ ptr \in Nat /\ \A x \in Carried : x \in Nat
  <2>1. Carried \subseteq 1..N /\ N \in Nat
      BY Counts, Bounds DEF MetricsInv, Events
  <2> QED BY <2>1, Numbers
<1>6. Again' \subseteq Again
  <2>1. Back <= Back' /\ Back \in Nat /\ Back' \in Nat
      BY <1>2, <1>4, <1>5 DEF Back
  <2>2. \A x \in Carried : x > Back' => x > Back
      BY <1>5, <2>1
  <2> QED BY <1>4, <2>2 DEF Again
<1>7. /\ Cardinality(Again') <= Cardinality(Again) /\ Cardinality(Again') \in Nat
      /\ ptr' = e /\ ptr < e => Cardinality(Again') <= Cardinality(Again) - 1
  <2>1. IsFiniteSet(Again) /\ Cardinality(Again) \in Nat
      BY Counts DEF MetricsInv
  <2>2. Cardinality(Again') <= Cardinality(Again) /\ Cardinality(Again') \in Nat
      BY <1>6, <2>1, Smaller
  <2>3. CASE ptr' = e /\ ptr < e
    <3>1. Writing = {e} /\ Back = ptr /\ Back' = e
        BY <1>1, <1>4, <1>5, <2>3 DEF Writing, Back
    <3>2. e \in Again /\ e \notin Again'
        BY <1>4, <1>5, <2>3, <3>1 DEF Again
    <3>3. Again' \subseteq Again \ {e}
        BY <1>6, <3>2
    <3>4. IsFiniteSet(Again \ {e}) /\ Cardinality(Again \ {e}) = Cardinality(Again) - 1
        BY <2>1, <3>2, FS_RemoveElement
    <3>5. Cardinality(Again') <= Cardinality(Again) - 1
        BY <3>3, <3>4, Smaller
    <3> QED BY <2>2, <3>5
  <2> QED BY <2>2, <2>3
<1>8. RepeatInv'
  <2>1. /\ Len(pushed) \in Nat /\ Cardinality(Again) \in Nat /\ Cardinality(Carried) \in Nat
        /\ crashes.bridge \in Nat /\ failures \in Nat /\ reread \in Nat
        /\ Cardinality(InHand) \in Nat /\ Cardinality(Writing') = 0
      BY <1>4, Numbers, FS_EmptySet
  <2>2. Len(pushed) + Cardinality(InHand) + Cardinality(Again)
           <= Cardinality(Carried) + crashes.bridge + (failures + reread) + Cardinality(Writing)
      BY DEF MetricsInv, RepeatInv, Excused
  <2>3. Len(pushed) + Cardinality(InHand) + Cardinality(Again')
           <= Cardinality(Carried) + crashes.bridge + (failures' + reread)
    <3>1. CASE ptr' = e /\ failures' = failures /\ ptr < e
      <4>1. Cardinality(Writing) = 1
        <5>1. Writing = {e}
            BY <1>1, <3>1 DEF Writing
        <5> QED BY <5>1, FS_Singleton
      <4>2. Cardinality(Again') <= Cardinality(Again) - 1 /\ Cardinality(Again') \in Nat
          BY <1>7, <3>1
      <4> QED BY <2>1, <2>2, <3>1, <4>1, <4>2
    <3>2. CASE ptr' = e /\ failures' = failures /\ ~(ptr < e)
      <4>1. Cardinality(Writing) = 0
        <5>1. Writing = {}
            BY <1>5, <3>2 DEF Writing
        <5> QED BY <5>1, FS_EmptySet
      <4> QED BY <1>7, <2>1, <2>2, <3>2, <4>1
    <3>3. CASE failures' = failures + 1
      <4>1. Cardinality(Writing) \in {0, 1}
          BY Counts DEF MetricsInv
      <4> QED BY <1>7, <2>1, <2>2, <3>3, <4>1
    <3> QED BY <1>2, <3>1, <3>2, <3>3
  <2>4. failures' \in Nat
      BY <1>2, <2>1
  <2> QED BY <1>1, <1>4, <1>7, <2>1, <2>3, <2>4 DEF RepeatInv, Excused
<1>9. LossInv'
  <2>1. Reached' <= Reached /\ Reached \in Nat /\ Reached' \in Nat
      BY <1>2, <1>4, <1>5 DEF Reached
  <2>2. Lost' \subseteq Lost
    <3>1. 1..Reached' \subseteq 1..Reached
        BY <2>1
    <3> QED BY <1>1, <1>4, <3>1 DEF Lost
  <2>3. Cardinality(Lost') <= Cardinality(Lost) /\ Cardinality(Lost') \in Nat
      BY <2>2, Counts, Smaller DEF MetricsInv
  <2> QED BY <1>1, <2>3, Numbers DEF MetricsInv, LossInv
<1> QED BY <1>1, <1>3, <1>8, <1>9, AgentStays DEF MetricsInv

\* Without the event in hand at most one event less is carried.
LEMMA GivenUp ==
  ASSUME MetricsInv
  PROVE  /\ IsFiniteSet(EventsPushed) /\ Cardinality(EventsPushed) \in Nat
         /\ Cardinality(Carried) <= Cardinality(EventsPushed) + Cardinality(InHand)
<1>1. IsFiniteSet(EventsPushed) /\ Cardinality(EventsPushed) \in Nat
    BY Counts, Smaller DEF MetricsInv, Carried
<1>2. CASE bridge.step = "handle"
  <2>1. Carried = EventsPushed \cup {bridge.event} /\ Cardinality(InHand) = 1
      BY <1>2, Counts DEF Carried, InHand, MetricsInv
  <2>2. \/ Cardinality(EventsPushed \cup {bridge.event}) = Cardinality(EventsPushed)
        \/ Cardinality(EventsPushed \cup {bridge.event}) = Cardinality(EventsPushed) + 1
      BY <1>1, FS_AddElement
  <2> QED BY <1>1, <2>1, <2>2
<1>3. CASE bridge.step # "handle"
  <2>1. Carried = EventsPushed /\ Cardinality(InHand) = 0
      BY <1>3, Counts DEF Carried, InHand, MetricsInv
  <2> QED BY <1>1, <2>1
<1> QED BY <1>2, <1>3

LEMMA SeqOf ==
  ASSUME NEW n \in Nat, NEW S, NEW f \in [1..n -> S]
  PROVE  f \in Seq(S) /\ Len(f) = n
  OBVIOUS

LEMMA OfSeq ==
  ASSUME NEW S, NEW f \in Seq(S)
  PROVE  f \in [1..Len(f) -> S]
  OBVIOUS

LEMMA PushedInv ==
  ASSUME MetricsInv, bridge.step = "handle",
         pushed' = Append(pushed, bridge.event), place' = Append(place, "ready"), bridge' = Selecting,
         UNCHANGED <<ptr, source, stopping, dropped, reread, agentVars, crashes, failures>>
  PROVE  MetricsInv'
<1> DEFINE e == bridge.event
<1>1. e \in Events /\ pushed \in Seq(Events) /\ Messages = 1..Len(pushed) /\ Len(pushed) \in Nat
    BY Bounds DEF MetricsInv, BridgeType, QueueType, Events, Messages
<1>2. /\ pushed' \in Seq(Events) /\ Len(pushed') = Len(pushed) + 1 /\ Messages' = 1..(Len(pushed) + 1)
      /\ \A m \in Messages : pushed'[m] = pushed[m]
      /\ pushed'[Len(pushed) + 1] = e
    BY <1>1 DEF Messages
<1>3. /\ place' \in [Messages' -> {"ready", "sent", "acked"}]
      /\ \A m \in Messages : place'[m] = place[m]
      /\ place'[Len(pushed) + 1] = "ready"
  <2>1. place \in Seq({"ready", "sent", "acked"}) /\ Len(place) = Len(pushed)
    <3>1. place \in [1..Len(pushed) -> {"ready", "sent", "acked"}]
        BY <1>1 DEF MetricsInv, QueueType
    <3>2. Len(pushed) \in Nat
        BY <1>1
    <3> QED BY <3>1, <3>2, SeqOf
  <2>2. /\ place' \in Seq({"ready", "sent", "acked"}) /\ Len(place') = Len(pushed) + 1
        /\ \A m \in 1..Len(pushed) : place'[m] = place[m]
        /\ place'[Len(pushed) + 1] = "ready"
      BY <2>1
  <2>3. place' \in [1..(Len(pushed) + 1) -> {"ready", "sent", "acked"}]
    <3>1. place' \in [1..Len(place') -> {"ready", "sent", "acked"}]
        BY <2>2, OfSeq
    <3> QED BY <2>2, <3>1
  <2> QED BY <1>1, <1>2, <2>2, <2>3
<1>4. BridgeType' /\ QueueType'
  <2>1. bridge' \in [step : {"select", "handle", "ended"}, event : 0..N] /\ bridge'.step = "select"
      BY Bounds DEF Selecting
  <2> QED BY <1>2, <1>3, <2>1 DEF MetricsInv, BridgeType, QueueType
<1>5. EventsPushed' = EventsPushed \cup {e}
    BY <1>1, <1>2 DEF EventsPushed
<1>6. /\ InHand = {e} /\ InHand' = {} /\ Carried' = Carried /\ Writing' = Writing
      /\ Back' = Back /\ Reached' = Reached
    BY <1>5 DEF InHand, Carried, Writing, Handed, Back, Reached, Selecting
<1>7. Lost' = Lost /\ Again' = Again /\ Excused' = Excused
    BY <1>6 DEF Lost, Again, Excused
<1>8. RepeatInv'
  <2>1. Cardinality(InHand) = 1 /\ Cardinality(InHand') = 0
      BY <1>6, FS_EmptySet, FS_Singleton
  <2> QED BY <1>2, <1>6, <1>7, <2>1, Counts, Numbers DEF MetricsInv, RepeatInv
<1>9. LossInv'
    BY <1>6, <1>7 DEF MetricsInv, LossInv
<1>10. AgentType'
    BY <1>1, <1>2 DEF MetricsInv, AgentType, agentVars
<1>11. Recorded'
  <2>1. AckedIsRecorded'
      BY <1>1, <1>2, <1>3 DEF MetricsInv, Recorded, AckedIsRecorded, agentVars
  <2>2. agent.step # "wait" => Event' = Event
      BY <1>2 DEF MetricsInv, AgentType, Event, agentVars
  <2> QED BY <2>1, <2>2 DEF MetricsInv, Recorded, agentVars
<1> QED BY <1>4, <1>8, <1>9, <1>10, <1>11 DEF MetricsInv

LEMMA OneLess ==
  ASSUME NEW l \in Nat, NEW a \in Nat, NEW b \in Nat, NEW c \in Nat, NEW d \in Nat,
         NEW k \in Nat, NEW f \in Nat, NEW w \in Nat,
         l + 1 + a <= c + k + f + w, b <= a, c <= d + 1
  PROVE  l + 0 + b <= d + k + (f + 1) + w
  OBVIOUS

LEMMA Accounted ==
  ASSUME NEW l \in Nat, NEW h \in Nat, NEW a \in Nat, NEW c \in Nat, NEW p \in Nat,
         NEW k \in Nat, NEW f \in Nat, NEW w \in Nat,
         l + h + a <= c + k + f + w, w <= a, c <= p + h
  PROVE  l - p <= k + f
  OBVIOUS

LEMMA PushFailsInv ==
  ASSUME MetricsInv, bridge.step = "handle",
         dropped' = dropped \cup {bridge.event}, bridge' = Selecting, Fails,
         UNCHANGED <<ptr, source, stopping, pushed, place, reread, agentVars, crashes>>
  PROVE  MetricsInv'
<1> DEFINE e == bridge.event
<1>1. BridgeType' /\ QueueType'
  <2>1. e \in Events
      BY Bounds DEF MetricsInv, BridgeType, Events
  <2>2. bridge' \in [step : {"select", "handle", "ended"}, event : 0..N] /\ bridge'.step = "select"
      BY Bounds DEF Selecting
  <2>3. failures' \in 0..Failures
      BY Bounds DEF MetricsInv, QueueType, Fails
  <2> QED BY <2>1, <2>2, <2>3 DEF MetricsInv, BridgeType, QueueType, Messages
<1>2. /\ InHand = {e} /\ InHand' = {} /\ Carried' = EventsPushed /\ Carried = EventsPushed \cup {e}
      /\ Writing' = Writing /\ Back' = Back /\ Reached' = Reached
    BY DEF InHand, Carried, Writing, Handed, Back, Reached, Selecting, EventsPushed, Messages
<1>3. Lost' = Lost /\ Again' \subseteq Again
    BY <1>2 DEF Lost, Again
<1>4. Cardinality(Again') <= Cardinality(Again) /\ Cardinality(Again') \in Nat
    BY <1>3, Counts, Smaller DEF MetricsInv
<1>5. RepeatInv'
  <2>1. Cardinality(InHand) = 1 /\ Cardinality(InHand') = 0 /\ Excused' = Excused + 1
    <3>1. failures' = failures + 1 /\ failures \in Nat /\ reread \in Nat /\ reread' = reread
        BY Numbers DEF Fails
    <3>2. Excused' = Excused + 1
        BY <3>1 DEF Excused
    <3> QED BY <1>2, <3>2, FS_EmptySet, FS_Singleton
  <2>2. Cardinality(Carried) <= Cardinality(Carried') + 1
      BY <1>2, <2>1, GivenUp
  <2>3. Len(pushed) + 1 + Cardinality(Again)
          <= Cardinality(Carried) + crashes.bridge + Excused + Cardinality(Writing)
      BY <2>1 DEF MetricsInv, RepeatInv
  <2>4. Cardinality(Carried') \in Nat
      BY <1>2, GivenUp
  <2>5. Len(pushed) + 0 + Cardinality(Again')
          <= Cardinality(Carried') + crashes.bridge + (Excused + 1) + Cardinality(Writing)
    <3>1. /\ Len(pushed) \in Nat /\ Cardinality(Again) \in Nat /\ Cardinality(Carried) \in Nat
          /\ crashes.bridge \in Nat /\ Excused \in Nat /\ Cardinality(Writing) \in Nat
        BY Numbers
    <3> QED BY <1>4, <2>2, <2>3, <2>4, <3>1, OneLess, Zenon
  <2> QED BY <1>2, <2>1, <2>5 DEF MetricsInv, RepeatInv
<1>6. LossInv'
    BY <1>2, <1>3 DEF MetricsInv, LossInv
<1> QED BY <1>1, <1>5, <1>6, AgentStays DEF MetricsInv

\* A start after an orderly end loses and repeats nothing, one after a crash at most
\* the event in hand and the line that was not yet written; either one repeats the
\* lines behind the pointer when that cannot be read.
LEMMA Restarts ==
  ASSUME NEW l \in Nat, NEW h \in Nat, NEW a \in Nat, NEW b \in Nat, NEW c \in Nat, NEW d \in Nat,
         NEW k \in Nat, NEW m \in Nat, NEW f \in Nat, NEW g \in Nat, NEW w \in Nat,
         l + h + a <= c + k + f + w, b + f <= a + g, c <= d + h, k + w <= m
  PROVE  l + 0 + b <= d + m + g + 0
  OBVIOUS

LEMMA ReadAgain ==
  ASSUME NEW S, IsFiniteSet(S), NEW n \in Nat, NEW T, T \subseteq S \cup 1..n
  PROVE  IsFiniteSet(T) /\ Cardinality(T) \in Nat /\ Cardinality(T) <= Cardinality(S) + n
<1>1. IsFiniteSet(1..n) /\ Cardinality(1..n) = n
    BY FS_Interval
<1>2. /\ IsFiniteSet(S \cup 1..n)
      /\ Cardinality(S \cup 1..n) = Cardinality(S) + Cardinality(1..n) - Cardinality(S \cap 1..n)
    BY <1>1, FS_Union
<1>3. Cardinality(S) \in Nat /\ Cardinality(S \cap 1..n) \in Nat /\ Cardinality(S \cup 1..n) \in Nat
  <2>1. IsFiniteSet(S \cap 1..n)
      BY FS_Subset
  <2> QED BY <1>2, <2>1, FS_CardinalityType
<1>4. Cardinality(S \cup 1..n) <= Cardinality(S) + n
    BY <1>1, <1>2, <1>3
<1>5. IsFiniteSet(T) /\ Cardinality(T) \in Nat /\ Cardinality(T) <= Cardinality(S \cup 1..n)
    BY <1>2, Smaller
<1> QED BY <1>3, <1>4, <1>5

LEMMA RestartedInv ==
  ASSUME MetricsInv, Restarted, place' = place,
         \/ source.step = "ended" /\ bridge.step = "ended" /\ UNCHANGED crashes
         \/ crashes.bridge < Crashes /\ crashes' = [crashes EXCEPT !.bridge = @ + 1]
  PROVE  MetricsInv'
<1>1. /\ bridge' = [step |-> "select", event |-> 0] /\ stopping' = FALSE
      /\ UNCHANGED <<ptr, dropped, pushed, place, agentVars>>
    BY DEF Restarted, Selecting
<1>2. \/ source' = [step |-> "tail", line |-> ptr] /\ UNCHANGED <<failures, reread>>
      \/ /\ source' = [step |-> "tail", line |-> 0]
         /\ failures < Failures /\ failures' = failures + 1 /\ reread' = reread + ptr
    BY DEF Restarted, Tailing, Fails
<1>3. crashes.bridge \in Nat /\ crashes' \in [bridge : 0..Crashes, controller : 0..Crashes]
    BY Bounds DEF MetricsInv, QueueType
<1>4. \/ crashes'.bridge = crashes.bridge /\ InHand = {} /\ Writing = {}
      \/ crashes'.bridge = crashes.bridge + 1
    BY DEF MetricsInv, QueueType, InHand, Writing
<1>5. ptr \in 0..N /\ ptr \in Nat /\ source' \in [step : {"tail"}, line : {0, ptr}]
    BY <1>2, Numbers DEF MetricsInv, BridgeType
<1>6. BridgeType' /\ QueueType'
  <2>1. bridge' \in [step : {"select", "handle", "ended"}, event : 0..N] /\ bridge'.step = "select"
      BY <1>1, Bounds
  <2>2. source' \in [step : {"tail", "send", "write", "ended"}, line : 0..N] /\ source'.step = "tail"
      BY <1>5, Bounds
  <2>3. failures' \in 0..Failures /\ reread' \in Nat
    <3>1. failures \in 0..Failures /\ reread \in Nat
        BY DEF MetricsInv, QueueType
    <3> QED BY <1>2, <1>5, <3>1, Bounds
  <2> QED BY <1>1, <1>3, <2>1, <2>2, <2>3 DEF MetricsInv, BridgeType, QueueType, Messages
<1>7. /\ InHand' = {} /\ Writing' = {} /\ Carried' = EventsPushed
      /\ Reached' = ptr /\ Reached' <= Reached
      /\ Handed' = source'.line
  <2>1. InHand' = {} /\ Writing' = {} /\ Carried' = EventsPushed /\ Handed' = source'.line
      BY <1>1, <1>5 DEF InHand, Writing, Carried, Handed, EventsPushed, Messages
  <2>2. Reached' = ptr /\ ptr <= Reached
      BY <1>1, <1>5, <2>1, Numbers DEF Reached
  <2> QED BY <2>1, <2>2
<1>8. Cardinality(Again') \in Nat /\ Cardinality(Again') + Excused <= Cardinality(Again) + Excused'
  <2>1. IsFiniteSet(Again) /\ Cardinality(Again) \in Nat
      BY Counts DEF MetricsInv
  <2>2. Back \in Nat /\ Back <= ptr /\ failures \in Nat /\ reread \in Nat
      BY Numbers DEF Back
  <2>3. \A x \in Carried : x \in Nat /\ x >= 1
    <3>1. Carried \subseteq 1..N /\ N \in Nat
        BY Counts, Bounds DEF MetricsInv, Events
    <3> QED BY <3>1
  <2>4. Again' = {x \in EventsPushed : x > Back'}
      BY <1>7 DEF Again
  <2>5. EventsPushed \subseteq Carried
      BY DEF Carried
  <2>6. CASE source' = [step |-> "tail", line |-> ptr] /\ UNCHANGED <<failures, reread>>
    <3>1. Back' = ptr /\ Excused' = Excused /\ Excused \in Nat
        BY <1>1, <1>5, <1>7, <2>6, Numbers DEF Back, Excused
    <3>2. \A x \in Carried : x > ptr => x > Back
        BY <1>5, <2>2, <2>3
    <3>3. Again' \subseteq Again
        BY <2>4, <2>5, <3>1, <3>2 DEF Again
    <3>4. Cardinality(Again') <= Cardinality(Again) /\ Cardinality(Again') \in Nat
        BY <2>1, <3>3, Smaller
    <3> QED BY <2>1, <3>1, <3>4
  <2>7. CASE failures' = failures + 1 /\ reread' = reread + ptr
    <3>1. \A x \in Carried : x > Back \/ x \in 1..Back
        BY <2>2, <2>3
    <3>2. Again' \subseteq Again \cup 1..Back
        BY <2>4, <2>5, <3>1 DEF Again
    <3>3. Cardinality(Again') \in Nat /\ Cardinality(Again') <= Cardinality(Again) + Back
        BY <2>1, <2>2, <3>2, ReadAgain
    <3>4. Excused = failures + reread /\ Excused' = failures + 1 + reread + ptr
        BY <2>2, <2>7, <1>5 DEF Excused
    <3> QED BY <1>5, <2>1, <2>2, <3>3, <3>4
  <2> QED BY <1>2, <2>6, <2>7
<1>9. RepeatInv'
  <2>1. Cardinality(InHand') = 0 /\ Cardinality(Writing') = 0 /\ Cardinality({}) = 0
      BY <1>7, FS_EmptySet
  <2>2. Cardinality(Writing) \in {0, 1}
      BY Counts DEF MetricsInv
  <2>3. Cardinality(Carried) <= Cardinality(Carried') + Cardinality(InHand)
      BY <1>7, GivenUp
  <2>4. crashes.bridge + Cardinality(Writing) <= crashes'.bridge
    <3>1. CASE crashes'.bridge = crashes.bridge /\ Writing = {}
        BY <2>1, <3>1, Numbers
    <3>2. CASE crashes'.bridge = crashes.bridge + 1
        BY <2>2, <3>2, Numbers
    <3> QED BY <1>4, <3>1, <3>2
  <2>5. crashes'.bridge \in Nat /\ Cardinality(Carried') \in Nat /\ Excused' \in Nat
    <3>1. failures \in Nat /\ reread \in Nat /\ crashes.bridge \in Nat
        BY Numbers
    <3>2. failures' \in Nat /\ reread' \in Nat
        BY <1>2, <1>5, <3>1
    <3>3. Excused' \in Nat
        BY <3>2 DEF Excused
    <3>4. Cardinality(Carried') \in Nat
        BY <1>7, GivenUp
    <3> QED BY <1>4, <3>1, <3>3, <3>4
  <2>6. Len(pushed) + Cardinality(InHand) + Cardinality(Again)
          <= Cardinality(Carried) + crashes.bridge + Excused + Cardinality(Writing)
      BY DEF MetricsInv, RepeatInv
  <2>7. Len(pushed) + 0 + Cardinality(Again') <= Cardinality(Carried') + crashes'.bridge + Excused' + 0
    <3>1. /\ Len(pushed) \in Nat /\ Cardinality(Again) \in Nat /\ Cardinality(Carried) \in Nat
          /\ crashes.bridge \in Nat /\ Excused \in Nat /\ Cardinality(InHand) \in Nat
          /\ Cardinality(Writing) \in Nat
        BY Numbers
    <3>2. Cardinality(Again') \in Nat
        BY <1>8
    <3>3. Cardinality(Again') + Excused <= Cardinality(Again) + Excused'
        BY <1>8
    <3>4. crashes'.bridge \in Nat
        BY <2>5
    <3>5. Cardinality(Carried') \in Nat
        BY <2>5
    <3>6. Excused' \in Nat
        BY <2>5
    <3> QED BY <2>3, <2>4, <2>6, <3>1, <3>2, <3>3, <3>4, <3>5, <3>6, Restarts, Zenon
  <2> QED BY <1>1, <2>1, <2>7 DEF RepeatInv
<1>10. LossInv'
  <2>1. Lost' \subseteq Lost \cup InHand
    <3>1. Reached \in Nat /\ Reached' \in Nat /\ Reached' <= Reached
        BY <1>5, <1>7, Numbers
    <3>2. 1..Reached' \subseteq 1..Reached
        BY <3>1
    <3> QED BY <1>1, <1>7, <3>2 DEF Lost, Carried
  <2>2. Cardinality(Lost) <= crashes.bridge
      BY DEF MetricsInv, LossInv
  <2>3. Cardinality(Lost') <= crashes'.bridge
    <3>1. CASE crashes'.bridge = crashes.bridge /\ InHand = {}
      <4>1. Lost' \subseteq Lost
          BY <2>1, <3>1
      <4>2. Cardinality(Lost') <= Cardinality(Lost) /\ Cardinality(Lost') \in Nat
          BY <4>1, Counts, Smaller DEF MetricsInv
      <4> QED BY <2>2, <3>1, <4>2, Numbers
    <3>2. CASE crashes'.bridge = crashes.bridge + 1
      <4>1. Lost' \subseteq Lost \cup {bridge.event}
          BY <2>1 DEF InHand
      <4>2. /\ IsFiniteSet(Lost \cup {bridge.event})
            /\ Cardinality(Lost \cup {bridge.event}) <= Cardinality(Lost) + 1
            /\ Cardinality(Lost \cup {bridge.event}) \in Nat
        <5>1. /\ IsFiniteSet(Lost \cup {bridge.event})
              /\ \/ Cardinality(Lost \cup {bridge.event}) = Cardinality(Lost)
                 \/ Cardinality(Lost \cup {bridge.event}) = Cardinality(Lost) + 1
            BY Counts, FS_AddElement DEF MetricsInv
        <5> QED BY <5>1, Numbers
      <4>3. Cardinality(Lost') <= Cardinality(Lost \cup {bridge.event}) /\ Cardinality(Lost') \in Nat
          BY <4>1, <4>2, Smaller
      <4>4. Cardinality(Lost) \in Nat /\ crashes.bridge \in Nat
          BY Numbers
      <4> QED BY <2>2, <3>2, <4>2, <4>3, <4>4
    <3> QED BY <1>4, <3>1, <3>2
  <2> QED BY <2>3 DEF LossInv
<1> QED BY <1>1, <1>6, <1>9, <1>10, AgentStays DEF MetricsInv
-----------------------------------------------------------------------------
(* The steps of the controller.                                            *)

LEMMA RequeuedType ==
  ASSUME MetricsInv
  PROVE  /\ Requeued \in [Messages -> {"ready", "sent", "acked"}]
         /\ \A m \in Messages : Requeued[m] = "acked" => place[m] = "acked"
  BY DEF Requeued, MetricsInv, QueueType

\* What the steps below leave of the bridge, and what they have to show.
LEMMA AgentSteps ==
  ASSUME MetricsInv, UNCHANGED <<bridgeVars, pushed>>, crashes'.bridge = crashes.bridge,
         \/ failures' = failures
         \/ failures < Failures /\ failures' = failures + 1,
         crashes' \in [bridge : 0..Crashes, controller : 0..Crashes],
         place' \in [Messages -> {"ready", "sent", "acked"}],
         AgentType', Recorded'
  PROVE  MetricsInv'
<1>1. failures' \in 0..Failures /\ failures <= failures'
  <2>1. failures \in 0..Failures /\ Failures \in Nat
      BY Bounds DEF MetricsInv, QueueType
  <2> QED BY <2>1
<1>2. QueueType'
    BY <1>1 DEF MetricsInv, QueueType, Messages, bridgeVars
<1> QED BY <1>1, <1>2, BridgeStays DEF MetricsInv

\* Messages on their way to the loop: the loop has none of them yet.
LEMMA DeliveryInv ==
  ASSUME MetricsInv, Connect \/ Deliver \/ Disconnects \/ NoticesDisconnect
  PROVE  MetricsInv'
<1>1. /\ UNCHANGED <<bridgeVars, pushed, recorded, nameless, queue, crashes>>
      /\ \/ failures' = failures
         \/ failures < Failures /\ failures' = failures + 1
      /\ agent' = agent \/ agent' = [agent EXCEPT !.fresh = FALSE]
    BY DEF Connect, Deliver, Disconnects, NoticesDisconnect, Fails
<1>2. Messages = 1..Len(pushed) /\ Len(pushed) \in Nat
    BY DEF MetricsInv, QueueType, Messages
<1>3. /\ place' \in [Messages -> {"ready", "sent", "acked"}]
      /\ \A m \in Messages : place'[m] = "acked" => place[m] = "acked"
  <2>1. CASE Connect \/ NoticesDisconnect
      BY <2>1 DEF Connect, NoticesDisconnect, MetricsInv, QueueType
  <2>2. CASE Deliver
      BY <2>2 DEF Deliver, MetricsInv, QueueType
  <2>3. CASE Disconnects
      BY <2>3, RequeuedType DEF Disconnects
  <2> QED BY <2>1, <2>2, <2>3
<1>4. /\ amqp' \in [step : {"dial", "receive", "send"}, message : 0..Len(pushed), connected : BOOLEAN]
      /\ amqp'.step = "send" => amqp'.message \in Messages
  <2>1. CASE Connect \/ NoticesDisconnect
    <3>1. PICK step \in {"dial", "receive"}, c \in BOOLEAN :
            amqp' = [step |-> step, message |-> 0, connected |-> c]
      <4>1. CASE Connect
          BY <4>1 DEF Connect
      <4>2. CASE NoticesDisconnect
          BY <4>2 DEF NoticesDisconnect, Dialing
      <4> QED BY <2>1, <4>1, <4>2
    <3>2. 0 \in 0..Len(pushed)
        BY <1>2
    <3>3. step \in {"dial", "receive", "send"} /\ step # "send"
        OBVIOUS
    <3> QED BY <3>1, <3>2, <3>3
  <2>2. CASE Deliver
    <3>1. PICK m \in Messages : amqp' = [amqp EXCEPT !.step = "send", !.message = m]
        BY <2>2 DEF Deliver
    <3>2. m \in 0..Len(pushed)
        BY <1>2
    <3> QED BY <3>1, <3>2 DEF MetricsInv, AgentType
  <2>3. CASE Disconnects
      BY <2>3 DEF Disconnects, MetricsInv, AgentType
  <2> QED BY <2>1, <2>2, <2>3
<1>5. /\ agent' \in [step : {"wait", "record", "enqueue", "ack"}, message : 0..Len(pushed),
                    fresh : BOOLEAN, ack : BOOLEAN]
      /\ agent'.step = agent.step /\ agent'.message = agent.message /\ agent'.ack = agent.ack
    BY <1>1 DEF MetricsInv, AgentType
<1>6. AgentType'
    BY <1>1, <1>4, <1>5 DEF MetricsInv, AgentType, Messages
<1>7. Recorded'
  <2>1. AckedIsRecorded'
      BY <1>1, <1>3 DEF MetricsInv, Recorded, AckedIsRecorded, Messages
  <2>2. Event' = Event
      BY <1>1, <1>5 DEF Event
  <2> QED BY <1>1, <1>5, <2>1, <2>2 DEF MetricsInv, Recorded
<1>8. crashes' \in [bridge : 0..Crashes, controller : 0..Crashes] /\ crashes'.bridge = crashes.bridge
    BY <1>1 DEF MetricsInv, QueueType
<1> QED BY <1>1, <1>3, <1>6, <1>7, <1>8, AgentSteps

\* The loop: an event goes on to be acknowledged only when it was recorded.
LEMMA LoopInv ==
  ASSUME MetricsInv, Take \/ IngestFails \/ Record \/ Enqueue
  PROVE  MetricsInv'
<1>1. /\ UNCHANGED <<bridgeVars, pushed, place, crashes>>
      /\ \/ failures' = failures
         \/ failures < Failures /\ failures' = failures + 1
    BY DEF Take, IngestFails, Record, Enqueue, Fails
<1>2. Messages = 1..Len(pushed) /\ Len(pushed) \in Nat /\ pushed \in Seq(Events)
    BY DEF MetricsInv, QueueType, Messages
<1>3. agent.step # "wait" => Event \in Events
    BY <1>2 DEF MetricsInv, AgentType, Event
<1>4. AgentType' /\ Recorded'
  <2>1. CASE Take
    <3>1. /\ agent' = [step |-> "record", message |-> amqp.message, fresh |-> amqp.connected, ack |-> TRUE]
          /\ amqp' = [amqp EXCEPT !.step = "receive", !.message = 0] /\ amqp.message \in Messages
          /\ UNCHANGED <<recorded, nameless, queue, place, pushed>>
        BY <2>1 DEF Take, MetricsInv, AgentType
    <3>2. AgentType'
      <4>1. amqp.message \in 0..Len(pushed) /\ 0 \in 0..Len(pushed) /\ amqp.connected \in BOOLEAN
          BY <1>2, <3>1 DEF MetricsInv, AgentType
      <4>2. /\ amqp' \in [step : {"dial", "receive", "send"}, message : 0..Len(pushed), connected : BOOLEAN]
            /\ amqp'.step # "send"
          BY <3>1, <4>1 DEF MetricsInv, AgentType
      <4>3. /\ agent' \in [step : {"wait", "record", "enqueue", "ack"}, message : 0..Len(pushed),
                            fresh : BOOLEAN, ack : BOOLEAN]
            /\ agent'.message \in Messages
          BY <3>1, <4>1
      <4> QED BY <3>1, <4>2, <4>3 DEF MetricsInv, AgentType, Messages
    <3>3. Recorded'
        BY <3>1 DEF MetricsInv, Recorded, AckedIsRecorded, Messages
    <3> QED BY <3>2, <3>3
  <2>2. CASE IngestFails
    <3>1. /\ agent' = [step |-> "wait", message |-> 0, fresh |-> FALSE, ack |-> FALSE]
          /\ UNCHANGED <<amqp, recorded, nameless, queue, place, pushed>>
        BY <2>2 DEF IngestFails, Waiting
    <3>2. AgentType'
        BY <1>2, <3>1 DEF MetricsInv, AgentType, Messages
    <3>3. Recorded'
        BY <3>1 DEF MetricsInv, Recorded, AckedIsRecorded, Messages
    <3> QED BY <3>2, <3>3
  <2>3. CASE Record
    <3>1. /\ UNCHANGED <<amqp, queue, place, pushed>> /\ agent.step = "record"
          /\ recorded \subseteq recorded' /\ nameless \subseteq nameless'
          /\ recorded' \cup nameless' \subseteq recorded \cup nameless \cup {Event}
          /\ \/ agent' = [agent EXCEPT !.step = "enqueue"] /\ Event \in recorded' \cup nameless'
             \/ agent' = [agent EXCEPT !.step = "enqueue", !.ack = FALSE]
        BY <2>3 DEF Record
    <3>2. /\ agent'.message = agent.message /\ agent'.message \in Messages /\ agent'.step = "enqueue"
          /\ agent' \in [step : {"wait", "record", "enqueue", "ack"}, message : 0..Len(pushed),
                        fresh : BOOLEAN, ack : BOOLEAN]
          /\ agent'.ack => Event \in recorded' \cup nameless'
        BY <3>1 DEF MetricsInv, AgentType
    <3>3. AgentType'
        BY <1>3, <3>1, <3>2 DEF MetricsInv, AgentType, Messages
    <3>4. Event' = Event
        BY <3>1, <3>2 DEF Event
    <3>5. Recorded'
        BY <3>1, <3>2, <3>4 DEF MetricsInv, Recorded, AckedIsRecorded, Messages
    <3> QED BY <3>3, <3>5
  <2>4. CASE Enqueue
    <3>1. /\ UNCHANGED <<amqp, recorded, nameless, place, pushed>> /\ agent.step = "enqueue"
          /\ queue' = Append(queue, Event) /\ agent' = [agent EXCEPT !.step = "ack"]
        BY <2>4 DEF Enqueue
    <3>2. /\ agent'.message = agent.message /\ agent'.step = "ack" /\ agent'.ack = agent.ack
          /\ agent' \in [step : {"wait", "record", "enqueue", "ack"}, message : 0..Len(pushed),
                        fresh : BOOLEAN, ack : BOOLEAN]
          /\ queue' \in Seq(Events)
        BY <1>3, <3>1 DEF MetricsInv, AgentType
    <3>3. AgentType'
        BY <3>1, <3>2 DEF MetricsInv, AgentType, Messages
    <3>4. Event' = Event
        BY <3>1, <3>2 DEF Event
    <3>5. Recorded'
        BY <3>1, <3>2, <3>4 DEF MetricsInv, Recorded, AckedIsRecorded, Messages
    <3> QED BY <3>3, <3>5
  <2> QED BY <2>1, <2>2, <2>3, <2>4
<1>5. /\ crashes' \in [bridge : 0..Crashes, controller : 0..Crashes] /\ crashes'.bridge = crashes.bridge
      /\ place' \in [Messages -> {"ready", "sent", "acked"}]
    BY <1>1 DEF MetricsInv, QueueType
<1> QED BY <1>1, <1>4, <1>5, AgentSteps

LEMMA AckInv == ASSUME MetricsInv, Ack PROVE MetricsInv'
<1>1. /\ agent.step = "ack" /\ agent' = [step |-> "wait", message |-> 0, fresh |-> FALSE, ack |-> FALSE]
      /\ place' = IF Acks THEN [place EXCEPT ![agent.message] = "acked"] ELSE place
      /\ UNCHANGED <<bridgeVars, pushed, amqp, recorded, nameless, queue, crashes, failures>>
    BY DEF Ack, Waiting
<1>2. Messages = 1..Len(pushed) /\ Len(pushed) \in Nat
    BY DEF MetricsInv, QueueType, Messages
<1>3. agent.message \in Messages /\ (Acks => pushed[agent.message] \in recorded \cup nameless)
    BY <1>1 DEF MetricsInv, AgentType, Recorded, Acks, Event
<1>4. /\ place' \in [Messages -> {"ready", "sent", "acked"}]
      /\ \A m \in Messages : place'[m] = "acked" => place[m] = "acked" \/ (Acks /\ m = agent.message)
    BY <1>1, <1>3 DEF MetricsInv, QueueType
<1>5. AgentType'
    BY <1>1, <1>2 DEF MetricsInv, AgentType, Messages
<1>6. Recorded'
    BY <1>1, <1>3, <1>4 DEF MetricsInv, Recorded, AckedIsRecorded, Messages
<1>7. crashes' \in [bridge : 0..Crashes, controller : 0..Crashes] /\ crashes'.bridge = crashes.bridge
    BY <1>1 DEF MetricsInv, QueueType
<1> QED BY <1>1, <1>4, <1>5, <1>6, <1>7, AgentSteps

LEMMA EnforceInv == ASSUME MetricsInv, Enforce PROVE MetricsInv'
<1>1. /\ queue' = Tail(queue) /\ queue # <<>>
      /\ UNCHANGED <<bridgeVars, pushed, place, amqp, agent, recorded, nameless, crashes, failures>>
    BY DEF Enforce
<1>2. queue' \in Seq(Events)
    BY <1>1 DEF MetricsInv, AgentType
<1>3. AgentType'
    BY <1>1, <1>2 DEF MetricsInv, AgentType, Messages
<1>4. Recorded'
    BY <1>1 DEF MetricsInv, Recorded, AckedIsRecorded, Messages, Event
<1>5. /\ crashes' \in [bridge : 0..Crashes, controller : 0..Crashes] /\ crashes'.bridge = crashes.bridge
      /\ place' \in [Messages -> {"ready", "sent", "acked"}]
    BY <1>1 DEF MetricsInv, QueueType
<1> QED BY <1>1, <1>3, <1>4, <1>5, AgentSteps

\* What was not acknowledged is on the queue again.
LEMMA ControllerCrashesInv == ASSUME MetricsInv, ControllerCrashes PROVE MetricsInv'
<1>1. /\ amqp' = [step |-> "dial", message |-> 0, connected |-> FALSE]
      /\ agent' = [step |-> "wait", message |-> 0, fresh |-> FALSE, ack |-> FALSE]
      /\ queue' = <<>> /\ place' = Requeued
      /\ crashes.controller < Crashes /\ crashes' = [crashes EXCEPT !.controller = @ + 1]
      /\ UNCHANGED <<bridgeVars, pushed, recorded, nameless, failures>>
    BY DEF ControllerCrashes, Dialing, Waiting
<1>2. 0 \in 0..Len(pushed)
    BY DEF MetricsInv, QueueType
<1>3. AgentType'
    BY <1>1, <1>2 DEF MetricsInv, AgentType, Messages
<1>4. Recorded'
    BY <1>1, RequeuedType DEF MetricsInv, Recorded, AckedIsRecorded, Messages
<1>5. crashes' \in [bridge : 0..Crashes, controller : 0..Crashes] /\ crashes'.bridge = crashes.bridge
    BY <1>1, Bounds DEF MetricsInv, QueueType
<1> QED BY <1>1, <1>3, <1>4, <1>5, RequeuedType, AgentSteps
-----------------------------------------------------------------------------
LEMMA MetricsInductive == MetricsInv /\ [MetricsNext]_metricsVars => MetricsInv'
<1> SUFFICES ASSUME MetricsInv, [MetricsNext]_metricsVars PROVE MetricsInv'
    OBVIOUS
<1>1. CASE BridgeNext
  <2>1. CASE Push
      BY <2>1, PushedInv, PushFailsInv DEF Push
  <2>2. CASE StartAgain
      BY <2>2, RestartedInv DEF StartAgain, Restarted
  <2>3. CASE BridgeCrashes
      BY <2>3, RestartedInv DEF BridgeCrashes, Restarted
  <2> QED BY <1>1, <2>1, <2>2, <2>3, ReadLineInv, HandOverInv, WritePtrInv, StopInv DEF BridgeNext
<1>2. CASE AgentNext
    BY <1>2, DeliveryInv, LoopInv, AckInv, EnforceInv, ControllerCrashesInv DEF AgentNext
<1>3. CASE UNCHANGED metricsVars
  <2>1. AgentType' /\ Recorded'
      BY <1>3, AgentStays DEF metricsVars
  <2>2. QueueType'
      BY <1>3 DEF metricsVars, bridgeVars, MetricsInv, QueueType, Messages
  <2>3. crashes'.bridge = crashes.bridge /\ failures <= failures'
      BY <1>3, Numbers DEF metricsVars
  <2> QED BY <1>3, <2>1, <2>2, <2>3, BridgeStays DEF metricsVars, MetricsInv
<1> QED BY <1>1, <1>2, <1>3 DEF MetricsNext

LEMMA MetricsInvariant == MetricsSpec => []MetricsInv
    BY InitInv, MetricsInductive, PTL DEF MetricsSpec

\* The pointer, the steps and the messages always have their types, whatever crashes.
THEOREM MetricsTypeCorrect == MetricsSpec => []MetricsTypeOK
<1>1. MetricsInv => MetricsTypeOK
    BY DEF MetricsInv, MetricsTypeOK, BridgeType, QueueType, AgentType
<1> QED BY <1>1, MetricsInvariant, PTL

\* For any file, a crash of the bridge costs one event at most; nothing else does
\* but a push the queue refused (fileSource.go:89-93, bridge.go:73-78).
THEOREM CrashesLoseOne == MetricsSpec => []LosesOnePerCrash
<1>1. MetricsInv => LosesOnePerCrash
  <2> SUFFICES ASSUME MetricsInv PROVE LosesOnePerCrash
      OBVIOUS
  <2> DEFINE inHand == {e \in {bridge.event} : bridge.step = "handle"}
             lost == 1..ptr \ (EventsPushed \cup dropped \cup inHand)
  <2>1. inHand = InHand
      BY DEF InHand
  <2>2. ptr <= Reached /\ ptr \in Nat /\ Reached \in Nat
      BY Numbers DEF Reached
  <2>3. 1..ptr \subseteq 1..Reached
      BY <2>2
  <2>4. lost \subseteq Lost
      BY <2>1, <2>3 DEF Lost, Carried
  <2> HIDE DEF lost
  <2>5. Cardinality(lost) <= Cardinality(Lost) /\ Cardinality(lost) \in Nat
      BY <2>4, Counts, Smaller DEF MetricsInv
  <2>6. Cardinality(Lost) <= crashes.bridge
      BY DEF MetricsInv, LossInv
  <2>7. Cardinality(lost) <= crashes.bridge
      BY <2>5, <2>6, Numbers
  <2> QED BY <2>7 DEF lost, LosesOnePerCrash
<1> QED BY <1>1, MetricsInvariant, PTL

\* For any file, an event is pushed again only for a crash of the bridge or for a
\* pointer that could not be written, which cost one event each, or for one that
\* could not be read, which costs the lines behind it (fileSource.go:52-55, 89-93).
THEOREM OnlyFailuresRepeat == MetricsSpec => []RepeatsOnlyForFailures
<1>1. MetricsInv => RepeatsOnlyForFailures
  <2> SUFFICES ASSUME MetricsInv PROVE RepeatsOnlyForFailures
      OBVIOUS
  <2>1. Cardinality(Writing) <= Cardinality(Again)
    <3>1. Writing \subseteq Again
      <4>1. source.step = "write" => Handed = source.line
          BY DEF Handed
      <4> QED BY <4>1, Numbers DEF Writing, Again, Back
    <3> QED BY <3>1, Counts, Smaller DEF MetricsInv
  <2>2. Cardinality(Carried) <= Cardinality(EventsPushed) + Cardinality(InHand)
      BY GivenUp
  <2>3. Len(pushed) + Cardinality(InHand) + Cardinality(Again)
          <= Cardinality(Carried) + crashes.bridge + Excused + Cardinality(Writing)
      BY DEF MetricsInv, RepeatInv
  <2>4. /\ Len(pushed) \in Nat /\ Cardinality(InHand) \in Nat /\ Cardinality(Again) \in Nat
        /\ Cardinality(Carried) \in Nat /\ Cardinality(Writing) \in Nat
        /\ crashes.bridge \in Nat /\ Excused \in Nat /\ Cardinality(EventsPushed) \in Nat
      BY Numbers, GivenUp
  <2>5. Len(pushed) - Cardinality(EventsPushed) <= crashes.bridge + Excused
      BY <2>1, <2>2, <2>3, <2>4, Accounted, Zenon
  <2>6. Len(pushed) - Cardinality(EventsPushed) <= crashes.bridge + failures + reread
      BY <2>4, <2>5, Numbers DEF Excused
  <2> QED BY <2>6 DEF RepeatsOnlyForFailures
<1> QED BY <1>1, MetricsInvariant, PTL

\* In every interleaving of deliveries, lost connections, refused writes and
\* crashes a message leaves the queue only when it was recorded (agent.go:53-65).
THEOREM AcknowledgedIsRecorded == MetricsSpec => []AckedIsRecorded
<1>1. MetricsInv => AckedIsRecorded
    BY DEF MetricsInv, Recorded
<1> QED BY <1>1, MetricsInvariant, PTL
=============================================================================
