----------------------------- MODULE UdpTunnel ------------------------------
(***************************************************************************)
(* The frontend of a UDP tunnel (endpoints/udpTunnel/frontend.go): a loop  *)
(* that reads datagrams and keeps a session for each address they come     *)
(* from, and two goroutines per session: one copies from its OpenZiti      *)
(* connection to the address (endpoints.TXer), one closes the session when *)
(* it was idle.  The loop tells the second of each datagram over a channel *)
(* without a buffer, and closing that channel is closing the session.      *)
(*                                                                         *)
(* Each step between two uses of what goroutines share is an action.  Time *)
(* is not counted: a session may be idle for too long at any moment.       *)
(***************************************************************************)
CONSTANTS
  Addresses,   \* the addresses datagrams come from
  Sessions,    \* the sessions (clientConn) that may exist at once
  NoSession

ASSUME UdpAssumption == NoSession \notin Sessions /\ Addresses # {}

VARIABLES
  clients,    \* clients[a]: the session stored for an address, or NoSession
  addr,       \* addr[s]: the address a session was made for
  active,     \* active[s]: its channel, "none" before it is made
  dialed,     \* the sessions whose OpenZiti connection is open
  pc,         \* pc[s][g]: where the goroutine g of a session is
  loop,       \* where the loop is, and the session it serves
  panicked    \* whether the process has died of a misused channel

udpVars == <<clients, addr, active, dialed, pc, loop, panicked>>

Goroutines == {"timeout", "txer"}
AtRead == [step |-> "read", session |-> NoSession]

UdpInit ==
  /\ clients = [a \in Addresses |-> NoSession]
  /\ addr = [s \in Sessions |-> CHOOSE a \in Addresses : TRUE]
  /\ active = [s \in Sessions |-> "none"]
  /\ dialed = {}
  /\ pc = [s \in Sessions |-> [g \in Goroutines |-> "ended"]]
  /\ loop = AtRead
  /\ panicked = FALSE

\* A session of which nothing is left; its memory may be used again.
Forgotten(s) ==
  /\ \A g \in Goroutines : pc[s][g] = "ended"
  /\ \A a \in Addresses : clients[a] # s
  /\ active[s] # "open"
  /\ s # loop.session

Moves(s, g, step) == pc' = [pc EXCEPT ![s][g] = step]

Panics ==
  /\ panicked' = TRUE
  /\ UNCHANGED <<clients, addr, active, dialed, pc, loop>>
-----------------------------------------------------------------------------
(* The loop.                                                               *)

\* A datagram of an address with a session: the session is signalled first.
ReadFound(a) ==
  /\ loop = AtRead /\ clients[a] # NoSession
  /\ loop' = [step |-> "signal", session |-> clients[a]]
  /\ UNCHANGED <<clients, addr, active, dialed, pc, panicked>>

\* A datagram of another address: dialed, written and made a session with its
\* goroutines, which is stored afterwards.
MakeClient(a) ==
  /\ loop = AtRead /\ clients[a] = NoSession
  /\ \E s \in {t \in Sessions : Forgotten(t)} :
       /\ addr' = [addr EXCEPT ![s] = a]
       /\ active' = [active EXCEPT ![s] = "open"]
       /\ dialed' = dialed \cup {s}
       /\ pc' = [pc EXCEPT ![s] = [g \in Goroutines |-> "runs"]]
       /\ loop' = [step |-> "store", session |-> s]
  /\ UNCHANGED <<clients, panicked>>

Store ==
  /\ loop.step = "store"
  /\ clients' = [clients EXCEPT ![addr[loop.session]] = loop.session]
  /\ loop' = AtRead
  /\ UNCHANGED <<addr, active, dialed, pc, panicked>>

\* The goroutine that waits for the session to be idle takes the signal.
Signal ==
  /\ loop.step = "signal" /\ active[loop.session] = "open"
  /\ pc[loop.session]["timeout"] = "runs"
  /\ loop' = [loop EXCEPT !.step = "write"]
  /\ UNCHANGED <<clients, addr, active, dialed, pc, panicked>>

\* "send on closed channel".
SignalPanics ==
  /\ loop.step = "signal" /\ active[loop.session] = "closed"
  /\ Panics

Write ==
  /\ loop.step = "write" /\ loop.session \in dialed
  /\ loop' = AtRead
  /\ UNCHANGED <<clients, addr, active, dialed, pc, panicked>>

\* Mutant: the session is taken out of the map.
WriteFailsForgets ==
  /\ loop.step = "write"
  /\ clients' = [clients EXCEPT ![addr[loop.session]] = NoSession]
  /\ dialed' = dialed \ {loop.session}
  /\ loop' = AtRead
  /\ UNCHANGED <<addr, active, pc, panicked>>

\* The key it deletes is the address and not its text: no session is deleted.
WriteFails ==
  /\ loop.step = "write"
  /\ dialed' = dialed \ {loop.session}
  /\ loop' = AtRead
  /\ UNCHANGED <<clients, addr, active, pc, panicked>>
-----------------------------------------------------------------------------
(* The goroutines of a session, which both may close it.                   *)

\* The session was idle; nothing more can be copied.
CloseBegins(s, g) ==
  /\ pc[s][g] = "runs"
  /\ Moves(s, g, "check")
  /\ UNCHANGED <<clients, addr, active, dialed, loop, panicked>>

\* Close is over.  TXer closes the OpenZiti connection as well.
Closed(s, g) ==
  /\ Moves(s, g, "ended")
  /\ IF g = "txer" THEN dialed' = dialed \ {s} ELSE UNCHANGED dialed

\* What is received from the channel is that it was closed.
AlreadyClosed(s, g) ==
  /\ pc[s][g] = "check" /\ active[s] = "closed"
  /\ Closed(s, g)
  /\ UNCHANGED <<clients, addr, active, loop, panicked>>

\* Or a signal: the session stays open.
TakesSignal(s, g) ==
  /\ pc[s][g] = "check" /\ active[s] = "open"
  /\ loop = [step |-> "signal", session |-> s]
  /\ loop' = [loop EXCEPT !.step = "write"]
  /\ Closed(s, g)
  /\ UNCHANGED <<clients, addr, active, panicked>>

NotYetClosed(s, g) ==
  /\ pc[s][g] = "check" /\ active[s] = "open"
  /\ Moves(s, g, "close")
  /\ UNCHANGED <<clients, addr, active, dialed, loop, panicked>>

CloseActive(s, g) ==
  /\ pc[s][g] = "close" /\ active[s] = "open"
  /\ active' = [active EXCEPT ![s] = "closed"]
  /\ Moves(s, g, "remove")
  /\ UNCHANGED <<clients, addr, dialed, loop, panicked>>

\* "close of closed channel".
ClosePanics(s, g) ==
  /\ pc[s][g] = "close" /\ active[s] = "closed"
  /\ Panics

\* closeClient: what the map holds for the address is removed and closed.
CloseClient(s, g) ==
  /\ pc[s][g] = "remove"
  /\ clients' = [clients EXCEPT ![addr[s]] = NoSession]
  /\ Moves(s, g, "ended")
  /\ dialed' = dialed \ ({clients[addr[s]]} \cup IF g = "txer" THEN {s} ELSE {})
  /\ UNCHANGED <<addr, active, loop, panicked>>
-----------------------------------------------------------------------------
Loop ==
  \/ \E a \in Addresses : ReadFound(a) \/ MakeClient(a)
  \/ Store \/ Signal \/ SignalPanics \/ Write \/ WriteFails

Close(s, g) ==
  \/ CloseBegins(s, g) \/ AlreadyClosed(s, g) \/ TakesSignal(s, g) \/ NotYetClosed(s, g)
  \/ CloseActive(s, g) \/ ClosePanics(s, g) \/ CloseClient(s, g)

UdpNext == ~panicked /\ (Loop \/ \E s \in Sessions, g \in Goroutines : Close(s, g))

UdpSpec == UdpInit /\ [][UdpNext]_udpVars
-----------------------------------------------------------------------------
(* Properties.                                                             *)

UdpTypeOK ==
  /\ clients \in [Addresses -> Sessions \cup {NoSession}]
  /\ addr \in [Sessions -> Addresses]
  /\ active \in [Sessions -> {"none", "open", "closed"}]
  /\ dialed \subseteq Sessions
  /\ pc \in [Sessions -> [Goroutines -> {"runs", "check", "close", "remove", "ended"}]]
  /\ loop \in [step : {"read", "signal", "write", "store"}, session : Sessions \cup {NoSession}]
  /\ panicked \in BOOLEAN

\* An address never has two open sessions, so that its datagrams are not split
\* between two connections of which one is never used again: a session leaves
\* the map only after its channel was closed (frontend.go:46-55, 140-165, 196).
OneOpenSession ==
  \A s, t \in Sessions : active[s] = "open" /\ active[t] = "open" /\ addr[s] = addr[t] => s = t

\* closeClient removes whatever the map holds for the address: it is the session
\* that is being closed, never its successor (frontend.go:198).
ClosesItself ==
  \A s \in Sessions, g \in Goroutines :
    pc[s][g] = "remove" => clients[addr[s]] \in {s, NoSession}

\* A session in the map is not without the goroutine that reads its signals as
\* long as it is open: the loop, the only reader of datagrams, would wait for it
\* for ever (frontend.go:47-49, 143: "if it's here client as already closed").
SignalsAreRead ==
  loop.step = "signal" /\ active[loop.session] = "open" =>
    \E g \in Goroutines : pc[loop.session][g] # "ended"
=============================================================================
