----------------------------- MODULE VpnBackend -----------------------------
(***************************************************************************)
(* The backend of a VPN share (endpoints/vpn/backend.go): a goroutine per  *)
(* connection that takes an address of the subnet from a counter (nextIP), *)
(* tells it to the client and registers the connection under it, and the   *)
(* goroutine that sends what the host sends to an address to the           *)
(* connection registered there (readTun).                                  *)
(*                                                                         *)
(* An address is the number its host bits make: nextIP puts the digits of  *)
(* the counter into the bytes of the network's address, which are zero     *)
(* where the host bits are, and what goes beyond them leaves the subnet.   *)
(***************************************************************************)
EXTENDS Naturals

CONSTANTS
  Byte,        \* the values of a byte, 256
  Size,        \* the addresses of the subnet
  Server,      \* the address of the backend itself
  Conns,       \* the connections that may exist at once
  NoConn

ASSUME VpnAssumption ==
  /\ Byte \in Nat \ {0, 1} /\ Size \in Nat \ {0}
  /\ Server \in 0..(Size - 1)
  /\ NoConn \notin Conns

VARIABLES
  counter,     \* an atomic uint32
  registered,  \* registered[a]: the connection of an address
  conn,        \* conn[c]: where its goroutine is, and the address it was given
  rivals,      \* history: who else had been given its address when it registered
  tun          \* what readTun is about to remove: an address, or NoAddress

vpnVars == <<counter, registered, conn, rivals, tun>>

Hosts == 0..(Size - 1)
NoAddress == Size
NoHandler == [step |-> "none", address |-> NoAddress]

VpnInit ==
  /\ counter = 1
  /\ registered = [a \in Hosts |-> NoConn]
  /\ conn = [c \in Conns |-> NoHandler]
  /\ rivals = [c \in Conns |-> {}]
  /\ tun = NoAddress

\* The counter has four bytes.  Each is reduced modulo 255, so that several
\* counts make one address.
Digit(n, i) == (n \div Byte^i) % (Byte - 1)
Host(n) ==
  Digit(n, 0) + Byte * Digit(n, 1) + Byte^2 * Digit(n, 2) + Byte^3 * Digit(n, 3)

Word == Byte * Byte * Byte * Byte

Next32 == (counter + 1) % Word

Moved(c, step, a) == conn' = [conn EXCEPT ![c] = [step |-> step, address |-> a]]

Accept(c) ==
  /\ conn[c].step \in {"none", "gone"}
  /\ \A a \in Hosts : registered[a] # c
  /\ Moved(c, "next", NoAddress)
  /\ UNCHANGED <<counter, registered, rivals, tun>>

\* Mutant: whether the subnet contains the address is not asked.
CountUnchecked(c) ==
  /\ conn[c].step = "next"
  /\ counter' = Next32
  /\ IF Next32 = 0 THEN UNCHANGED conn ELSE Moved(c, "candidate", Host(Next32))
  /\ UNCHANGED <<registered, rivals, tun>>

\* One count of nextIP: nothing, an overflow, or a candidate.
Count(c) ==
  /\ conn[c].step = "next"
  /\ counter' = Next32
  /\ CASE Next32 = 0 -> UNCHANGED conn
       [] Next32 # 0 /\ Host(Next32) \notin Hosts -> Moved(c, "overflow", NoAddress)
       [] Next32 # 0 /\ Host(Next32) \in Hosts -> Moved(c, "candidate", Host(Next32))
  /\ UNCHANGED <<registered, rivals, tun>>

Overflow(c) ==
  /\ conn[c].step = "overflow"
  /\ counter' = 1
  /\ Moved(c, "next", NoAddress)
  /\ UNCHANGED <<registered, rivals, tun>>

\* Mutant: only the connections that are open are looked at.
FreeUnlessOpen(a) == registered[a] = NoConn \/ conn[registered[a]].step = "gone"

\* The backend's own address is compared as a value of another type: it is
\* never found equal.
Free(a) == registered[a] = NoConn

Candidate(c) ==
  /\ conn[c].step = "candidate"
  /\ IF Free(conn[c].address)
     THEN Moved(c, "given", conn[c].address)
     ELSE Moved(c, "next", NoAddress)
  /\ UNCHANGED <<counter, registered, rivals, tun>>

Given(a) == {c \in Conns : conn[c] = [step |-> "given", address |-> a]}

\* The client has been told its address.
Register(c) ==
  /\ conn[c].step = "given"
  /\ rivals' = [rivals EXCEPT ![c] = Given(conn[c].address) \ {c}]
  /\ registered' = [registered EXCEPT ![conn[c].address] = c]
  /\ Moved(c, "open", conn[c].address)
  /\ UNCHANGED <<counter, tun>>

\* The greeting cannot be written, or later nothing can be read: the connection
\* is closed, and what it is registered for stays.
Disconnect(c) ==
  /\ conn[c].step \in {"given", "open"}
  /\ Moved(c, "gone", conn[c].address)
  /\ UNCHANGED <<counter, registered, rivals, tun>>

\* A packet for an address whose connection is closed cannot be written.
WriteFailed(a) ==
  /\ tun = NoAddress
  /\ registered[a] # NoConn /\ conn[registered[a]].step = "gone"
  /\ tun' = a
  /\ UNCHANGED <<counter, registered, conn, rivals>>

RemoveClient ==
  /\ tun # NoAddress
  /\ registered' = [registered EXCEPT ![tun] = NoConn]
  /\ tun' = NoAddress
  /\ UNCHANGED <<counter, conn, rivals>>

VpnNext ==
  \/ \E c \in Conns :
       Accept(c) \/ Count(c) \/ Overflow(c) \/ Candidate(c) \/ Register(c) \/ Disconnect(c)
  \/ (\E a \in Hosts : WriteFailed(a)) \/ RemoveClient

VpnSpec == VpnInit /\ [][VpnNext]_vpnVars
-----------------------------------------------------------------------------
(* Properties.                                                             *)

VpnTypeOK ==
  /\ counter \in 0..(Word - 1)
  /\ registered \in [Hosts -> Conns \cup {NoConn}]
  /\ conn \in [Conns -> [step : {"none", "next", "overflow", "candidate", "given", "open", "gone"},
                         address : Hosts \cup {NoAddress}]]
  /\ rivals \in [Conns -> SUBSET Conns]
  /\ tun \in Hosts \cup {NoAddress}

\* nextIP looks for the address among the clients and handle registers it later
\* (backend.go:206, 256).  What goes wrong in between is bounded: a connection is
\* only ever pushed out of the table by one that had been given its address
\* before it was registered, and never by one that came afterwards, however the
\* counter overflows and is reset and connections come and go.
PushedOutByRivals ==
  \A c \in Conns :
    conn[c].step = "given" =>
      LET other == registered[conn[c].address]
      IN other # NoConn => c \in rivals[other]

\* The server keeps its address to itself (backend.go:252, docs/guides/vpn/vpn.md:26).
ServerKeepsItsAddress ==
  \A c \in Conns : conn[c].step \in {"given", "open"} => conn[c].address # Server
=============================================================================
