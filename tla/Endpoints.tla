----------------------------- MODULE Endpoints ------------------------------
(***************************************************************************)
(* A process of `zrok share` or `zrok access` runs one endpoint, which the *)
(* backend mode of its share selects: here the server of a drive, the      *)
(* frontend of a UDP tunnel, or the backend of a VPN.                      *)
(***************************************************************************)
EXTENDS DavLocks, UdpTunnel, VpnBackend

VARIABLE mode   \* the backend mode

endpointsVars == <<mode, vars, udpVars, vpnVars>>

EndpointsInit ==
  /\ mode \in {"drive", "udpTunnel", "vpn"}
  /\ Init /\ UdpInit /\ VpnInit

EndpointsNext ==
  /\ UNCHANGED mode
  /\ \/ mode = "drive" /\ Next /\ UNCHANGED <<udpVars, vpnVars>>
     \/ mode = "udpTunnel" /\ UdpNext /\ UNCHANGED <<vars, vpnVars>>
     \/ mode = "vpn" /\ VpnNext /\ UNCHANGED <<vars, udpVars>>

EndpointsSpec == EndpointsInit /\ [][EndpointsNext]_endpointsVars
=============================================================================
