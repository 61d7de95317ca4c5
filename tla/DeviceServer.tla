---------------------------- MODULE DeviceServer ----------------------------
(***************************************************************************)
(* The connection to the device (core/device_server.cpp): adb pushes the   *)
(* server, opens a tunnel, runs the server, which connects back; later the *)
(* sockets are shut down, the server is killed and the tunnel removed.     *)
(*                                                                         *)
(* Everything here is done by the main thread: pc is its position in       *)
(* IRobotCore::Start, which calls Start, ConnectTo and Stop.               *)
(***************************************************************************)
EXTENDS Naturals, FiniteSets

CONSTANT NDEBUG   \* the program is built with NDEBUG (CMakeLists.txt does not)

ASSUME ServerAssumption == NDEBUG \in BOOLEAN

VARIABLES
  pc,               \* where the main thread is in IRobotCore::Start
  process,          \* the adb process that runs the server on the device
  server_socket,    \* the listening socket, used with "adb reverse"
  video_socket,
  control_socket,
  tunnel_enabled,
  tunnel_forward,
  tunnel,           \* the tunnel adb really has: "none", "reverse" or "forward"
  stuck,            \* history: adb has failed to remove a tunnel
  open              \* the sockets this program has opened and not closed

sockets == <<server_socket, video_socket, control_socket, open>>
tunnels == <<tunnel_enabled, tunnel_forward, tunnel, stuck>>
serverVars == <<process, sockets, tunnels>>

Invalid == "INVALID_SOCKET"
Stdin == "0"                       \* the descriptor 0
OwnSockets == {"server", "video", "control"}
Sockets == OwnSockets \cup {Invalid, Stdin}

Goto(from, to) == pc = from /\ pc' = to

\* The global "server" is zero-initialised; nothing calls DeviceServer::Init.
ServerInit ==
  /\ process = "none"
  /\ server_socket = Stdin
  /\ video_socket = Stdin
  /\ control_socket = Stdin
  /\ tunnel_enabled = FALSE
  /\ tunnel_forward = FALSE
  /\ tunnel = "none"
  /\ stuck = FALSE
  /\ open = {}

\* How an adb command ends: it does what it is asked to do, it exits with an
\* error, or it cannot be executed at all.
Results == {"done", "failed", "notExecuted"}

\* process_check_success: cmd_simple_wait ignores the exit code without NDEBUG.
CheckSuccess(result) == result = "done" \/ (result = "failed" /\ ~NDEBUG)

----------------------------------------------------------------------------
(* DeviceServer::Start *)

PushServer ==
  /\ \E result \in Results : Goto("push", IF CheckSuccess(result) THEN "reverse" ELSE "returned")
  /\ UNCHANGED serverVars

EnableTunnelReverse ==
  \E result \in Results :
    /\ tunnel' = IF result = "done" THEN "reverse" ELSE tunnel
    /\ tunnel_forward' = ~CheckSuccess(result)
    /\ Goto("reverse", IF tunnel_forward' THEN "forward" ELSE "listen")
    /\ UNCHANGED <<process, sockets, tunnel_enabled, stuck>>

EnableTunnelForward ==
  \E result \in Results :
    /\ tunnel' = IF result = "done" THEN "forward" ELSE tunnel
    /\ Goto("forward", IF CheckSuccess(result) THEN "execute" ELSE "returned")
    /\ UNCHANGED <<process, sockets, tunnel_enabled, tunnel_forward, stuck>>

\* The tunnel once adb has removed the one that DisableTunnel takes for the current one.
WithoutTunnel == IF tunnel = (IF tunnel_forward THEN "forward" ELSE "reverse")
                 THEN "none" ELSE tunnel

\* DisableTunnel; all its callers ignore its result, and none calls it again.
DisableTunnel ==
  \E result \in Results :
    /\ tunnel' = IF result = "done" THEN WithoutTunnel ELSE tunnel
    /\ stuck' = (stuck \/ result # "done")

ListenOnPort ==
  \/ /\ Goto("listen", "execute")
     /\ server_socket' = "server"
     /\ open' = open \cup {"server"}
     /\ UNCHANGED <<process, video_socket, control_socket, tunnels>>
  \/ /\ Goto("listen", "returned")
     /\ server_socket' = Invalid
     /\ DisableTunnel
     /\ UNCHANGED <<process, video_socket, control_socket, open, tunnel_enabled, tunnel_forward>>

ExecuteServer ==
  /\ Goto("execute", "showTouches")
  /\ process' = "running"
  /\ tunnel_enabled' = TRUE
  /\ UNCHANGED <<sockets, tunnel_forward, tunnel, stuck>>

BugLeaveTunnel ==   \* a bug: the tunnel stays when the server cannot be run
  /\ Goto("execute", "returned")
  /\ server_socket' = Invalid
  /\ open' = open \ {"server"}
  /\ UNCHANGED <<process, video_socket, control_socket, tunnels>>

ExecuteServerFails ==
  /\ Goto("execute", "returned")
  /\ IF tunnel_forward
     THEN UNCHANGED sockets
     ELSE /\ server_socket' = Invalid
          /\ open' = open \ {"server"}
          /\ UNCHANGED <<video_socket, control_socket>>
  /\ DisableTunnel
  /\ UNCHANGED <<process, tunnel_enabled, tunnel_forward>>

----------------------------------------------------------------------------
(* DeviceServer::ConnectTo.  With "adb reverse" the two sockets come from   *)
(* accept, which waits for the server on the device; with "adb forward"     *)
(* from connect, tried a hundred times for the first.                       *)

CanConnect == process = "running" /\ tunnel = (IF tunnel_forward THEN "forward" ELSE "reverse")

OpenVideoSocket(failed) ==
  \/ /\ CanConnect
     /\ Goto("connect", "connectControl")
     /\ video_socket' = "video"
     /\ open' = open \cup {"video"}
     /\ UNCHANGED <<process, server_socket, control_socket, tunnels>>
  \/ /\ Goto("connect", failed)
     /\ video_socket' = Invalid
     /\ UNCHANGED <<process, server_socket, control_socket, open, tunnels>>

OpenControlSocket(failed) ==
  \/ /\ CanConnect
     /\ Goto("connectControl", "connected")
     /\ control_socket' = "control"
     /\ open' = open \cup {"control"}
     /\ UNCHANGED <<process, server_socket, video_socket, tunnels>>
  \/ /\ Goto("connectControl", failed)
     /\ control_socket' = Invalid
     /\ UNCHANGED <<process, server_socket, video_socket, open, tunnels>>

\* The listening socket and the tunnel are not needed any more.
Connected(next) ==
  /\ Goto("connected", next)
  /\ IF tunnel_forward
     THEN UNCHANGED sockets
     ELSE /\ server_socket' = Invalid
          /\ open' = open \ {server_socket}
          /\ UNCHANGED <<video_socket, control_socket>>
  /\ DisableTunnel
  /\ tunnel_enabled' = FALSE
  /\ UNCHANGED <<process, tunnel_forward>>

----------------------------------------------------------------------------
(* DeviceServer::Stop.  It closes what is not INVALID_SOCKET, the zero of a *)
(* socket that never was assigned included.                                 *)

Stop(from, to) ==
  /\ Goto(from, to)
  /\ server_socket' = Invalid
  /\ video_socket' = Invalid
  /\ control_socket' = Invalid
  /\ open' = open \ {server_socket, video_socket, control_socket}
  /\ process' = "reaped"
  /\ IF tunnel_enabled THEN DisableTunnel ELSE UNCHANGED <<tunnel, stuck>>
  /\ UNCHANGED <<tunnel_enabled, tunnel_forward>>

\* The server on the device ends, or the device is unplugged.
ServerDies ==
  /\ process = "running"
  /\ process' = "exited"
  /\ UNCHANGED <<pc, sockets, tunnels>>

ServerTypeOK ==
  /\ process \in {"none", "running", "exited", "reaped"}
  /\ server_socket \in {Invalid, Stdin, "server"}
  /\ video_socket \in {Invalid, Stdin, "video"}
  /\ control_socket \in {Invalid, Stdin, "control"}
  /\ tunnel_enabled \in BOOLEAN
  /\ tunnel_forward \in BOOLEAN
  /\ tunnel \in {"none", "reverse", "forward"}
  /\ stuck \in BOOLEAN
  /\ open \subseteq OwnSockets
============================================================================
