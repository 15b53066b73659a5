----------------------------- MODULE NetListen -----------------------------
(***************************************************************************)
(* The network listener (netlisten.go) and its packet sniffers             *)
(* (packet/sniffer.go): one goroutine per sniffer, the Recv loop, the      *)
(* goroutine that closes their common channel, and the goroutine that      *)
(* looks for new ports.                                                    *)
(*                                                                         *)
(* A port stands for its portData and for its handle name, both of which   *)
(* are functions of port and direction.  Sniffers are named by Ids, which  *)
(* are used again once a sniffer is gone.  Where a packet comes from and   *)
(* which ports see traffic is left open; a packet is good (it parses), bad *)
(* (of a shred's size, does not parse) or invalid (not of that size).      *)
(***************************************************************************)
EXTENDS Naturals, Sequences

CONSTANTS
  OutPorts,   \* outPorts: the TVU broadcast ports being tried
  InPort,     \* inPort: the TVU port
  DynPorts,   \* ports that the port discovery may report
  EofPorts,   \* ports on which a capture may end with EOF
  Ids,        \* bound: sniffers that exist at one time
  None,       \* no entry / no sniffer
  Nil,        \* an entry of portHandleMap with a nil handle
  Cap         \* recvChBuf

Ports   == OutPorts \cup {InPort} \cup DynPorts
Static  == OutPorts \cup {InPort}

Injections(S, T) == {f \in [S -> T] : \A a, b \in S : a # b => f[a] # f[b]}

ASSUME NetListenAssumption ==
  /\ InPort \notin OutPorts \cup DynPorts /\ OutPorts \cap DynPorts = {}
  /\ EofPorts \subseteq Ports
  /\ None \notin Ids \cup Ports /\ Nil \notin Ids \cup {None}
  /\ Cap \in Nat \ {0}
  /\ Injections(Ports, Ids) # {}   \* a sniffer for every port

VARIABLES
  port,      \* [Ids -> Ports or None]: what a sniffer captures
  spc,       \* [Ids -> SnifferPcs]: where its goroutine is
  arrived,   \* [Ids -> BOOLEAN]: its capture has a packet it has not read
  cancelled, \* [Ids -> BOOLEAN]: pd.cancel was called for it
  seen,      \* [Ids -> BOOLEAN]: its counter is positive
  held,      \* [Ids -> "good" or "bad"]: packet it is about to send
  first,     \* [Ids -> BOOLEAN]: started by Recv itself
  listen,    \* listenPorts: [Ports -> Ids or None], whom pd.cancel stops
  handle,    \* portHandleMap: [Ports -> Ids, Nil or None]
  queue,     \* sniffRecvCh
  closed,    \* sniffRecvCh is closed
  wg,        \* sniffers the wait group still counts
  rpc,       \* the Recv loop
  outTick,   \* noOutgoingTraffic ticker
  found,     \* ports the monitoring goroutine has still to register
  mpc,       \* the monitoring goroutine
  ctx,       \* the context: "live" or "done"
  panicked   \* a sniffer sent on the closed channel

snifferVars == <<port, spc, arrived, cancelled, seen, held, first>>
mapVars     == <<listen, handle>>
vars == <<snifferVars, mapVars, queue, closed, wg, rpc, outTick, found, mpc, ctx, panicked>>

SnifferPcs == {"off", "loop", "read", "send", "get", "del1", "del2"}
Capturing  == {"loop", "read", "send"}

Free == {i \in Ids : spc[i] = "off"}

(* NewNetworkListener has registered a sniffer on every static port and on *)
(* the ports the first discovery reported; Recv has started them.  (Which  *)
(* of the interchangeable Ids they have does not matter.)                  *)
Init ==
  \E D \in SUBSET DynPorts :
    LET f == CHOOSE g \in Injections(Static \cup D, Ids) : TRUE
        On(i) == \E p \in Static \cup D : f[p] = i
        PortOf(i) == CHOOSE p \in Static \cup D : f[p] = i
    IN  /\ port = [i \in Ids |-> IF On(i) THEN PortOf(i) ELSE None]
        /\ spc = [i \in Ids |-> IF On(i) THEN "loop" ELSE "off"]
        /\ arrived = [i \in Ids |-> FALSE]
        /\ cancelled = [i \in Ids |-> FALSE]
        /\ seen = [i \in Ids |-> FALSE]
        /\ held = [i \in Ids |-> "good"]
        /\ first = [i \in Ids |-> On(i)]
        /\ listen = [p \in Ports |-> IF p \in Static \cup D THEN f[p] ELSE None]
        /\ handle = listen
        /\ queue = << >> /\ closed = FALSE
        /\ wg = {i \in Ids : On(i)}
        /\ rpc = "select" /\ outTick = "armed" /\ found = {}
        /\ mpc = (IF DynPorts = {} THEN "done" ELSE "select")
        /\ ctx = "live" /\ panicked = FALSE

-----------------------------------------------------------------------------
(* SniffUDPNetworkNoClose, and what the goroutine around it does after it. *)

Intolerant(i) == port[i] \in OutPorts
Dynamic(i)    == port[i] \in DynPorts

(* Faulty variant: a sniffer's context is not derived from the listener's. *)
Done_OwnOnly(i) == cancelled[i]

Done(i) == ctx = "done" \/ cancelled[i]

(* The goroutine ends; its name may be used again.                         *)
Vanish(i) ==
  /\ spc' = [spc EXCEPT ![i] = "off"]
  /\ port' = [port EXCEPT ![i] = None]
  /\ cancelled' = [cancelled EXCEPT ![i] = FALSE]
  /\ seen' = [seen EXCEPT ![i] = FALSE]
  /\ held' = [held EXCEPT ![i] = "good"]
  /\ first' = [first EXCEPT ![i] = FALSE]

(* The capture returns: its pcap handle is closed.  A dynamic sniffer goes *)
(* on to its clean-up, before or after wg.Done.                            *)
Leave(i) ==
  /\ arrived' = [arrived EXCEPT ![i] = FALSE]
  /\ \/ /\ ~Dynamic(i)
        /\ Vanish(i)
        /\ wg' = wg \ {i}
     \/ /\ Dynamic(i)
        /\ spc' = [spc EXCEPT ![i] = "get"]
        /\ held' = [held EXCEPT ![i] = "good"]
        /\ wg' = IF first[i] THEN wg \ {i} ELSE wg
        /\ UNCHANGED <<port, cancelled, seen, first>>

Step(i, l) ==
  /\ spc' = [spc EXCEPT ![i] = l]
  /\ UNCHANGED <<port, cancelled, first, wg>>

SniffLoop(i) ==
  /\ spc[i] = "loop"
  /\ \/ Done(i) /\ Leave(i)
     \/ ~Done(i) /\ Step(i, "read") /\ UNCHANGED <<arrived, seen, held>>
  /\ UNCHANGED <<mapVars, queue, closed, rpc, outTick, found, mpc, ctx, panicked>>

(* The read has no timeout: it returns when a packet has arrived.          *)
Silent(i) == spc[i] = "read" /\ ~arrived[i]

(* A packet on port p goes into the buffer of every capture that is open   *)
(* on it.  (How many wait there does not matter: the next arrival, once    *)
(* some sniffer of the port waits again, stands for those behind it.)      *)
Arrive(p) ==
  LET On == {i \in Ids : port[i] = p /\ spc[i] \in Capturing}
  IN  /\ \E i \in On : Silent(i)
      /\ arrived' = [i \in Ids |-> arrived[i] \/ i \in On]
      /\ UNCHANGED <<port, spc, cancelled, seen, held, first, mapVars, queue, closed, wg, rpc,
                     outTick, found, mpc, ctx, panicked>>

(* A packet of a shred's size is read.                                     *)
SniffValid(i) ==
  /\ spc[i] = "read" /\ arrived[i]
  /\ arrived' = [arrived EXCEPT ![i] = FALSE]
  /\ seen' = [seen EXCEPT ![i] = TRUE]
  /\ \E q \in {"good", "bad"} : held' = [held EXCEPT ![i] = q]
  /\ Step(i, "send")
  /\ UNCHANGED <<mapVars, queue, closed, rpc, outTick, found, mpc, ctx, panicked>>

(* Any other packet.  An intolerant or dynamic sniffer stops unless such   *)
(* packets are below one per cent of the valid ones it has counted.        *)
SniffInvalid(i) ==
  /\ spc[i] = "read" /\ arrived[i]
  /\ \/ (Intolerant(i) \/ Dynamic(i)) /\ Leave(i)
     \/ /\ Intolerant(i) \/ Dynamic(i) => seen[i]
        /\ arrived' = [arrived EXCEPT ![i] = FALSE]
        /\ Step(i, "loop")
        /\ UNCHANGED <<seen, held>>
  /\ UNCHANGED <<mapVars, queue, closed, rpc, outTick, found, mpc, ctx, panicked>>

(* The read fails (the loop goes on) or reports EOF (the sniffer stops).   *)
SniffError(i) ==
  /\ spc[i] = "read"
  /\ \/ port[i] \in EofPorts /\ Leave(i)
     \/ Step(i, "loop") /\ UNCHANGED <<arrived, seen, held>>
  /\ UNCHANGED <<mapVars, queue, closed, rpc, outTick, found, mpc, ctx, panicked>>

(* Faulty variant: the channel is taken to have room always.               *)
HasRoom_Always == TRUE

HasRoom == Len(queue) < Cap

(* select of done, the send and default: any ready case may be taken, and  *)
(* a send on a closed channel is ready, and panics.                        *)
SniffSend(i) ==
  /\ spc[i] = "send"
  /\ \/ Done(i) /\ Leave(i) /\ UNCHANGED <<queue, panicked>>
     \/ /\ ~closed /\ HasRoom
        /\ queue' = Append(queue, [port |-> port[i], kind |-> held[i]])
        /\ Step(i, "loop")
        /\ held' = [held EXCEPT ![i] = "good"]
        /\ UNCHANGED <<arrived, seen, panicked>>
     \/ /\ ~closed /\ ~HasRoom /\ ~Done(i)
        /\ Step(i, "loop")
        /\ held' = [held EXCEPT ![i] = "good"]
        /\ UNCHANGED <<arrived, seen, queue, panicked>>
     \/ /\ closed
        /\ panicked' = TRUE
        /\ UNCHANGED <<snifferVars, wg, queue>>
  /\ UNCHANGED <<mapVars, closed, rpc, outTick, found, mpc, ctx>>

(* The clean-up of a dynamic sniffer: look the port up, delete the two map *)
(* entries one after the other.  (The context it then cancels is its own.) *)
CleanGet(i) ==
  /\ spc[i] = "get"
  /\ \/ /\ listen[port[i]] = None
        /\ Vanish(i)
        /\ wg' = wg \ {i}
     \/ /\ listen[port[i]] # None
        /\ Step(i, "del1")
        /\ UNCHANGED <<seen, held>>
  /\ UNCHANGED <<arrived, mapVars, queue, closed, rpc, outTick, found, mpc, ctx, panicked>>

CleanDel1(i) ==
  /\ spc[i] = "del1"
  /\ handle' = [handle EXCEPT ![port[i]] = None]
  /\ Step(i, "del2")
  /\ UNCHANGED <<arrived, seen, held, listen, queue, closed, rpc, outTick, found, mpc, ctx, panicked>>

CleanDel2(i) ==
  /\ spc[i] = "del2"
  /\ listen' = [listen EXCEPT ![port[i]] = None]
  /\ Vanish(i)
  /\ wg' = wg \ {i}
  /\ UNCHANGED <<arrived, handle, queue, closed, rpc, outTick, found, mpc, ctx, panicked>>

-----------------------------------------------------------------------------
(* registerNewSniffer for the ports of S, f giving the new sniffers.       *)
Register(S, f) ==
  LET New(i) == \E p \in S : f[p] = i
      PortOf(i) == CHOOSE p \in S : f[p] = i
  IN  /\ port' = [i \in Ids |-> IF New(i) THEN PortOf(i) ELSE port[i]]
      /\ spc' = [i \in Ids |-> IF New(i) THEN "loop" ELSE spc[i]]
      /\ listen' = [p \in Ports |-> IF p \in S THEN f[p] ELSE listen[p]]
      /\ handle' = [p \in Ports |-> IF p \in S THEN f[p] ELSE handle[p]]
      /\ UNCHANGED <<arrived, cancelled, seen, held, first>>

(* The Recv loop takes a packet of a handle that is no longer listened to, *)
(* or a bad one of an incoming port, or one the cache knows, or a good one *)
(* of an incoming port: nothing of the listener's own state changes.       *)
RecvOther ==
  /\ rpc = "select" /\ queue # << >>
  /\ LET p == Head(queue)
     IN  p.kind = "good" \/ listen[p.port] = None \/ p.port \notin OutPorts
  /\ queue' = Tail(queue)
  /\ UNCHANGED <<snifferVars, mapVars, closed, wg, rpc, outTick, found, mpc, ctx, panicked>>

(* A new shred of an outgoing port: there is outgoing traffic.             *)
RecvOutgoing ==
  /\ rpc = "select" /\ queue # << >>
  /\ LET p == Head(queue)
     IN  p.kind = "good" /\ listen[p.port] # None /\ p.port \in OutPorts
  /\ queue' = Tail(queue)
  /\ outTick' = "armed"
  /\ UNCHANGED <<snifferVars, mapVars, closed, wg, rpc, found, mpc, ctx, panicked>>

(* Faulty variant: the port is marked closed but its sniffer goes on.      *)
RecvBad_NoCancel ==
  /\ rpc = "select" /\ queue # << >>
  /\ LET p == Head(queue).port
     IN  /\ Head(queue).kind = "bad" /\ listen[p] # None /\ p \in OutPorts
         /\ handle' = [handle EXCEPT ![p] = Nil]
         /\ listen' = [listen EXCEPT ![p] = None]
  /\ queue' = Tail(queue)
  /\ UNCHANGED <<snifferVars, closed, wg, rpc, outTick, found, mpc, ctx, panicked>>

(* Faulty variant: the port is forgotten instead of being marked closed.   *)
RecvBad_Forget ==
  /\ rpc = "select" /\ queue # << >>
  /\ LET p == Head(queue).port
     IN  /\ Head(queue).kind = "bad" /\ listen[p] # None /\ p \in OutPorts
         /\ handle' = handle
         /\ listen' = [listen EXCEPT ![p] = None]
         /\ cancelled' = [cancelled EXCEPT ![listen[p]] = @ \/ port[listen[p]] = p]
  /\ queue' = Tail(queue)
  /\ UNCHANGED <<port, spc, arrived, seen, held, first, closed, wg, rpc, outTick, found, mpc, ctx, panicked>>

(* A bad packet on an outgoing port: not the broadcast port, close it.     *)
(* (Its sniffer may be gone already, then cancelling it does nothing.)     *)
RecvBad ==
  /\ rpc = "select" /\ queue # << >>
  /\ LET p == Head(queue).port
     IN  /\ Head(queue).kind = "bad" /\ listen[p] # None /\ p \in OutPorts
         /\ handle' = [handle EXCEPT ![p] = Nil]
         /\ listen' = [listen EXCEPT ![p] = None]
         /\ cancelled' = [cancelled EXCEPT ![listen[p]] = @ \/ port[listen[p]] = p]
  /\ queue' = Tail(queue)
  /\ UNCHANGED <<port, spc, arrived, seen, held, first, closed, wg, rpc, outTick, found, mpc, ctx, panicked>>

(* No outgoing traffic for noOutgoingTrafficThreshold.                     *)
OutTickElapses ==
  /\ outTick = "armed"
  /\ outTick' = "fired"
  /\ UNCHANGED <<snifferVars, mapVars, queue, closed, wg, rpc, found, mpc, ctx, panicked>>

ClosedPorts == {p \in Ports : handle[p] = Nil}

(* The closed ports are registered again, except those where that fails.   *)
Reopen(S) ==
  /\ rpc = "select" /\ outTick = "fired"
  /\ S \subseteq ClosedPorts
  /\ \E f \in Injections(S, Free) :
       /\ Register(S, f)
       /\ wg' = wg \cup {f[p] : p \in S}
  /\ outTick' = "armed"
  /\ UNCHANGED <<queue, closed, rpc, found, mpc, ctx, panicked>>

RecvDone ==
  /\ rpc = "select" /\ ctx = "done"
  /\ rpc' = "wait"
  /\ UNCHANGED <<snifferVars, mapVars, queue, closed, wg, outTick, found, mpc, ctx, panicked>>

(* wg.Wait returns, the outgoing channel is closed.                        *)
RecvExit ==
  /\ rpc = "wait" /\ wg = {}
  /\ rpc' = "done"
  /\ UNCHANGED <<snifferVars, mapVars, queue, closed, wg, outTick, found, mpc, ctx, panicked>>

(* The goroutine that waits for the sniffers and closes sniffRecvCh.       *)
CloseQueue ==
  /\ ~closed /\ wg = {}
  /\ closed' = TRUE
  /\ UNCHANGED <<snifferVars, mapVars, queue, wg, rpc, outTick, found, mpc, ctx, panicked>>

-----------------------------------------------------------------------------
(* startMonitoringOpenPorts: every tick the discovery reports ports; those *)
(* with no entry in portHandleMap are registered one by one.  (A sniffer   *)
(* that is registered and not yet started is one that is slow to start.)   *)

Discover(D) ==
  /\ mpc = "select" /\ found = {}
  /\ found' = {p \in D : handle[p] = None}
  /\ UNCHANGED <<snifferVars, mapVars, queue, closed, wg, rpc, outTick, mpc, ctx, panicked>>

(* Faulty variant: new sniffers are not added to the wait group.           *)
RegisterFound_NoAdd(p) ==
  /\ p \in found
  /\ found' = found \ {p}
  /\ \E i \in Free : Register({p}, [q \in {p} |-> i])
  /\ UNCHANGED <<wg, queue, closed, rpc, outTick, mpc, ctx, panicked>>

RegisterFound(p) ==
  /\ p \in found
  /\ found' = found \ {p}
  /\ \/ \E i \in Free : Register({p}, [q \in {p} |-> i]) /\ wg' = wg \cup {i}
     \/ UNCHANGED <<snifferVars, mapVars, wg>>
  /\ UNCHANGED <<queue, closed, rpc, outTick, mpc, ctx, panicked>>

MonitorDone ==
  /\ mpc = "select" /\ found = {} /\ ctx = "done"
  /\ mpc' = "done"
  /\ UNCHANGED <<snifferVars, mapVars, queue, closed, wg, rpc, outTick, found, ctx, panicked>>

Cancel ==
  /\ ctx = "live"
  /\ ctx' = "done"
  /\ UNCHANGED <<snifferVars, mapVars, queue, closed, wg, rpc, outTick, found, mpc, panicked>>

-----------------------------------------------------------------------------
SniffRead(i) == SniffValid(i) \/ SniffInvalid(i)

SnifferStep(i) ==
  SniffLoop(i) \/ SniffSend(i) \/ CleanGet(i) \/ CleanDel1(i) \/ CleanDel2(i)

RecvStep == RecvOther \/ RecvOutgoing \/ RecvBad \/ RecvDone \/ RecvExit

(* Recv has returned and the channel is closed: nothing is left to do.     *)
Terminated == rpc = "done" /\ closed /\ UNCHANGED vars

Next ==
  \/ \E p \in Ports : Arrive(p)
  \/ \E i \in Ids : SniffRead(i) \/ SniffError(i) \/ SnifferStep(i)
  \/ RecvStep
  \/ OutTickElapses
  \/ \E S \in SUBSET OutPorts : Reopen(S)
  \/ CloseQueue
  \/ \E D \in SUBSET DynPorts \ {{}} : Discover(D)
  \/ \E p \in DynPorts : RegisterFound(p)
  \/ MonitorDone
  \/ Cancel
  \/ Terminated

(* Goroutines run, a read returns once there is a packet, the ticker ticks *)
(* and registering the closed ports works out if it is tried often enough. *)
(* A select with several ready cases takes each of them again and again.   *)
(* No packet need ever arrive and no read need fail.                       *)
Fairness ==
  /\ \A i \in Ids : WF_vars(SnifferStep(i)) /\ WF_vars(SniffRead(i))
  /\ WF_vars(RecvOther \/ RecvOutgoing \/ RecvBad) /\ SF_vars(RecvDone) /\ WF_vars(RecvExit)
  /\ WF_vars(OutTickElapses)
  /\ SF_vars(Reopen(ClosedPorts))

Spec     == Init /\ [][Next]_vars
FairSpec == Spec /\ Fairness

-----------------------------------------------------------------------------
TypeOK ==
  /\ port \in [Ids -> Ports \cup {None}]
  /\ spc \in [Ids -> SnifferPcs]
  /\ arrived \in [Ids -> BOOLEAN] /\ cancelled \in [Ids -> BOOLEAN]
  /\ seen \in [Ids -> BOOLEAN] /\ first \in [Ids -> BOOLEAN]
  /\ held \in [Ids -> {"good", "bad"}]
  /\ listen \in [Ports -> Ids \cup {None}]
  /\ handle \in [Ports -> Ids \cup {None, Nil}]
  /\ Len(queue) <= Cap
  /\ closed \in BOOLEAN /\ wg \subseteq Ids
  /\ rpc \in {"select", "wait", "done"} /\ outTick \in {"armed", "fired"}
  /\ found \subseteq DynPorts /\ mpc \in {"select", "done"} /\ ctx \in {"live", "done"} /\ panicked \in BOOLEAN
  /\ \A i \in Ids : spc[i] = "off" <=> port[i] = None

(* No sniffer sends on the channel after it was closed (it would take the  *)
(* process down), although sniffers are added while others are waited for. *)
NoSendOnClosed == ~panicked

(* Of the sniffers on one port at most one is not told to stop: closing    *)
(* and reopening a port again and again does not multiply its packets.     *)
OneLiveSniffer ==
  \A i, j \in Ids :
    (/\ i # j /\ port[i] = port[j]
     /\ spc[i] \in Capturing /\ spc[j] \in Capturing)
    => cancelled[i] \/ cancelled[j]

(* A closed outgoing port is opened again, unless new shreds keep arriving *)
(* from outgoing ports (then the broadcast port is known) or the gateway   *)
(* shuts down.  (Stopped sniffers that wait for a packet for ever may use  *)
(* up the bound Ids; the code has no such bound.)                          *)
ReopensWhenSilent ==
  \A p \in OutPorts :
    \/ []<><<RecvOutgoing>>_vars
    \/ <>[](Free = {})
    \/ listen[p] = None ~> listen[p] # None \/ ctx = "done"

(* After the context is cancelled every sniffer ends, whatever was queued  *)
(* or being reopened at that moment, but for one that waits for a packet   *)
(* that never arrives; such a one is all that keeps Recv from returning.   *)
ShutdownCompletes ==
  <>(ctx = "done") =>
    <>[](IF wg = {} THEN rpc = "done" ELSE \A i \in wg : Silent(i))

(* "already have a sniffer on this port, no need to check again"           *)
(* (createDynamicSniffers): a port that is skipped because it has an entry *)
(* in portHandleMap is being listened to.                                  *)
SkippedPortsAreServed ==
  \A p \in DynPorts : handle[p] # None => listen[p] # None
=============================================================================
