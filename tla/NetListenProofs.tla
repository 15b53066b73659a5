-------------------------- MODULE NetListenProofs --------------------------
(***************************************************************************)
(* Proofs about NetListen: what the two maps say of the sniffers, and why  *)
(* no sniffer sends on the closed channel.                                 *)
(***************************************************************************)
EXTENDS NetListen, SequenceTheorems, TLAPS

Packets == [port : Ports, kind : {"good", "bad"}]

(* Types of the sniffers, of the maps and of everything else.              *)
SnifferTypes ==
  /\ port \in [Ids -> Ports \cup {None}] /\ spc \in [Ids -> SnifferPcs]
  /\ cancelled \in [Ids -> BOOLEAN] /\ seen \in [Ids -> BOOLEAN] /\ first \in [Ids -> BOOLEAN]
  /\ held \in [Ids -> {"good", "bad"}]

MapTypes == listen \in [Ports -> Ids \cup {None}] /\ handle \in [Ports -> Ids \cup {None, Nil}]

RestTypes ==
  /\ queue \in Seq(Packets) /\ Len(queue) <= Cap
  /\ closed \in BOOLEAN /\ wg \subseteq Ids
  /\ rpc \in {"select", "wait", "done"} /\ outTick \in {"armed", "fired"}
  /\ found \subseteq DynPorts /\ mpc \in {"select", "done"} /\ ctx \in {"live", "done"}
  /\ panicked \in BOOLEAN

Types == SnifferTypes /\ MapTypes /\ RestTypes

(* A sniffer has a port as long as its goroutine exists; only those of     *)
(* discovered ports clean up, only those of outgoing ports are cancelled.  *)
Owned(i) ==
  /\ spc[i] = "off" <=> port[i] = None
  /\ spc[i] \in {"get", "del1", "del2"} => port[i] \in DynPorts
  /\ cancelled[i] => port[i] \in OutPorts

(* portHandleMap knows every sniffer that captures and is not told to      *)
(* stop, and every one that has not yet removed its entry; the Recv loop   *)
(* can stop the sniffer of every outgoing port.                            *)
Mapped(i) ==
  /\ spc[i] \in Capturing /\ ~cancelled[i] =>
       /\ handle[port[i]] = i
       /\ port[i] \in OutPorts => listen[port[i]] = i
  /\ spc[i] \in {"get", "del1"} => handle[port[i]] = i

(* Whoever captures is waited for; once the channel is closed nobody is    *)
(* about to send any more.                                                 *)
Awaited(i) ==
  /\ spc[i] \in Capturing => i \in wg
  /\ closed => spc[i] \notin {"read", "send"}

(* A port that is about to be registered has no entry.                     *)
Pending == \A p \in found : handle[p] = None

(* The incoming port is captured until the context is done, so the wait    *)
(* group does not become empty earlier.                                    *)
Incoming ==
  /\ ctx = "live" => \E i \in Ids : port[i] = InPort /\ spc[i] \in Capturing
  /\ closed => ctx = "done"

SniffInv ==
  /\ Types
  /\ \A i \in Ids : Owned(i) /\ Mapped(i)
  /\ Pending

ListenInv ==
  /\ SniffInv
  /\ \A i \in Ids : Awaited(i)
  /\ Incoming
  /\ ~panicked

-----------------------------------------------------------------------------
(* Steps of one sniffer.                                                   *)

(* The other sniffers stay where they are.                                 *)
Others(i) ==
  \A j \in Ids \ {i} :
    port'[j] = port[j] /\ spc'[j] = spc[j] /\ cancelled'[j] = cancelled[j]

(* The parts of the assumption.                                            *)
LEMMA PortFacts ==
  /\ None \notin Ports /\ None \notin Ids /\ Nil \notin Ids /\ Nil # None
  /\ InPort \in Ports /\ OutPorts \subseteq Ports /\ DynPorts \subseteq Ports
  /\ InPort \notin OutPorts /\ InPort \notin DynPorts /\ OutPorts \cap DynPorts = {}
BY NetListenAssumption DEF Ports

(* A sniffer that is gone.                                                 *)
LEMMA VanishMoves ==
  ASSUME SnifferTypes, NEW i \in Ids, Vanish(i)
  PROVE  /\ SnifferTypes' /\ Others(i)
         /\ spc'[i] = "off" /\ port'[i] = None /\ cancelled'[i] = FALSE
<1>1. /\ port' \in [Ids -> Ports \cup {None}] /\ spc' \in [Ids -> SnifferPcs]
      /\ held' \in [Ids -> {"good", "bad"}]
  BY DEF SnifferTypes, Vanish, SnifferPcs
<1>2. /\ cancelled' \in [Ids -> BOOLEAN] /\ seen' \in [Ids -> BOOLEAN]
      /\ first' \in [Ids -> BOOLEAN]
  BY DEF SnifferTypes, Vanish
<1>3. spc'[i] = "off" /\ port'[i] = None /\ cancelled'[i] = FALSE
  BY DEF SnifferTypes, Vanish
<1>4. Others(i)
  BY DEF SnifferTypes, Vanish, Others
<1>5. QED
  BY <1>1, <1>2, <1>3, <1>4 DEF SnifferTypes

(* A sniffer that goes from one place to another.                          *)
LEMMA StepMoves ==
  ASSUME SnifferTypes, NEW i \in Ids, NEW l \in SnifferPcs, spc' = [spc EXCEPT ![i] = l],
         UNCHANGED <<port, cancelled, first>>,
         seen' \in [Ids -> BOOLEAN], held' \in [Ids -> {"good", "bad"}]
  PROVE  /\ SnifferTypes' /\ Others(i)
         /\ spc'[i] = l /\ port'[i] = port[i] /\ cancelled'[i] = cancelled[i]
BY DEF SnifferTypes, Others

(* What a step of sniffer i may do to the maps: remove its own handle, and *)
(* touch listenPorts for discovered ports.                                 *)
OwnEntry(i) ==
  /\ \A p \in Ports : handle'[p] = handle[p] \/ (handle[p] = i /\ handle'[p] = None)
  /\ \A p \in OutPorts : listen'[p] = listen[p]

(* What is left to show of a step of a sniffer.                            *)
LEMMA SnifferKeeps ==
  ASSUME SniffInv, NEW i \in Ids, Types', Others(i), OwnEntry(i), UNCHANGED found,
         Owned(i)', Mapped(i)'
  PROVE  SniffInv'
<1>1. Types
  BY DEF SniffInv
<1>2. ASSUME NEW j \in Ids, j # i
      PROVE  Owned(j)' /\ Mapped(j)'
  <2>1. port'[j] = port[j] /\ spc'[j] = spc[j] /\ cancelled'[j] = cancelled[j]
    BY <1>2 DEF Others
  <2>2. Owned(j) /\ Mapped(j)
    BY DEF SniffInv
  <2>3. Owned(j)'
    BY <2>1, <2>2 DEF Owned
  <2>4. spc[j] # "off" => port[j] \in Ports
    BY <1>1, <2>2 DEF Owned, Types, SnifferTypes
  <2>5. spc[j] # "off" /\ handle[port[j]] = j => handle'[port[j]] = j
    BY <1>2, <2>4 DEF OwnEntry
  <2>6. Mapped(j)'
    BY <2>1, <2>2, <2>5 DEF Mapped, OwnEntry, Capturing
  <2>7. QED
    BY <2>3, <2>6
<1>3. Pending'
  <2> SUFFICES ASSUME NEW p \in found PROVE handle'[p] = None
    BY DEF Pending
  <2>1. p \in Ports /\ handle[p] = None
    BY <1>1, PortFacts DEF SniffInv, Pending, Types, RestTypes
  <2>2. QED
    BY <2>1, PortFacts DEF OwnEntry
<1>4. QED
  BY <1>2, <1>3 DEF SniffInv

(* The places and ports of a sniffer that leaves.                          *)
LEMMA LeaveMoves ==
  ASSUME SniffInv, NEW i \in Ids, spc[i] \in Capturing, Leave(i)
  PROVE  /\ SnifferTypes' /\ Others(i) /\ Owned(i)'
         /\ spc'[i] \in {"off", "get"}
         /\ spc'[i] = "get" => handle[port'[i]] = i
         /\ wg \ {i} \subseteq wg' /\ wg' \subseteq wg
<1>1. SnifferTypes /\ Owned(i) /\ Mapped(i)
  BY DEF SniffInv, Types
<1>2. CASE Vanish(i) /\ wg' = wg \ {i}
  <2>1. /\ SnifferTypes' /\ Others(i)
        /\ spc'[i] = "off" /\ port'[i] = None /\ cancelled'[i] = FALSE
    BY <1>1, <1>2, VanishMoves
  <2>2. Owned(i)'
    BY <2>1 DEF Owned
  <2>3. QED
    BY <1>2, <2>1, <2>2
<1>3. CASE /\ Dynamic(i) /\ spc' = [spc EXCEPT ![i] = "get"]
           /\ held' = [held EXCEPT ![i] = "good"]
           /\ wg' = (IF first[i] THEN wg \ {i} ELSE wg)
           /\ UNCHANGED <<port, cancelled, seen, first>>
  <2>1. held' \in [Ids -> {"good", "bad"}] /\ seen' \in [Ids -> BOOLEAN] /\ "get" \in SnifferPcs
    BY <1>1, <1>3 DEF SnifferTypes, SnifferPcs
  <2>2. /\ SnifferTypes' /\ Others(i)
        /\ spc'[i] = "get" /\ port'[i] = port[i] /\ cancelled'[i] = cancelled[i]
    BY <1>1, <1>3, <2>1, StepMoves
  <2>3. port[i] \in DynPorts /\ port[i] # None /\ ~cancelled[i]
    BY <1>1, <1>3, PortFacts DEF Dynamic, Owned
  <2>4. Owned(i)'
    BY <2>2, <2>3 DEF Owned
  <2>5. handle[port[i]] = i
    BY <1>1, <2>3 DEF Mapped
  <2>6. QED
    BY <1>3, <2>2, <2>4, <2>5
<1>4. QED
  BY <1>2, <1>3 DEF Leave

(* A sniffer stops capturing.                                              *)
LEMMA LeaveKeeps ==
  ASSUME SniffInv, NEW i \in Ids, spc[i] \in Capturing, Leave(i),
         UNCHANGED <<listen, handle, found>>, RestTypes'
  PROVE  SniffInv'
<1>1. /\ SnifferTypes' /\ Others(i) /\ Owned(i)' /\ spc'[i] \in {"off", "get"}
      /\ spc'[i] = "get" => handle[port'[i]] = i
  BY LeaveMoves
<1>2. Mapped(i)'
  BY <1>1 DEF Mapped, Capturing
<1>3. OwnEntry(i)
  BY DEF OwnEntry
<1>4. Types'
  BY <1>1 DEF SniffInv, Types, MapTypes
<1>5. QED
  BY <1>1, <1>2, <1>3, <1>4, SnifferKeeps

(* A sniffer goes on capturing.                                            *)
LEMMA StepKeeps ==
  ASSUME SniffInv, NEW i \in Ids, spc[i] \in Capturing, NEW l \in Capturing, Step(i, l),
         UNCHANGED <<listen, handle, found>>, RestTypes',
         seen' \in [Ids -> BOOLEAN], held' \in [Ids -> {"good", "bad"}]
  PROVE  /\ SniffInv' /\ Others(i)
         /\ spc'[i] = l /\ port'[i] = port[i] /\ wg' = wg
<1>1. SnifferTypes /\ Owned(i) /\ Mapped(i) /\ l \in SnifferPcs
  BY DEF SniffInv, Types, Capturing, SnifferPcs
<1>2. spc' = [spc EXCEPT ![i] = l] /\ UNCHANGED <<port, cancelled, first, wg>>
  BY DEF Step
<1>3. /\ SnifferTypes' /\ Others(i)
      /\ spc'[i] = l /\ port'[i] = port[i] /\ cancelled'[i] = cancelled[i]
  BY <1>1, <1>2, StepMoves
<1>4. Owned(i)' /\ Mapped(i)'
  BY <1>1, <1>3 DEF Owned, Mapped, Capturing
<1>5. OwnEntry(i)
  BY DEF OwnEntry
<1>6. Types'
  BY <1>3 DEF SniffInv, Types, MapTypes
<1>7. QED
  BY <1>2, <1>3, <1>4, <1>5, <1>6, SnifferKeeps

(* What a step of capturing sniffer i does: it stops only when it is told  *)
(* to, or on a port where it may stop by itself; it reads only when it is  *)
(* not told to stop.                                                       *)
Effect(i) ==
  /\ Others(i) /\ UNCHANGED <<closed, ctx>>
  /\ wg \ {i} \subseteq wg'
  /\ spc[i] \in Capturing
  /\ \/ /\ spc'[i] \in Capturing /\ port'[i] = port[i] /\ wg' = wg
        /\ spc'[i] \in {"read", "send"} => spc[i] \in {"read", "send"} \/ ~Done(i)
     \/ /\ spc'[i] \notin Capturing
        /\ Done(i) \/ port[i] \in OutPorts \cup DynPorts \cup EofPorts
  /\ panicked' = panicked \/ (closed /\ spc[i] = "send")

(* Leaving has the effect described.                                       *)
LEMMA LeaveEffect ==
  ASSUME SniffInv, NEW i \in Ids, spc[i] \in Capturing, Leave(i),
         UNCHANGED <<listen, handle, found, queue, closed, rpc, outTick, mpc, ctx, panicked>>,
         Done(i) \/ port[i] \in OutPorts \cup DynPorts \cup EofPorts
  PROVE  SniffInv' /\ Effect(i)
<1>1. /\ Others(i) /\ spc'[i] \in {"off", "get"} /\ wg \ {i} \subseteq wg' /\ wg' \subseteq wg
  BY LeaveMoves
<1>2. RestTypes'
  BY <1>1 DEF SniffInv, Types, RestTypes
<1>3. SniffInv'
  BY <1>2, LeaveKeeps
<1>4. QED
  BY <1>1, <1>3 DEF Effect, Capturing

(* Going on has the effect described.                                      *)
LEMMA StepEffect ==
  ASSUME SniffInv, NEW i \in Ids, spc[i] \in Capturing, NEW l \in Capturing, Step(i, l),
         UNCHANGED <<listen, handle, found, closed, rpc, outTick, mpc, ctx, panicked>>,
         queue' \in Seq(Packets), Len(queue') <= Cap,
         seen' \in [Ids -> BOOLEAN], held' \in [Ids -> {"good", "bad"}],
         l \in {"read", "send"} => spc[i] \in {"read", "send"} \/ ~Done(i)
  PROVE  SniffInv' /\ Effect(i)
<1>1. RestTypes'
  BY DEF SniffInv, Types, RestTypes, Step
<1>2. /\ SniffInv' /\ Others(i) /\ spc'[i] = l /\ port'[i] = port[i] /\ wg' = wg
  BY <1>1, StepKeeps
<1>3. QED
  BY <1>2 DEF Effect

(* The loop of a sniffer and its reads.                                    *)
LEMMA SniffReads ==
  ASSUME SniffInv, NEW i \in Ids, SniffLoop(i) \/ SniffRead(i) \/ SniffError(i)
  PROVE  SniffInv' /\ Effect(i)
<1>1. /\ "loop" \in Capturing /\ "read" \in Capturing /\ "send" \in Capturing
      /\ seen \in [Ids -> BOOLEAN] /\ held \in [Ids -> {"good", "bad"}]
      /\ queue \in Seq(Packets) /\ Len(queue) <= Cap
  BY DEF SniffInv, Types, SnifferTypes, RestTypes, Capturing
<1>2. UNCHANGED <<listen, handle, found, queue, closed, rpc, outTick, mpc, ctx, panicked>>
  BY DEF SniffLoop, SniffRead, SniffValid, SniffInvalid, SniffError, mapVars
<1>3. CASE SniffLoop(i)
  <2>1. CASE Done(i) /\ Leave(i)
    BY <1>1, <1>2, <1>3, <2>1, LeaveEffect DEF SniffLoop
  <2>2. CASE ~Done(i) /\ Step(i, "read") /\ UNCHANGED <<seen, held>>
    BY <1>1, <1>2, <1>3, <2>2, StepEffect DEF SniffLoop
  <2>3. QED
    BY <1>3, <2>1, <2>2 DEF SniffLoop
<1>4. CASE SniffValid(i)
  <2>1. seen' \in [Ids -> BOOLEAN] /\ held' \in [Ids -> {"good", "bad"}]
    BY <1>1, <1>4 DEF SniffValid
  <2>2. Step(i, "send") /\ spc[i] = "read"
    BY <1>4 DEF SniffValid
  <2>3. QED
    BY <1>1, <1>2, <2>1, <2>2, StepEffect
<1>5. CASE SniffInvalid(i) \/ SniffError(i)
  <2>1. spc[i] = "read"
    BY <1>5 DEF SniffInvalid, SniffError
  <2>2. CASE Leave(i) /\ port[i] \in OutPorts \cup DynPorts \cup EofPorts
    BY <1>1, <1>2, <2>1, <2>2, LeaveEffect
  <2>3. CASE Step(i, "loop") /\ UNCHANGED <<seen, held>>
    BY <1>1, <1>2, <2>1, <2>3, StepEffect
  <2>4. QED
    BY <1>5, <2>2, <2>3 DEF SniffInvalid, SniffError, Intolerant, Dynamic
<1>6. QED
  BY <1>3, <1>4, <1>5 DEF SniffRead

(* The select in which a sniffer sends.                                    *)
LEMMA SniffSends ==
  ASSUME SniffInv, NEW i \in Ids, SniffSend(i)
  PROVE  SniffInv' /\ Effect(i)
<1>1. /\ "loop" \in Capturing /\ "send" \in Capturing /\ spc[i] = "send"
      /\ seen \in [Ids -> BOOLEAN] /\ held \in [Ids -> {"good", "bad"}]
      /\ queue \in Seq(Packets) /\ Len(queue) <= Cap
      /\ panicked \in BOOLEAN /\ closed \in BOOLEAN
  BY DEF SniffInv, Types, SnifferTypes, RestTypes, Capturing, SniffSend
<1>2. UNCHANGED <<listen, handle, found, closed, rpc, outTick, mpc, ctx>>
  BY DEF SniffSend, mapVars
<1>3. CASE Done(i) /\ Leave(i) /\ UNCHANGED <<queue, panicked>>
  BY <1>1, <1>2, <1>3, LeaveEffect
<1>4. CASE /\ ~closed /\ HasRoom
           /\ queue' = Append(queue, [port |-> port[i], kind |-> held[i]])
           /\ Step(i, "loop") /\ held' = [held EXCEPT ![i] = "good"]
           /\ UNCHANGED <<seen, panicked>>
  <2>1. port[i] \in Ports
    BY <1>1 DEF SniffInv, Owned, Types, SnifferTypes
  <2>2. [port |-> port[i], kind |-> held[i]] \in Packets
    BY <1>1, <2>1 DEF Packets
  <2>3. queue' \in Seq(Packets) /\ Len(queue') <= Cap
    BY <1>1, <1>4, <2>2, NetListenAssumption DEF HasRoom
  <2>4. seen' \in [Ids -> BOOLEAN] /\ held' \in [Ids -> {"good", "bad"}]
    BY <1>1, <1>4
  <2>5. QED
    BY <1>1, <1>2, <1>4, <2>3, <2>4, StepEffect
<1>5. CASE /\ Step(i, "loop") /\ held' = [held EXCEPT ![i] = "good"]
           /\ UNCHANGED <<seen, queue, panicked>>
  <2>1. seen' \in [Ids -> BOOLEAN] /\ held' \in [Ids -> {"good", "bad"}]
    BY <1>1, <1>5
  <2>2. QED
    BY <1>1, <1>2, <1>5, <2>1, StepEffect
<1>6. CASE closed /\ panicked' = TRUE /\ UNCHANGED <<snifferVars, wg, queue>>
  <2>1. UNCHANGED <<port, spc, cancelled, seen, held, first, wg, queue>>
    BY <1>6 DEF snifferVars
  <2>2. Types'
    BY <1>2, <1>6, <2>1 DEF SniffInv, Types, SnifferTypes, MapTypes, RestTypes
  <2>3. SniffInv'
    BY <1>2, <2>1, <2>2 DEF SniffInv, Owned, Mapped, Pending
  <2>4. Effect(i)
    BY <1>1, <1>2, <1>6, <2>1 DEF Effect, Others
  <2>5. QED
    BY <2>3, <2>4
<1>7. QED
  BY <1>3, <1>4, <1>5, <1>6 DEF SniffSend

(* What a step of the clean-up of sniffer i does.                          *)
CleanEffect(i) ==
  /\ Others(i) /\ UNCHANGED <<closed, ctx, panicked>>
  /\ wg \ {i} \subseteq wg'
  /\ spc[i] \notin Capturing /\ spc'[i] \notin Capturing

(* A discovered port is cleaned up: its sniffer has the handle until it    *)
(* removes it, so it never removes the handle of another one.              *)
LEMMA Cleans ==
  ASSUME SniffInv, NEW i \in Ids, CleanGet(i) \/ CleanDel1(i) \/ CleanDel2(i)
  PROVE  SniffInv' /\ CleanEffect(i)
<1>1. /\ SnifferTypes /\ MapTypes /\ RestTypes /\ Owned(i) /\ Mapped(i)
      /\ spc[i] \in {"get", "del1", "del2"} /\ spc[i] \notin Capturing
      /\ "del1" \in SnifferPcs /\ "del2" \in SnifferPcs
  BY DEF SniffInv, Types, CleanGet, CleanDel1, CleanDel2, Capturing, SnifferPcs
<1>2. port[i] \in DynPorts /\ port[i] \in Ports /\ port[i] \notin OutPorts /\ ~cancelled[i]
  BY <1>1, PortFacts DEF Owned
<1>3. UNCHANGED <<queue, closed, rpc, outTick, found, mpc, ctx, panicked>>
  BY DEF CleanGet, CleanDel1, CleanDel2
<1>4. CASE /\ Vanish(i) /\ wg' = wg \ {i} /\ UNCHANGED handle
           /\ listen' = listen \/ listen' = [listen EXCEPT ![port[i]] = None]
  <2>1. /\ SnifferTypes' /\ Others(i)
        /\ spc'[i] = "off" /\ port'[i] = None /\ cancelled'[i] = FALSE
    BY <1>1, <1>4, VanishMoves
  <2>2. Owned(i)' /\ Mapped(i)'
    BY <2>1 DEF Owned, Mapped, Capturing
  <2>3. OwnEntry(i)
    BY <1>1, <1>2, <1>4, PortFacts DEF OwnEntry, MapTypes
  <2>4. MapTypes' /\ RestTypes'
    BY <1>1, <1>3, <1>4 DEF MapTypes, RestTypes
  <2>5. QED
    BY <1>1, <1>3, <1>4, <2>1, <2>2, <2>3, <2>4, SnifferKeeps DEF CleanEffect, Capturing, Types
<1>5. CASE CleanGet(i) /\ Step(i, "del1") /\ UNCHANGED <<listen, handle, seen, held>>
  <2>1. /\ SnifferTypes' /\ Others(i)
        /\ spc'[i] = "del1" /\ port'[i] = port[i] /\ cancelled'[i] = cancelled[i]
    BY <1>1, <1>5, StepMoves DEF Step, SnifferTypes
  <2>2. Owned(i)' /\ Mapped(i)'
    BY <1>1, <1>2, <1>5, <2>1 DEF Owned, Mapped, Capturing, CleanGet
  <2>3. OwnEntry(i) /\ MapTypes' /\ RestTypes' /\ wg' = wg
    BY <1>1, <1>3, <1>5 DEF OwnEntry, MapTypes, RestTypes, Step
  <2>4. QED
    BY <1>1, <1>3, <2>1, <2>2, <2>3, SnifferKeeps DEF CleanEffect, Capturing, Types
<1>6. CASE CleanDel1(i)
  <2>1. /\ spc[i] = "del1" /\ handle' = [handle EXCEPT ![port[i]] = None]
        /\ Step(i, "del2") /\ UNCHANGED <<seen, held, listen>> /\ wg' = wg
    BY <1>6 DEF CleanDel1, Step
  <2>2. /\ SnifferTypes' /\ Others(i)
        /\ spc'[i] = "del2" /\ port'[i] = port[i] /\ cancelled'[i] = cancelled[i]
    BY <1>1, <2>1, StepMoves DEF Step, SnifferTypes
  <2>3. Owned(i)' /\ Mapped(i)'
    BY <1>1, <1>2, <2>1, <2>2 DEF Owned, Mapped, Capturing
  <2>4. handle[port[i]] = i
    BY <1>1, <2>1 DEF Mapped
  <2>5. OwnEntry(i)
    BY <1>1, <1>2, <2>1, <2>4 DEF OwnEntry, MapTypes
  <2>6. MapTypes' /\ RestTypes'
    BY <1>1, <1>3, <2>1 DEF MapTypes, RestTypes
  <2>7. QED
    BY <1>1, <1>3, <2>1, <2>2, <2>3, <2>5, <2>6, SnifferKeeps DEF CleanEffect, Capturing, Types
<1>7. QED
  BY <1>4, <1>5, <1>6 DEF CleanGet, CleanDel2, mapVars

-----------------------------------------------------------------------------
(* The Recv loop and the monitoring goroutine.                             *)

(* Steps that touch neither a sniffer nor a map.                           *)
LEMMA MapsStay ==
  ASSUME SniffInv, UNCHANGED <<port, spc, cancelled, seen, held, first, listen, handle>>,
         RestTypes', \A p \in found' : handle[p] = None
  PROVE  SniffInv'
<1>1. Types'
  BY DEF SniffInv, Types, SnifferTypes, MapTypes
<1>2. QED
  BY <1>1 DEF SniffInv, Owned, Mapped, Pending

(* An outgoing port is closed: whoever captures there is cancelled.        *)
LEMMA RecvBadKeeps == ASSUME SniffInv, RecvBad PROVE SniffInv'
<1>1. /\ SnifferTypes /\ MapTypes /\ RestTypes /\ queue # << >>
      /\ UNCHANGED <<port, spc, seen, held, first, closed, wg, rpc, outTick, found, mpc, ctx, panicked>>
      /\ queue' = Tail(queue)
  BY DEF SniffInv, Types, RecvBad
<1>2. PICK p : p = Head(queue).port
  OBVIOUS
<1>3. /\ p \in OutPorts /\ p \in Ports /\ listen[p] \in Ids
      /\ handle' = [handle EXCEPT ![p] = Nil] /\ listen' = [listen EXCEPT ![p] = None]
      /\ cancelled' = [cancelled EXCEPT ![listen[p]] = @ \/ port[listen[p]] = p]
  BY <1>1, <1>2, PortFacts DEF RecvBad, MapTypes
<1>4. PICK k \in Ids : k = listen[p]
  BY <1>3
<1>5. \A j \in Ids : cancelled'[j] = (cancelled[j] \/ (j = k /\ port[j] = p))
  BY <1>1, <1>3, <1>4 DEF SnifferTypes
<1>6. cancelled' \in [Ids -> BOOLEAN]
  BY <1>1, <1>3, <1>4 DEF SnifferTypes
<1>7. queue' \in Seq(Packets) /\ Len(queue') <= Cap
  BY <1>1, NetListenAssumption DEF RestTypes
<1>8. Types'
  BY <1>1, <1>3, <1>6, <1>7 DEF Types, SnifferTypes, MapTypes, RestTypes
<1>9. \A q \in Ports : q # p => handle'[q] = handle[q] /\ listen'[q] = listen[q]
  BY <1>1, <1>3 DEF MapTypes
<1>10. ASSUME NEW j \in Ids PROVE Owned(j)' /\ Mapped(j)'
  <2>1. Owned(j) /\ Mapped(j)
    BY DEF SniffInv
  <2>2. Owned(j)'
    BY <1>1, <1>3, <1>5, <2>1 DEF Owned
  <2>3. spc[j] # "off" => port[j] \in Ports
    BY <1>1, <2>1 DEF Owned, SnifferTypes
  <2>4. spc[j] \in Capturing /\ ~cancelled'[j] => port[j] # p /\ ~cancelled[j]
    BY <1>3, <1>4, <1>5, <2>1 DEF Mapped
  <2>5. spc[j] \in {"get", "del1"} => port[j] # p
    BY <1>3, <2>1, PortFacts DEF Owned
  <2>6. Mapped(j)'
    BY <1>1, <1>9, <2>1, <2>3, <2>4, <2>5 DEF Mapped, Capturing
  <2>7. QED
    BY <2>2, <2>6
<1>11. Pending'
  BY <1>1, <1>3, <1>9, PortFacts DEF SniffInv, Pending, RestTypes
<1>12. QED
  BY <1>8, <1>10, <1>11 DEF SniffInv

(* The sniffer of a port is chosen by an injection: it has no other port.  *)
LEMMA PortOfSniffer ==
  ASSUME NEW S, NEW T, NEW f \in Injections(S, T), NEW p \in S
  PROVE  f[p] \in T /\ (CHOOSE q \in S : f[q] = f[p]) = p
<1>1. f \in [S -> T] /\ \A a, b \in S : a # b => f[a] # f[b]
  BY DEF Injections
<1>2. (CHOOSE q \in S : f[q] = f[p]) \in S /\ f[CHOOSE q \in S : f[q] = f[p]] = f[p]
  OBVIOUS
<1>3. QED
  BY <1>1, <1>2

(* What registerNewSniffer does.                                           *)
Registered(S, f) ==
  /\ UNCHANGED cancelled
  /\ \A p \in S : /\ f[p] \in Free /\ spc'[f[p]] = "loop" /\ port'[f[p]] = p
                  /\ handle'[p] = f[p] /\ listen'[p] = f[p]
  /\ \A j \in Ids : (\A p \in S : f[p] # j) => port'[j] = port[j] /\ spc'[j] = spc[j]
  /\ \A p \in Ports \ S : handle'[p] = handle[p] /\ listen'[p] = listen[p]

(* Register does that.                                                     *)
LEMMA RegisterMoves ==
  ASSUME SnifferTypes, MapTypes, NEW S \in SUBSET Ports, NEW f \in Injections(S, Free),
         Register(S, f)
  PROVE  SnifferTypes' /\ MapTypes' /\ Registered(S, f)
<1>1. /\ port' = [i \in Ids |-> IF \E p \in S : f[p] = i THEN CHOOSE p \in S : f[p] = i ELSE port[i]]
      /\ spc' = [i \in Ids |-> IF \E p \in S : f[p] = i THEN "loop" ELSE spc[i]]
      /\ listen' = [p \in Ports |-> IF p \in S THEN f[p] ELSE listen[p]]
      /\ handle' = [p \in Ports |-> IF p \in S THEN f[p] ELSE handle[p]]
      /\ UNCHANGED <<cancelled, seen, held, first>>
  BY DEF Register
<1>2. \A p \in S : f[p] \in Free /\ f[p] \in Ids /\ (CHOOSE q \in S : f[q] = f[p]) = p
  BY PortOfSniffer DEF Free
<1>3. \A i \in Ids : (\E p \in S : f[p] = i) => (CHOOSE p \in S : f[p] = i) \in Ports
  OBVIOUS
<1>4. port' \in [Ids -> Ports \cup {None}] /\ spc' \in [Ids -> SnifferPcs]
  BY <1>1, <1>3 DEF SnifferTypes, SnifferPcs
<1>5. SnifferTypes'
  BY <1>1, <1>4 DEF SnifferTypes
<1>6. MapTypes'
  BY <1>1, <1>2 DEF MapTypes
<1>7. \A p \in S : spc'[f[p]] = "loop" /\ port'[f[p]] = p
  BY <1>1, <1>2
<1>8. \A p \in S : handle'[p] = f[p] /\ listen'[p] = f[p]
  BY <1>1
<1>9. \A j \in Ids : (\A p \in S : f[p] # j) => port'[j] = port[j] /\ spc'[j] = spc[j]
  BY <1>1
<1>10. \A p \in Ports \ S : handle'[p] = handle[p] /\ listen'[p] = listen[p]
  BY <1>1
<1>11. QED
  BY <1>1, <1>2, <1>5, <1>6, <1>7, <1>8, <1>9, <1>10 DEF Registered

(* Ports without a live sniffer are given new ones.                        *)
LEMMA RegisterKeeps ==
  ASSUME SniffInv, NEW S \in SUBSET Ports, NEW f \in Injections(S, Free), Register(S, f),
         \A p \in S : handle[p] \in {None, Nil}, RestTypes', found' \subseteq found \ S
  PROVE  SniffInv' /\ Registered(S, f)
<1>1. SnifferTypes /\ MapTypes /\ RestTypes
  BY DEF SniffInv, Types
<1>2. SnifferTypes' /\ MapTypes' /\ Registered(S, f)
  BY <1>1, RegisterMoves
<1>3. ASSUME NEW j \in Ids PROVE Owned(j)' /\ Mapped(j)'
  <2>1. Owned(j) /\ Mapped(j)
    BY DEF SniffInv
  <2>2. CASE \E p \in S : f[p] = j
    <3>1. PICK p \in S : f[p] = j
      BY <2>2
    <3>2. /\ spc[j] = "off" /\ spc'[j] = "loop" /\ port'[j] = p /\ p \in Ports
          /\ handle'[p] = j /\ listen'[p] = j /\ cancelled'[j] = cancelled[j]
      BY <1>2, <3>1 DEF Registered, Free
    <3>3. ~cancelled[j] /\ p # None
      BY <2>1, <3>2, PortFacts DEF Owned
    <3>4. QED
      BY <3>2, <3>3 DEF Owned, Mapped
  <2>3. CASE \A p \in S : f[p] # j
    <3>1. port'[j] = port[j] /\ spc'[j] = spc[j] /\ cancelled'[j] = cancelled[j]
      BY <1>2, <2>3 DEF Registered
    <3>2. Owned(j)'
      BY <2>1, <3>1 DEF Owned
    <3>3. spc[j] # "off" => port[j] \in Ports
      BY <1>1, <2>1 DEF Owned, SnifferTypes
    <3>4. spc[j] # "off" /\ handle[port[j]] = j => port[j] \in Ports \ S
      BY <3>3, PortFacts
    <3>5. Mapped(j)'
      BY <1>2, <2>1, <3>1, <3>4 DEF Mapped, Registered, Capturing
    <3>6. QED
      BY <3>2, <3>5
  <2>4. QED
    BY <2>2, <2>3
<1>4. Pending'
  BY <1>1, <1>2, PortFacts DEF SniffInv, Pending, Registered, RestTypes
<1>5. QED
  BY <1>2, <1>3, <1>4 DEF SniffInv, Types

(* The closed ports are opened again.                                      *)
LEMMA ReopenKeeps ==
  ASSUME SniffInv, NEW S \in SUBSET OutPorts, Reopen(S)
  PROVE  /\ SniffInv'
         /\ \E f \in Injections(S, Free) : Registered(S, f) /\ wg' = wg \cup {f[p] : p \in S}
<1>1. /\ S \subseteq ClosedPorts /\ UNCHANGED <<queue, closed, rpc, found, mpc, ctx, panicked>>
      /\ outTick' = "armed"
  BY DEF Reopen
<1>2. PICK f \in Injections(S, Free) : Register(S, f) /\ wg' = wg \cup {f[p] : p \in S}
  BY DEF Reopen
<1>3. S \in SUBSET Ports /\ \A p \in S : handle[p] \in {None, Nil}
  BY <1>1, PortFacts DEF ClosedPorts
<1>4. \A p \in S : f[p] \in Ids
  BY PortOfSniffer DEF Free
<1>5. RestTypes' /\ found \cap S = {}
  BY <1>1, <1>2, <1>4, PortFacts DEF SniffInv, Types, RestTypes
<1>6. found' \subseteq found \ S
  BY <1>1, <1>5
<1>7. SniffInv' /\ Registered(S, f)
  BY <1>2, <1>3, <1>5, <1>6, RegisterKeeps
<1>8. QED
  BY <1>2, <1>7

(* A discovered port gets a sniffer, or that fails.                        *)
LEMMA RegisterFoundKeeps ==
  ASSUME SniffInv, NEW p \in DynPorts, RegisterFound(p)
  PROVE  /\ SniffInv'
         /\ \/ UNCHANGED <<port, spc, wg>>
            \/ \E i \in Ids, f \in Injections({p}, Free) :
                 f[p] = i /\ Registered({p}, f) /\ wg' = wg \cup {i}
<1>1. /\ p \in found /\ found' = found \ {p} /\ handle[p] = None /\ p \in Ports
      /\ UNCHANGED <<queue, closed, rpc, outTick, mpc, ctx, panicked>>
  BY PortFacts DEF RegisterFound, SniffInv, Pending
<1>2. CASE UNCHANGED <<snifferVars, mapVars, wg>>
  <2>1. UNCHANGED <<port, spc, wg, listen, handle, snifferVars>>
    BY <1>2 DEF snifferVars, mapVars
  <2>2. RestTypes' /\ \A q \in found' : handle[q] = None
    BY <1>1, <2>1 DEF SniffInv, Types, RestTypes, Pending
  <2>3. QED
    BY <2>1, <2>2, MapsStay DEF snifferVars
<1>3. ASSUME NEW i \in Free, Register({p}, [q \in {p} |-> i]), wg' = wg \cup {i}
      PROVE  /\ SniffInv' /\ i \in Ids
             /\ [q \in {p} |-> i] \in Injections({p}, Free)
             /\ Registered({p}, [q \in {p} |-> i])
  <2>1. [q \in {p} |-> i] \in Injections({p}, Free) /\ i \in Ids /\ {p} \in SUBSET Ports
    BY <1>1 DEF Injections, Free
  <2>2. RestTypes' /\ found' \subseteq found \ {p} /\ \A q \in {p} : handle[q] \in {None, Nil}
    BY <1>1, <1>3, <2>1 DEF SniffInv, Types, RestTypes
  <2>3. QED
    BY <1>3, <2>1, <2>2, RegisterKeeps
<1>4. CASE \E i \in Free : Register({p}, [q \in {p} |-> i]) /\ wg' = wg \cup {i}
  <2>1. PICK i \in Free : Register({p}, [q \in {p} |-> i]) /\ wg' = wg \cup {i}
    BY <1>4
  <2>2. PICK f : f = [q \in {p} |-> i]
    OBVIOUS
  <2>3. /\ SniffInv' /\ i \in Ids /\ f \in Injections({p}, Free) /\ f[p] = i
        /\ Registered({p}, f)
    BY <1>3, <2>1, <2>2
  <2>4. QED
    BY <2>1, <2>3
<1>5. QED
  BY <1>2, <1>4 DEF RegisterFound

-----------------------------------------------------------------------------
(* The first invariant, whatever the captures do.                          *)

(* There are enough sniffers for any set of ports.                         *)
LEMMA EnoughSniffers ==
  ASSUME NEW S \in SUBSET Ports
  PROVE  (CHOOSE g \in Injections(S, Ids) : TRUE) \in Injections(S, Ids)
<1>1. PICK h : h \in Injections(Ports, Ids)
  BY NetListenAssumption
<1>2. [p \in S |-> h[p]] \in Injections(S, Ids)
  BY <1>1 DEF Injections
<1>3. QED
  BY <1>2

(* The initial state with sniffers f on the ports of S.                    *)
InitWith(S, f) ==
  /\ port = [i \in Ids |-> IF \E p \in S : f[p] = i THEN CHOOSE p \in S : f[p] = i ELSE None]
  /\ spc = [i \in Ids |-> IF \E p \in S : f[p] = i THEN "loop" ELSE "off"]
  /\ cancelled = [i \in Ids |-> FALSE] /\ seen = [i \in Ids |-> FALSE]
  /\ held = [i \in Ids |-> "good"]
  /\ first = [i \in Ids |-> \E p \in S : f[p] = i]
  /\ listen = [p \in Ports |-> IF p \in S THEN f[p] ELSE None]
  /\ handle = listen
  /\ queue = << >> /\ closed = FALSE
  /\ wg = {i \in Ids : \E p \in S : f[p] = i}
  /\ rpc = "select" /\ outTick = "armed" /\ found = {} /\ mpc \in {"select", "done"}
  /\ ctx = "live" /\ panicked = FALSE

(* Initially every static port and the ports first discovered have one.    *)
LEMMA SniffInit ==
  ASSUME Init
  PROVE  /\ SniffInv /\ \A i \in Ids : Awaited(i)
         /\ Incoming /\ ~panicked
<1>1. PICK D \in SUBSET DynPorts :
        InitWith(Static \cup D, CHOOSE g \in Injections(Static \cup D, Ids) : TRUE)
  BY Zenon DEF Init, InitWith
<1>2. PICK S \in SUBSET Ports : S = Static \cup D
  BY DEF Static, Ports
<1>3. PICK f \in Injections(S, Ids) : InitWith(S, f)
  BY <1>1, <1>2, EnoughSniffers, Zenon
<1>4. /\ queue = << >> /\ closed = FALSE /\ rpc = "select" /\ outTick = "armed" /\ found = {}
      /\ mpc \in {"select", "done"} /\ ctx = "live" /\ panicked = FALSE
  BY <1>3 DEF InitWith
<1>5. \A p \in S : f[p] \in Ids /\ (CHOOSE q \in S : f[q] = f[p]) = p
  BY PortOfSniffer
<1>6. \A p \in S : spc[f[p]] = "loop" /\ port[f[p]] = p /\ handle[p] = f[p] /\ listen[p] = f[p]
  BY <1>3, <1>5 DEF InitWith
<1>7. \A j \in Ids : (\A p \in S : f[p] # j) => spc[j] = "off" /\ port[j] = None
  BY <1>3 DEF InitWith
<1>8. \A i \in Ids : (\E p \in S : f[p] = i) => (CHOOSE p \in S : f[p] = i) \in Ports
  OBVIOUS
<1>9. SnifferTypes
  <2>1. port \in [Ids -> Ports \cup {None}] /\ spc \in [Ids -> SnifferPcs]
    BY <1>3, <1>8 DEF InitWith, SnifferPcs
  <2>2. cancelled \in [Ids -> BOOLEAN] /\ seen \in [Ids -> BOOLEAN] /\ first \in [Ids -> BOOLEAN]
    BY <1>3 DEF InitWith
  <2>3. held \in [Ids -> {"good", "bad"}]
    BY <1>3 DEF InitWith
  <2>4. QED
    BY <2>1, <2>2, <2>3 DEF SnifferTypes
<1>10. MapTypes
  BY <1>3, <1>5 DEF InitWith, MapTypes
<1>11. queue \in Seq(Packets) /\ Len(queue) <= Cap
  BY <1>4, NetListenAssumption
<1>12. closed \in BOOLEAN /\ panicked \in BOOLEAN /\ wg \subseteq Ids
  BY <1>3, <1>4 DEF InitWith
<1>13. RestTypes
  BY <1>4, <1>11, <1>12 DEF RestTypes
<1>14. ASSUME NEW j \in Ids PROVE Owned(j) /\ Mapped(j) /\ Awaited(j)
  <2>1. ~cancelled[j] /\ ~closed
    BY <1>3, <1>4 DEF InitWith
  <2>2. CASE \E p \in S : f[p] = j
    <3>1. PICK p \in S : f[p] = j
      BY <2>2
    <3>2. p \in Ports /\ spc[j] = "loop" /\ port[j] = p /\ handle[p] = j /\ listen[p] = j /\ j \in wg
      BY <1>3, <1>6, <3>1 DEF InitWith
    <3>3. QED
      BY <2>1, <3>2, PortFacts DEF Owned, Mapped, Awaited
  <2>3. CASE \A p \in S : f[p] # j
    <3>1. spc[j] = "off" /\ port[j] = None
      BY <1>7, <2>3
    <3>2. QED
      BY <2>1, <3>1 DEF Owned, Mapped, Awaited, Capturing
  <2>4. QED
    BY <2>2, <2>3
<1>15. Incoming
  <2>1. InPort \in S
    BY <1>2 DEF Static
  <2>2. f[InPort] \in Ids /\ port[f[InPort]] = InPort /\ spc[f[InPort]] \in Capturing
    BY <1>5, <1>6, <2>1 DEF Capturing
  <2>3. QED
    BY <1>4, <2>2 DEF Incoming
<1>16. QED
  BY <1>4, <1>9, <1>10, <1>13, <1>14, <1>15 DEF SniffInv, Types, Pending

(* The steps that only receive, tick, discover or end something.           *)
Quiet ==
  \/ (\E p \in Ports : Arrive(p))
  \/ RecvOther \/ RecvOutgoing \/ RecvDone \/ RecvExit \/ OutTickElapses \/ CloseQueue
  \/ (\E D \in SUBSET DynPorts \ {{}} : Discover(D))
  \/ MonitorDone \/ Cancel \/ Terminated \/ UNCHANGED vars

(* They touch neither sniffers nor maps.                                   *)
LEMMA QuietKeeps ==
  ASSUME SniffInv, Quiet
  PROVE  SniffInv' /\ UNCHANGED <<port, spc, cancelled, wg, panicked>>
<1>1. Types
  BY DEF SniffInv
<1>2. CASE RecvOther \/ RecvOutgoing
  <2>1. /\ queue # << >> /\ queue' = Tail(queue) /\ outTick' \in {"armed", outTick}
        /\ UNCHANGED <<snifferVars, listen, handle, closed, wg, rpc, found, mpc, ctx, panicked>>
    BY <1>2 DEF RecvOther, RecvOutgoing, mapVars
  <2>2. queue' \in Seq(Packets) /\ Len(queue') <= Cap
    BY <1>1, <2>1, NetListenAssumption DEF Types, RestTypes
  <2>3. RestTypes' /\ \A p \in found' : handle[p] = None
    BY <1>1, <2>1, <2>2 DEF Types, RestTypes, SniffInv, Pending
  <2>4. QED
    BY <2>1, <2>3, MapsStay DEF snifferVars
<1>3. CASE \E D \in SUBSET DynPorts \ {{}} : Discover(D)
  <2>1. PICK D \in SUBSET DynPorts : Discover(D)
    BY <1>3
  <2>2. /\ found' = {p \in D : handle[p] = None}
        /\ UNCHANGED <<snifferVars, listen, handle, queue, closed, wg, rpc, outTick, mpc, ctx, panicked>>
    BY <2>1 DEF Discover, mapVars
  <2>3. RestTypes' /\ \A p \in found' : handle[p] = None
    BY <1>1, <2>2 DEF Types, RestTypes
  <2>4. QED
    BY <2>2, <2>3, MapsStay DEF snifferVars
<1>4. CASE RecvDone \/ RecvExit \/ OutTickElapses \/ CloseQueue \/ MonitorDone \/ Cancel
  <2>1. /\ UNCHANGED <<snifferVars, listen, handle, queue, wg, found, panicked>>
        /\ closed' \in {closed, TRUE} /\ rpc' \in {rpc, "wait", "done"}
        /\ outTick' \in {outTick, "fired"} /\ mpc' \in {mpc, "done"} /\ ctx' \in {ctx, "done"}
    BY <1>4 DEF RecvDone, RecvExit, OutTickElapses, CloseQueue, MonitorDone, Cancel, mapVars
  <2>2. closed' \in BOOLEAN
    BY <1>1, <2>1 DEF Types, RestTypes
  <2>3. RestTypes' /\ \A p \in found' : handle[p] = None
    BY <1>1, <2>1, <2>2 DEF Types, RestTypes, SniffInv, Pending
  <2>4. QED
    BY <2>1, <2>3, MapsStay DEF snifferVars
<1>5. CASE Terminated \/ UNCHANGED vars
  <2>1. UNCHANGED <<snifferVars, listen, handle, queue, closed, wg, rpc, outTick, found, mpc, ctx, panicked>>
    BY <1>5 DEF Terminated, vars, mapVars
  <2>2. RestTypes' /\ \A p \in found' : handle[p] = None
    BY <1>1, <2>1 DEF Types, RestTypes, SniffInv, Pending
  <2>3. QED
    BY <2>1, <2>2, MapsStay DEF snifferVars
<1>6. CASE \E p \in Ports : Arrive(p)
  <2>1. UNCHANGED <<port, spc, cancelled, seen, held, first, listen, handle, queue, closed, wg, rpc,
                    outTick, found, mpc, ctx, panicked>>
    BY <1>6 DEF Arrive, mapVars
  <2>2. RestTypes' /\ \A p \in found' : handle[p] = None
    BY <1>1, <2>1 DEF Types, RestTypes, SniffInv, Pending
  <2>3. QED
    BY <2>1, <2>2, MapsStay
<1>7. QED
  BY <1>2, <1>3, <1>4, <1>5, <1>6 DEF Quiet

(* The steps of the listener, sorted.                                      *)
LEMMA NextCases ==
  ASSUME [Next]_vars
  PROVE  \/ \E i \in Ids : SniffLoop(i) \/ SniffRead(i) \/ SniffError(i) \/ SniffSend(i)
         \/ \E i \in Ids : CleanGet(i) \/ CleanDel1(i) \/ CleanDel2(i)
         \/ RecvBad
         \/ \E S \in SUBSET OutPorts : Reopen(S)
         \/ \E p \in DynPorts : RegisterFound(p)
         \/ Quiet
BY DEF Next, SnifferStep, RecvStep, Quiet

(* Every step keeps the first invariant.                                   *)
LEMMA SniffNext == ASSUME SniffInv, [Next]_vars PROVE SniffInv'
<1>1. ASSUME NEW i \in Ids, SniffLoop(i) \/ SniffRead(i) \/ SniffError(i) \/ SniffSend(i)
      PROVE  SniffInv'
  BY <1>1, SniffReads, SniffSends
<1>2. ASSUME NEW i \in Ids, CleanGet(i) \/ CleanDel1(i) \/ CleanDel2(i) PROVE SniffInv'
  BY <1>2, Cleans
<1>3. QED
  BY <1>1, <1>2, NextCases, RecvBadKeeps, ReopenKeeps, RegisterFoundKeeps, QuietKeeps

(* What arrives is flagged, what is read is not flagged any more.          *)
LEMMA ArrivedNext ==
  ASSUME arrived \in [Ids -> BOOLEAN], [Next]_vars
  PROVE  arrived' \in [Ids -> BOOLEAN]
<1>1. ASSUME NEW i \in Ids, arrived' = [arrived EXCEPT ![i] = FALSE]
      PROVE  arrived' \in [Ids -> BOOLEAN]
  BY <1>1
<1>2. ASSUME NEW p \in Ports, Arrive(p) PROVE arrived' \in [Ids -> BOOLEAN]
  BY <1>2, Zenon DEF Arrive
<1>3. ASSUME NEW i \in Ids, SniffRead(i) \/ SniffError(i) \/ SnifferStep(i)
      PROVE  UNCHANGED arrived \/ arrived' = [arrived EXCEPT ![i] = FALSE]
  BY <1>3 DEF SniffRead, SniffValid, SniffInvalid, SniffError, SnifferStep, SniffLoop, SniffSend,
              CleanGet, CleanDel1, CleanDel2, Leave, snifferVars
<1>4. ASSUME RecvStep \/ OutTickElapses \/ CloseQueue \/ MonitorDone \/ Cancel \/ Terminated
      PROVE  UNCHANGED arrived
  BY <1>4 DEF RecvStep, RecvOther, RecvOutgoing, RecvBad, RecvDone, RecvExit, OutTickElapses,
              CloseQueue, MonitorDone, Cancel, Terminated, snifferVars, vars
<1>5. ASSUME NEW S, Reopen(S) PROVE UNCHANGED arrived
  BY <1>5 DEF Reopen, Register
<1>6. ASSUME NEW D, Discover(D) PROVE UNCHANGED arrived
  BY <1>6 DEF Discover, snifferVars
<1>7. ASSUME NEW p, RegisterFound(p) PROVE UNCHANGED arrived
  BY <1>7 DEF RegisterFound, Register, snifferVars
<1>8. CASE UNCHANGED vars
  BY <1>8 DEF vars, snifferVars
<1>9. QED
  BY <1>1, <1>2, <1>3, <1>4, <1>5, <1>6, <1>7, <1>8 DEF Next

(* The maps and the sniffers always have the types declared, and a sniffer *)
(* has a port exactly as long as its goroutine exists.                     *)
THEOREM ListenerTypes == Spec => []TypeOK
<1>1. Init => SniffInv /\ arrived \in [Ids -> BOOLEAN]
  <2>1. Init => arrived \in [Ids -> BOOLEAN]
    BY DEF Init
  <2>2. QED
    BY <2>1, SniffInit
<1>2. SniffInv /\ [Next]_vars => SniffInv'
  BY SniffNext
<1>3. arrived \in [Ids -> BOOLEAN] /\ [Next]_vars => (arrived \in [Ids -> BOOLEAN])'
  BY ArrivedNext
<1>4. SniffInv /\ arrived \in [Ids -> BOOLEAN] => TypeOK
  BY DEF SniffInv, Types, SnifferTypes, MapTypes, RestTypes, Owned, TypeOK
<1>5. QED
  BY <1>1, <1>2, <1>3, <1>4, PTL DEF Spec

(* For any set of ports and any number of sniffers: closing a port and     *)
(* opening it again, or losing and discovering it again, never leaves two  *)
(* sniffers on it that are both to go on, even if captures end by          *)
(* themselves.                                                             *)
THEOREM PortsAreNotMultiplied == Spec => []OneLiveSniffer
<1>1. Init => SniffInv
  BY SniffInit
<1>2. SniffInv /\ [Next]_vars => SniffInv'
  BY SniffNext
<1>3. SniffInv => OneLiveSniffer
  BY DEF SniffInv, Mapped, OneLiveSniffer
<1>4. QED
  BY <1>1, <1>2, <1>3, PTL DEF Spec

-----------------------------------------------------------------------------
(* The channel of the sniffers.  The capture of the incoming port must not *)
(* end by itself: it keeps the wait group from becoming empty.             *)

(* What is left to show of a step of a sniffer.                            *)
LEMMA SnifferListens ==
  ASSUME ListenInv, SniffInv', NEW i \in Ids, InPort \notin EofPorts, Effect(i) \/ CleanEffect(i)
  PROVE  ListenInv'
<1>1. /\ SniffInv /\ Incoming /\ ~panicked /\ \A j \in Ids : Awaited(j)
      /\ Owned(i) /\ ctx \in {"live", "done"}
  BY DEF ListenInv, SniffInv, Types, RestTypes
<1>2. Others(i) /\ UNCHANGED <<closed, ctx>> /\ wg \ {i} \subseteq wg'
  BY DEF Effect, CleanEffect
<1>3. Awaited(i)'
  <2>1. spc'[i] \in Capturing => i \in wg'
    BY <1>1 DEF Effect, CleanEffect, Awaited
  <2>2. closed => spc'[i] \notin {"read", "send"}
    BY <1>1 DEF Effect, CleanEffect, Awaited, Incoming, Done, Capturing
  <2>3. QED
    BY <1>2, <2>1, <2>2 DEF Awaited
<1>4. \A j \in Ids : j # i => Awaited(j)'
  BY <1>1, <1>2 DEF Awaited, Others
<1>5. ~panicked'
  BY <1>1 DEF Effect, CleanEffect, Awaited
<1>6. Incoming'
  <2>1. closed' => ctx' = "done"
    BY <1>1, <1>2 DEF Incoming
  <2> SUFFICES ASSUME ctx = "live"
               PROVE  \E k \in Ids : port'[k] = InPort /\ spc'[k] \in Capturing
    BY <1>2, <2>1 DEF Incoming
  <2>2. PICK k \in Ids : port[k] = InPort /\ spc[k] \in Capturing
    BY <1>1 DEF Incoming
  <2>3. CASE k # i
    BY <1>2, <2>2, <2>3 DEF Others
  <2>4. CASE k = i
    <3>1. ~Done(i) /\ port[i] \notin OutPorts \cup DynPorts \cup EofPorts
      BY <1>1, <2>2, <2>4, PortFacts DEF Done, Owned
    <3>2. spc'[i] \in Capturing /\ port'[i] = port[i]
      BY <2>2, <2>4, <3>1 DEF Effect, CleanEffect
    <3>3. QED
      BY <2>2, <2>4, <3>2
  <2>5. QED
    BY <2>3, <2>4
<1>7. QED
  BY <1>3, <1>4, <1>5, <1>6 DEF ListenInv

(* New sniffers are waited for, and start in the loop.                     *)
LEMMA RegisterListens ==
  ASSUME ListenInv, SniffInv', NEW S, NEW f, Registered(S, f), wg' = wg \cup {f[p] : p \in S},
         UNCHANGED <<closed, ctx, panicked>>
  PROVE  ListenInv'
<1>1. Incoming /\ ~panicked /\ \A j \in Ids : Awaited(j)
  BY DEF ListenInv
<1>2. ASSUME NEW j \in Ids PROVE Awaited(j)'
  <2>1. CASE \E p \in S : f[p] = j
    <3>1. PICK p \in S : f[p] = j
      BY <2>1
    <3>2. spc'[j] = "loop" /\ j \in wg'
      BY <3>1 DEF Registered
    <3>3. QED
      BY <3>2 DEF Awaited
  <2>2. CASE \A p \in S : f[p] # j
    BY <1>1, <2>2 DEF Awaited, Registered
  <2>3. QED
    BY <2>1, <2>2
<1>3. Incoming'
  <2> SUFFICES ASSUME ctx = "live"
               PROVE  \E k \in Ids : port'[k] = InPort /\ spc'[k] \in Capturing
    BY <1>1 DEF Incoming
  <2>1. PICK k \in Ids : port[k] = InPort /\ spc[k] \in Capturing
    BY <1>1 DEF Incoming
  <2>2. \A p \in S : f[p] # k
    BY <2>1 DEF Registered, Free, Capturing
  <2>3. QED
    BY <2>1, <2>2 DEF Registered
<1>4. QED
  BY <1>1, <1>2, <1>3 DEF ListenInv

(* Every step keeps the second invariant.                                  *)
LEMMA ListenNext ==
  ASSUME ListenInv, [Next]_vars, InPort \notin EofPorts
  PROVE  ListenInv'
<1>1. /\ SniffInv /\ SniffInv' /\ Incoming /\ ~panicked /\ \A j \in Ids : Awaited(j)
      /\ ctx \in {"live", "done"}
  BY SniffNext DEF ListenInv, SniffInv, Types, RestTypes
<1>2. ASSUME NEW i \in Ids, SniffLoop(i) \/ SniffRead(i) \/ SniffError(i) \/ SniffSend(i)
      PROVE  ListenInv'
  <2>1. Effect(i)
    BY <1>1, <1>2, SniffReads, SniffSends
  <2>2. QED
    BY <1>1, <2>1, SnifferListens
<1>3. ASSUME NEW i \in Ids, CleanGet(i) \/ CleanDel1(i) \/ CleanDel2(i) PROVE ListenInv'
  <2>1. CleanEffect(i)
    BY <1>1, <1>3, Cleans
  <2>2. QED
    BY <1>1, <2>1, SnifferListens
<1>4. CASE RecvBad
  <2>1. UNCHANGED <<port, spc, closed, wg, ctx, panicked>>
    BY <1>4 DEF RecvBad
  <2>2. QED
    BY <1>1, <2>1 DEF ListenInv, Awaited, Incoming
<1>5. ASSUME NEW S \in SUBSET OutPorts, Reopen(S) PROVE ListenInv'
  <2>1. PICK f \in Injections(S, Free) : Registered(S, f) /\ wg' = wg \cup {f[p] : p \in S}
    BY <1>1, <1>5, ReopenKeeps
  <2>2. UNCHANGED <<closed, ctx, panicked>>
    BY <1>5 DEF Reopen
  <2>3. QED
    BY <1>1, <2>1, <2>2, RegisterListens
<1>6. ASSUME NEW p \in DynPorts, RegisterFound(p) PROVE ListenInv'
  <2>1. UNCHANGED <<closed, ctx, panicked>>
    BY <1>6 DEF RegisterFound
  <2>2. CASE UNCHANGED <<port, spc, wg>>
    BY <1>1, <2>1, <2>2 DEF ListenInv, Awaited, Incoming
  <2>3. ASSUME NEW i \in Ids, NEW f \in Injections({p}, Free),
               f[p] = i, Registered({p}, f), wg' = wg \cup {i}
        PROVE  ListenInv'
    <3>1. wg' = wg \cup {f[q] : q \in {p}}
      BY <2>3
    <3>2. QED
      BY <1>1, <2>1, <2>3, <3>1, RegisterListens
  <2>4. QED
    BY <1>1, <1>6, <2>2, <2>3, RegisterFoundKeeps
<1>7. CASE Quiet
  <2>1. UNCHANGED <<port, spc, wg, panicked>>
    BY <1>1, <1>7, QuietKeeps
  <2>2. CASE CloseQueue
    <3>1. wg = {} /\ UNCHANGED ctx
      BY <2>2 DEF CloseQueue
    <3>2. \A j \in Ids : spc[j] \notin Capturing
      BY <1>1, <3>1 DEF Awaited
    <3>3. ctx = "done"
      BY <1>1, <3>2 DEF Incoming
    <3>4. QED
      BY <1>1, <2>1, <3>1, <3>2, <3>3 DEF ListenInv, Awaited, Incoming, Capturing
  <2>3. CASE ~CloseQueue
    <3>1. UNCHANGED closed /\ ctx' \in {ctx, "done"}
      BY <1>7, <2>3 DEF Quiet, RecvOther, RecvOutgoing, RecvDone, RecvExit, OutTickElapses,
                        Discover, MonitorDone, Cancel, Terminated, Arrive, vars
    <3>2. QED
      BY <1>1, <2>1, <3>1 DEF ListenInv, Awaited, Incoming
  <2>4. QED
    BY <2>2, <2>3
<1>8. QED
  BY <1>2, <1>3, <1>4, <1>5, <1>6, <1>7, NextCases

(* Unless the capture of the incoming port ends by itself, no sniffer      *)
(* sends on the closed channel: the wait group becomes empty only when the *)
(* context is done, and a sniffer that is registered after that ends       *)
(* before it reads.                                                        *)
THEOREM ClosedChannelIsNotUsed ==
  ASSUME InPort \notin EofPorts PROVE Spec => []NoSendOnClosed
<1>1. Init => ListenInv
  BY SniffInit DEF ListenInv
<1>2. ListenInv /\ [Next]_vars => ListenInv'
  BY ListenNext
<1>3. ListenInv => NoSendOnClosed
  BY DEF ListenInv, NoSendOnClosed
<1>4. QED
  BY <1>1, <1>2, <1>3, PTL DEF Spec
=============================================================================
