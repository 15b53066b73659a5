------------------------------ MODULE Startup ------------------------------
(***************************************************************************)
(* From the command line to a running gateway (main.go: run; gateway.go:   *)
(* New and the end of Start; netlisten.go: NewNetworkListener; udp_l.go:   *)
(* ListPotentialUDPPorts): what is constructed for which flags, in which   *)
(* order, and how the interrupt signal is dealt with meanwhile.            *)
(***************************************************************************)
EXTENDS FDSet, Sequences

CONSTANTS
  Configs,   \* configurations the gateway is started with
  Traffic    \* destination ports of UDP packets on the interface

(* config.Gateway, after flag parsing.  range is DynamicPortRangeString    *)
(* split at "-": each part a number, or None for what is not one.          *)
Config == [noValidator : BOOLEAN, firedancer : BOOLEAN, iface : BOOLEAN,
           stakedNode : BOOLEAN, stakedNodes : BOOLEAN,
           range : Seq(Nat \cup {None}),
           server : Nat, tvu : Nat, broadcast : Nat]

ASSUME StartupAssumption == Configs \subseteq Config /\ Traffic \subseteq 0..MaxPort

VARIABLES
  cfg,       \* the configuration
  pc,        \* how far run has come
  sig,       \* an interrupt is waiting in the channel sig
  nl,        \* the network listener exists
  sniffed,   \* its sniffers: direction and port
  seen,      \* ports of ListPotentialUDPPorts
  timer,     \* its timer has fired
  fdmon,     \* the Firedancer sniffer exists
  fds,       \* Port of serverFd, send2OFRFd, send2NodeFd
  source     \* the local worker that Start launched

listenVars == <<nl, sniffed, seen, timer>>
vars == <<fdVars, cfg, pc, sig, listenVars, fdmon, fds, source>>

Init ==
  /\ FDInit
  /\ cfg \in Configs /\ pc = "flags" /\ sig = FALSE
  /\ nl = FALSE /\ sniffed = {} /\ seen = {} /\ timer = FALSE
  /\ fdmon = FALSE /\ fds = [server |-> None, ofr |-> None, node |-> None]
  /\ source = "none"

-----------------------------------------------------------------------------
(* The flags.  The parts of a string split at "-" are not negative, so the *)
(* test for numbers below zero never fails; a single part is a panic.      *)
FlagsOK(c) ==
  /\ c.noValidator \/ c.iface
  /\ Len(c.range) >= 2
  /\ None \notin {c.range[1], c.range[2]}
  /\ c.range[2] >= c.range[1]

CheckFlags ==
  /\ pc = "flags"
  /\ pc' = IF FlagsOK(cfg) THEN "setup" ELSE "ended"
  /\ UNCHANGED <<fdVars, cfg, sig, listenVars, fdmon, fds, source>>

(* Faulty variant: a gateway that is not staked gets no listener.          *)
NeedsListener_Staked(c) == ~c.noValidator /\ ~c.firedancer /\ c.stakedNode

(* "assign net listener only when running with validator".                 *)
NeedsListener(c) == ~c.noValidator /\ ~c.firedancer

(* The logger, the signal channel, the validator's address, the cache and  *)
(* the statistics; a failing Fluentd client only closes the log.           *)
Setup ==
  /\ pc = "setup"
  /\ pc' = IF cfg.tvu > MaxPort THEN "ended"
           ELSE IF NeedsListener(cfg) THEN "listener" ELSE "server"
  /\ UNCHANGED <<fdVars, cfg, sig, listenVars, fdmon, fds, source>>

-----------------------------------------------------------------------------
(* NewNetworkListener.                                                     *)

TVUBroadcastOffset == 11

OutPorts(c) ==
  IF ~c.stakedNode THEN {}
  ELSE IF c.broadcast = 0 THEN {c.tvu + TVUBroadcastOffset + i : i \in 0..9}
  ELSE {c.broadcast}

(* registerSniffers: the known ports, as 16-bit numbers.                   *)
RegisterSniffers ==
  /\ pc = "listener"
  /\ sniffed' = {<<"out", p % (MaxPort + 1)>> : p \in OutPorts(cfg)} \cup {<<"in", cfg.tvu>>}
  /\ \/ cfg.stakedNodes /\ pc' = "discover" /\ UNCHANGED nl
     \/ ~cfg.stakedNodes /\ pc' = "server" /\ nl' = TRUE
  /\ UNCHANGED <<fdVars, cfg, sig, seen, timer, fdmon, fds, source>>

(* ListPotentialUDPPorts opens a capture, or the discovery finds nothing.  *)
OpenCapture ==
  /\ pc = "discover"
  /\ \/ pc' = "scan" /\ UNCHANGED nl
     \/ pc' = "server" /\ nl' = TRUE
  /\ UNCHANGED <<fdVars, cfg, sig, sniffed, seen, timer, fdmon, fds, source>>

TimerFires ==
  /\ pc = "scan" /\ ~timer
  /\ timer' = TRUE
  /\ UNCHANGED <<fdVars, cfg, pc, sig, nl, sniffed, seen, fdmon, fds, source>>

(* Faulty variant: the timer is looked at for a port not seen before.      *)
ReadPacket_NewPorts(p) ==
  /\ pc = "scan"
  /\ seen' = seen \cup {p}
  /\ pc' = IF timer /\ p \notin seen THEN "dynamic" ELSE "scan"
  /\ UNCHANGED <<fdVars, cfg, sig, nl, sniffed, timer, fdmon, fds, source>>

(* A packet with complete headers.  Read errors, time-outs of the poll and *)
(* short packets go back to the read, past the look at the timer.          *)
ReadPacket(p) ==
  /\ pc = "scan"
  /\ seen' = seen \cup {p}
  /\ pc' = IF timer THEN "dynamic" ELSE "scan"
  /\ UNCHANGED <<fdVars, cfg, sig, nl, sniffed, timer, fdmon, fds, source>>

Excluded(c) == OutPorts(c) \cup {c.tvu, c.server}

(* createDynamicSniffers: a sniffer for every new port; one that cannot be *)
(* opened is left out.                                                     *)
AddDynamic ==
  /\ pc = "dynamic"
  /\ \E S \in SUBSET {<<"in", p>> : p \in seen \ Excluded(cfg)} : sniffed' = sniffed \cup S
  /\ nl' = TRUE /\ seen' = {} /\ timer' = FALSE
  /\ pc' = "server"
  /\ UNCHANGED <<fdVars, cfg, sig, fdmon, fds, source>>

-----------------------------------------------------------------------------
(* The rest of run.                                                        *)

BindServer ==
  /\ pc = "server"
  /\ NewFDSet(cfg.range[1], cfg.range[2])
  /\ \E ok \in BOOLEAN :
       /\ Server(cfg.server, ok)
       /\ pc' = IF ok THEN "options" ELSE "ended"
       /\ fds' = IF ok THEN [fds EXCEPT !.server = cfg.server] ELSE fds
  /\ UNCHANGED <<search, refused, cfg, sig, listenVars, fdmon, source>>

SetOptions ==
  /\ pc = "options"
  /\ fdmon' = cfg.firedancer
  /\ pc' = "ofr"
  /\ UNCHANGED <<fdVars, cfg, sig, listenVars, fds, source>>

(* gateway.New asks for two descriptors, one after the other.              *)
Search ==
  /\ pc \in {"ofr", "node"}
  /\ NextFD \/ TryPort \/ GiveUp
  /\ UNCHANGED <<cfg, pc, sig, listenVars, fdmon, fds, source>>

TakeFD ==
  /\ pc \in {"ofr", "node"}
  /\ \/ /\ search.pc = "found"
        /\ fds' = [fds EXCEPT ![pc] = search.fd]
        /\ pc' = IF pc = "ofr" THEN "node" ELSE "start"
     \/ search.pc = "failed" /\ pc' = "ended" /\ UNCHANGED fds
  /\ search' = Idle /\ refused' = {}
  /\ UNCHANGED <<taken, own, fdset, cfg, sig, listenVars, fdmon, source>>

(* Start, once registered (see Registration), launches the workers.        *)
Start ==
  /\ pc = "start"
  /\ source' = IF cfg.noValidator THEN "alive"
               ELSE IF fdmon THEN "firedancer" ELSE "listener"
  /\ pc' = "up"
  /\ UNCHANGED <<fdVars, cfg, sig, listenVars, fdmon, fds>>

(* A call that may fail does: opening the log, finding the interface or a  *)
(* capture handle, the gRPC client, an extra address, attaching to         *)
(* Firedancer, a socket, the registration.                                 *)
Fail ==
  /\ pc \in {"setup", "listener", "server", "options", "ofr", "node", "start"}
  /\ search.pc = "idle"
  /\ pc' = "ended"
  /\ UNCHANGED <<fdVars, cfg, sig, listenVars, fdmon, fds, source>>

(* From signal.Notify on an interrupt is kept, and looked at by run only   *)
(* when everything is up.                                                  *)
Interrupt ==
  /\ pc # "ended" /\ ~sig
  /\ IF pc \in {"flags", "setup"} THEN pc' = "ended" /\ UNCHANGED sig
                                  ELSE sig' = TRUE /\ UNCHANGED pc
  /\ UNCHANGED <<fdVars, cfg, listenVars, fdmon, fds, source>>

Shutdown ==
  /\ pc = "up" /\ sig
  /\ pc' = "ended"
  /\ UNCHANGED <<fdVars, cfg, sig, listenVars, fdmon, fds, source>>

OtherProcess ==
  /\ \E p \in Contended : Contend(p)
  /\ UNCHANGED <<cfg, pc, sig, listenVars, fdmon, fds, source>>

Main ==
  \/ CheckFlags \/ Setup
  \/ RegisterSniffers \/ OpenCapture \/ (\E p \in Traffic : ReadPacket(p)) \/ AddDynamic
  \/ BindServer \/ SetOptions \/ Search \/ TakeFD \/ Start \/ Shutdown

Next == Main \/ TimerFires \/ Fail \/ Interrupt \/ OtherProcess

Spec == Init /\ [][Next]_vars

(* run goes on, the registration call answers, packets with complete       *)
(* headers keep arriving, and the timer fires.                             *)
FairSpec == Spec /\ WF_vars(Main) /\ WF_vars(TimerFires)

-----------------------------------------------------------------------------
(* A running gateway has what its workers use, whatever the flags: the     *)
(* source that Start launches was constructed by run, which decides by     *)
(* other tests; the sending sockets are bound to the ports they report,    *)
(* different ones of the range and not the server's; and no sniffer takes  *)
(* the relay's packets at the server port for the validator's (unless TVU  *)
(* and server port are configured to be the same, or the server port is    *)
(* left to the system).                                                    *)
Wired ==
  pc = "up" =>
    /\ source = "listener" => nl /\ <<"in", cfg.tvu>> \in sniffed
    /\ source = "firedancer" => fdmon
    /\ source = "alive" <=> cfg.noValidator
    /\ {fds.ofr, fds.node} \subseteq own \cap (cfg.range[1]..cfg.range[2])
    /\ fds.ofr # fds.node /\ fds.server \notin {fds.ofr, fds.node}
    /\ cfg.server \notin {0, cfg.tvu} => <<"in", cfg.server>> \notin sniffed

(* An interrupt ends the process, also one that arrives while the gateway  *)
(* is starting and is kept until then: the discovery of ports, the search  *)
(* for descriptors and the registration all come to an end.                *)
InterruptHonoured == sig ~> pc = "ended"
=============================================================================
