--------------------------- MODULE StartupProofs ---------------------------
(***************************************************************************)
(* Proofs about Startup and FDSet, for every configuration and port range: *)
(* what the search of NextFD has tried, and what a running gateway has.    *)
(***************************************************************************)
EXTENDS Startup, SequenceTheorems, TLAPS

(* The flags were accepted.                                                *)
Accepted ==
  /\ cfg \in Config
  /\ pc \notin {"flags", "ended"} => FlagsOK(cfg)

-----------------------------------------------------------------------------
(* The descriptor set: where the search is, and what it has tried.         *)
SetTypes ==
  /\ fdset \in [min : Nat, max : Nat, current : Nat]
  /\ fdset.min <= fdset.current /\ fdset.current <= fdset.max
  /\ search \in [pc : {"idle", "try", "found", "failed"}, start : Nat, first : BOOLEAN,
                 fd : Nat \cup {None}]

Searching ==
  /\ search.pc # "idle" => fdset.min <= search.start /\ search.start <= fdset.max
  /\ search.pc = "try" /\ search.first => refused = {} /\ search.start = fdset.current
  /\ search.pc = "try" /\ fdset.min # 0 => search.fd = None
  /\ search.pc = "found" => /\ search.fd \in fdset.min .. fdset.max
                            /\ search.fd # 0 /\ search.fd \in own

SetInv == SetTypes /\ Searching /\ SearchComplete

-----------------------------------------------------------------------------
(* The parts of the gateway.                                               *)

AfterListener == {"server", "options", "ofr", "node", "start", "up"}
AfterBind     == {"options", "ofr", "node", "start", "up"}
AfterOptions  == {"ofr", "node", "start", "up"}
AfterFirst    == {"node", "start", "up"}

(* The listener exists where it is needed; only the TVU port and ports     *)
(* other than the server's are sniffed for incoming packets.               *)
Listener ==
  /\ pc \in {"flags", "setup", "listener"} => sniffed = {}
  /\ pc \in {"discover", "scan", "dynamic"} => <<"in", cfg.tvu>> \in sniffed
  /\ pc \in AfterListener /\ NeedsListener(cfg) => nl /\ <<"in", cfg.tvu>> \in sniffed
  /\ \A q : <<"in", q>> \in sniffed => q = cfg.tvu \/ q # cfg.server

(* The sockets that are bound, each to a port of its own.                  *)
Sockets ==
  /\ fds \in [server : Nat \cup {None}, ofr : Nat \cup {None}, node : Nat \cup {None}]
  /\ pc \notin {"ofr", "node"} => search.pc = "idle"
  /\ pc \in AfterBind => /\ fdset.min = cfg.range[1] /\ fdset.max = cfg.range[2]
                         /\ fds.server = cfg.server
  /\ pc \in AfterBind /\ search.pc # "failed" => fds.server \in own \cup {0}
  /\ pc \in AfterFirst /\ search.pc # "failed" =>
       /\ fds.ofr \in own /\ fds.ofr # 0 /\ fds.ofr # fds.server
       /\ fds.ofr \in cfg.range[1] .. cfg.range[2]
  /\ pc \in {"ofr", "node"} /\ search.pc = "found" => search.fd # fds.server
  /\ pc = "node" /\ search.pc = "found" => search.fd # fds.ofr
  /\ pc \in {"start", "up"} =>
       /\ fds.node \in own /\ fds.node # fds.ofr /\ fds.node # fds.server
       /\ fds.node \in cfg.range[1] .. cfg.range[2]

(* The source that was launched is the one that was set up.                *)
Launched ==
  /\ pc \in AfterOptions => fdmon = cfg.firedancer
  /\ pc = "up" => source = IF cfg.noValidator THEN "alive"
                           ELSE IF fdmon THEN "firedancer" ELSE "listener"

StartInv == Accepted /\ SetInv /\ Listener /\ Sockets /\ Launched

-----------------------------------------------------------------------------
(* The search.                                                             *)

(* The position stays within the range.                                    *)
LEMMA AdvanceInRange ==
  ASSUME SetTypes
  PROVE  /\ Advance(fdset) \in Nat /\ fdset.min <= Advance(fdset) /\ Advance(fdset) <= fdset.max
         /\ Advance(fdset) = IF fdset.current = fdset.max THEN fdset.min ELSE fdset.current + 1
BY DEF SetTypes, Advance

(* A turn of the loop passes the port it tries, which was not passed       *)
(* before, also across the end of the range.                               *)
LEMMA PassedGrows ==
  ASSUME SetTypes, Searching, search.pc = "try", search.first \/ fdset.current # search.start,
         fdset' = [fdset EXCEPT !.current = Advance(fdset)],
         search'.first = FALSE, search'.start = search.start
  PROVE  Passed' = Passed \cup {fdset.current} /\ fdset.current \notin Passed
<1>1. PICK a \in Nat, b \in Nat, c \in Nat, s \in Nat :
        a = fdset.min /\ b = fdset.max /\ c = fdset.current /\ s = search.start
  BY DEF SetTypes
<1>2. a <= c /\ c <= b /\ a <= s /\ s <= b
  BY <1>1 DEF SetTypes, Searching
<1>3. PICK d \in Nat : d = Advance(fdset)
  BY AdvanceInRange
<1>4. d = IF c = b THEN a ELSE c + 1
  BY <1>1, <1>3, AdvanceInRange
<1>5. fdset'.min = a /\ fdset'.max = b /\ fdset'.current = d
  BY <1>1, <1>3 DEF SetTypes
<1>6. Passed' = {p \in a .. b : IF s < d THEN s <= p /\ p < d ELSE s <= p \/ p < d}
  BY <1>1, <1>5 DEF Passed
<1>7. CASE search.first
  <2>1. Passed = {} /\ s = c
    BY <1>1, <1>7 DEF Passed, Searching
  <2>2. Passed' = {c}
    BY <1>2, <1>4, <1>6, <2>1
  <2>3. QED
    BY <1>1, <2>1, <2>2
<1>8. CASE ~search.first
  <2>1. Passed = {p \in a .. b : IF s < c THEN s <= p /\ p < c ELSE s <= p \/ p < c} /\ c # s
    BY <1>1, <1>8 DEF Passed
  <2>2. c \notin Passed
    BY <1>2, <2>1
  <2>3. Passed' = Passed \cup {c}
    BY <1>2, <1>4, <1>6, <2>1
  <2>4. QED
    BY <1>1, <2>2, <2>3
<1>9. QED
  BY <1>7, <1>8

(* A new search.                                                           *)
LEMMA NextFDKeeps ==
  ASSUME SetInv, NextFD
  PROVE  SetInv' /\ search'.pc = "try"
<1>1. SetTypes /\ search.pc = "idle" /\ UNCHANGED <<taken, own, fdset>> /\ refused' = {}
  BY DEF SetInv, NextFD
<1>2. search' = [pc |-> "try", start |-> fdset.current, first |-> TRUE, fd |-> None]
  BY DEF NextFD
<1>3. SetTypes'
  BY <1>1, <1>2 DEF SetTypes
<1>4. Searching'
  BY <1>1, <1>2 DEF Searching, SetTypes
<1>5. Passed' = {}
  BY <1>2 DEF Passed
<1>6. SearchComplete'
  BY <1>1, <1>2, <1>5 DEF SearchComplete
<1>7. QED
  BY <1>2, <1>3, <1>4, <1>6 DEF SetInv

(* What a turn of the loop binds.                                          *)
LEMMA TryBinds ==
  ASSUME SetInv, TryPort
  PROVE  /\ SetTypes' /\ own \subseteq own'
         /\ search'.pc \in {"try", "found"} /\ search'.start = search.start
         /\ search'.first = FALSE
         /\ search'.pc = "found" => /\ search'.fd = fdset.current /\ fdset.current # 0
                                    /\ fdset.current \notin own /\ own' = own \cup {fdset.current}
                                    /\ Available(fdset.current)
         /\ fdset.current # 0 /\ search.fd = None =>
              IF Available(fdset.current) THEN search'.pc = "found"
              ELSE search'.pc = "try" /\ search'.fd = None
<1>1. SetTypes
  BY DEF SetInv
<1>2. PICK p \in Bind(search.fd, fdset.current) :
        /\ own' = own \cup ({p} \ {None})
        /\ search' = [search EXCEPT
             !.pc = IF p # None /\ fdset.current # 0 THEN "found" ELSE "try",
             !.first = FALSE,
             !.fd = IF p # None THEN p ELSE search.fd]
  BY DEF TryPort
<1>3. p \in Nat \cup {None}
  BY <1>1, <1>2, FDSetAssumption DEF Bind, Available, SetTypes
<1>4. /\ search'.pc = IF p # None /\ fdset.current # 0 THEN "found" ELSE "try"
      /\ search'.first = FALSE /\ search'.start = search.start
      /\ search'.fd = IF p # None THEN p ELSE search.fd
  BY <1>1, <1>2 DEF SetTypes
<1>5. SetTypes'
  <2>1. search' \in [pc : {"idle", "try", "found", "failed"}, start : Nat, first : BOOLEAN,
                     fd : Nat \cup {None}]
    BY <1>1, <1>2, <1>3 DEF SetTypes
  <2>2. fdset' = [fdset EXCEPT !.current = Advance(fdset)]
    BY DEF TryPort
  <2>3. /\ fdset' \in [min : Nat, max : Nat, current : Nat]
        /\ fdset'.min <= fdset'.current /\ fdset'.current <= fdset'.max
    BY <1>1, <2>2, AdvanceInRange DEF SetTypes
  <2>4. QED
    BY <2>1, <2>3 DEF SetTypes
<1>6. ASSUME p # None, fdset.current # 0
      PROVE  p = fdset.current /\ Available(fdset.current) /\ p \notin own
  BY <1>2, <1>6 DEF Bind, Available, Free
<1>7. ASSUME fdset.current # 0, search.fd = None
      PROVE  p = IF Available(fdset.current) THEN fdset.current ELSE None
  BY <1>2, <1>7 DEF Bind
<1>8. fdset.current # None
  BY <1>1, FDSetAssumption DEF SetTypes
<1>9. own \subseteq own' /\ search'.pc \in {"try", "found"}
  BY <1>2, <1>4
<1>10. search'.pc = "found" => /\ search'.fd = fdset.current /\ fdset.current # 0
                               /\ fdset.current \notin own /\ own' = own \cup {fdset.current}
                               /\ Available(fdset.current)
  BY <1>2, <1>4, <1>6, <1>8
<1>11. fdset.current # 0 /\ search.fd = None =>
         IF Available(fdset.current) THEN search'.pc = "found"
         ELSE search'.pc = "try" /\ search'.fd = None
  BY <1>4, <1>7, <1>8
<1>12. QED
  BY <1>4, <1>5, <1>9, <1>10, <1>11

(* A turn of the loop.                                                     *)
LEMMA TryKeeps == ASSUME SetInv, TryPort PROVE SetInv'
<1>1. /\ SetTypes /\ Searching /\ SearchComplete /\ search.pc = "try"
      /\ search.first \/ fdset.current # search.start
      /\ refused' = refused \cup {p \in {fdset.current} : ~Available(p)}
      /\ fdset' = [fdset EXCEPT !.current = Advance(fdset)]
  BY DEF SetInv, TryPort
<1>2. /\ SetTypes'
      /\ search'.pc \in {"try", "found"} /\ search'.start = search.start
      /\ search'.first = FALSE
      /\ search'.pc = "found" => /\ search'.fd = fdset.current /\ fdset.current # 0
                                 /\ own' = own \cup {fdset.current} /\ Available(fdset.current)
      /\ fdset.current # 0 /\ search.fd = None =>
           IF Available(fdset.current) THEN search'.pc = "found"
           ELSE search'.pc = "try" /\ search'.fd = None
  BY TryBinds
<1>3. /\ fdset'.min = fdset.min /\ fdset'.max = fdset.max /\ fdset.min \in Nat
      /\ fdset.current \in Nat /\ fdset.current \in fdset.min .. fdset.max
      /\ fdset.min # 0 => fdset.current # 0 /\ search.fd = None
  BY <1>1 DEF SetTypes, Searching
<1>4. Searching'
  BY <1>1, <1>2, <1>3 DEF Searching
<1>5. Passed' = Passed \cup {fdset.current} /\ fdset.current \notin Passed
  BY <1>1, <1>2, PassedGrows
<1>6. SearchComplete'
  <2> SUFFICES ASSUME fdset.min # 0
               PROVE  /\ search'.pc = "try" => refused' = Passed'
                      /\ search'.pc = "found" =>
                           search'.fd \notin refused' /\ refused' \cup {search'.fd} = Passed'
    BY <1>2, <1>3 DEF SearchComplete
  <2>1. refused = Passed
    BY <1>1 DEF SearchComplete
  <2>2. CASE Available(fdset.current)
    <3>1. refused' = refused /\ search'.pc = "found" /\ search'.fd = fdset.current
      BY <1>1, <1>2, <1>3, <2>2
    <3>2. QED
      BY <1>5, <2>1, <3>1
  <2>3. CASE ~Available(fdset.current)
    <3>1. refused' = refused \cup {fdset.current} /\ search'.pc = "try"
      BY <1>1, <1>2, <1>3, <2>3
    <3>2. QED
      BY <1>5, <2>1, <3>1
  <2>4. QED
    BY <2>2, <2>3
<1>7. QED
  BY <1>2, <1>4, <1>6 DEF SetInv

(* Every port was tried.                                                   *)
LEMMA GiveUpKeeps == ASSUME SetInv, GiveUp PROVE SetInv' /\ search'.pc = "failed"
<1>1. /\ SetTypes /\ Searching /\ SearchComplete /\ search.pc = "try"
      /\ ~search.first /\ fdset.current = search.start /\ UNCHANGED <<fdset, refused>>
      /\ search' = [search EXCEPT !.pc = "failed", !.fd = None]
  BY DEF SetInv, GiveUp
<1>2. /\ search' \in [pc : {"idle", "try", "found", "failed"}, start : Nat, first : BOOLEAN,
                      fd : Nat \cup {None}]
      /\ search'.pc = "failed" /\ search'.start = search.start
  BY <1>1 DEF SetTypes
<1>3. SetTypes' /\ Searching'
  BY <1>1, <1>2 DEF SetTypes, Searching
<1>4. Passed = fdset.min .. fdset.max
  BY <1>1 DEF Passed, SetTypes
<1>5. SearchComplete'
  BY <1>1, <1>2, <1>4 DEF SearchComplete
<1>6. QED
  BY <1>2, <1>3, <1>5 DEF SetInv

(* Nothing of the set changes, but for ports that others bind and release. *)
LEMMA SetStays ==
  ASSUME SetInv, UNCHANGED <<own, fdset, search, refused>>
  PROVE  SetInv'
<1>1. Passed' = Passed
  BY DEF Passed
<1>2. QED
  BY <1>1 DEF SetInv, SetTypes, Searching, SearchComplete

(* The search is over, or there has been none, whatever the range is.      *)
LEMMA SetIdle ==
  ASSUME fdset' \in [min : Nat, max : Nat, current : Nat],
         fdset'.min <= fdset'.current, fdset'.current <= fdset'.max,
         search' \in [pc : {"idle"}, start : Nat, first : BOOLEAN, fd : Nat \cup {None}]
  PROVE  SetInv'
<1>1. search'.pc = "idle"
  OBVIOUS
<1>2. SetTypes'
  <2>1. search' \in [pc : {"idle", "try", "found", "failed"}, start : Nat, first : BOOLEAN,
                     fd : Nat \cup {None}]
    OBVIOUS
  <2>2. QED
    BY <2>1 DEF SetTypes
<1>3. Searching' /\ SearchComplete'
  BY <1>1 DEF Searching, SearchComplete
<1>4. QED
  BY <1>2, <1>3 DEF SetInv

-----------------------------------------------------------------------------
(* The start of the gateway.                                               *)

(* A range that was accepted is one.                                       *)
LEMMA AcceptedRange ==
  ASSUME NEW c \in Config, FlagsOK(c)
  PROVE  c.range[1] \in Nat /\ c.range[2] \in Nat /\ c.range[1] <= c.range[2]
<1>1. c.range \in Seq(Nat \cup {None}) /\ Len(c.range) \in Nat /\ Len(c.range) >= 2
  BY DEF Config, FlagsOK
<1>2. 1 \in 1 .. Len(c.range) /\ 2 \in 1 .. Len(c.range)
  BY <1>1
<1>3. c.range[1] \in Nat \cup {None} /\ c.range[2] \in Nat \cup {None}
  BY <1>1, <1>2, ElementOfSeq
<1>4. QED
  BY <1>3 DEF FlagsOK

(* Nothing is constructed yet.                                             *)
LEMMA StartInit == Init => StartInv
<1> SUFFICES ASSUME Init PROVE StartInv
  OBVIOUS
<1>1. Accepted
  BY StartupAssumption DEF Init, Accepted
<1>2. /\ fdset = [min |-> 0, max |-> 0, current |-> 0] /\ search.pc = "idle" /\ pc = "flags"
      /\ search = [pc |-> "idle", start |-> 0, first |-> FALSE, fd |-> None]
      /\ sniffed = {} /\ fds = [server |-> None, ofr |-> None, node |-> None]
  BY DEF Init, FDInit, Idle
<1>3. SetInv
  BY <1>2 DEF SetInv, SetTypes, Searching, SearchComplete
<1>4. Listener /\ Sockets /\ Launched
  BY <1>2 DEF Listener, Sockets, Launched, AfterListener, AfterBind, AfterOptions, AfterFirst
<1>5. QED
  BY <1>1, <1>3, <1>4 DEF StartInv

(* The flags are checked once, and the configuration does not change.      *)
LEMMA AcceptedKeeps == ASSUME StartInv, Next PROVE Accepted'
<1>1. Accepted /\ cfg' = cfg
  <2>1. cfg' = cfg
    BY DEF Next, Main, CheckFlags, Setup, RegisterSniffers, OpenCapture, ReadPacket, AddDynamic,
           BindServer, SetOptions, Search, TakeFD, Start, Shutdown, TimerFires, Fail, Interrupt,
           OtherProcess
  <2>2. QED
    BY <2>1 DEF StartInv
<1>2. CASE CheckFlags
  BY <1>1, <1>2 DEF CheckFlags, Accepted
<1>3. CASE pc # "flags" /\ pc # "ended"
  BY <1>1, <1>3 DEF Accepted
<1>4. CASE pc \in {"flags", "ended"} /\ (pc' = pc \/ pc' = "ended")
  BY <1>1, <1>4 DEF Accepted
<1>5. CheckFlags \/ (pc # "flags" /\ pc # "ended") \/ pc' = pc \/ pc' = "ended"
  BY DEF Next, Main, Setup, RegisterSniffers, OpenCapture, ReadPacket, AddDynamic,
         BindServer, SetOptions, Search, TakeFD, Start, Shutdown, TimerFires, Fail, Interrupt,
         OtherProcess
<1>6. QED
  BY <1>2, <1>3, <1>4, <1>5

(* A step that only ends the process, or changes what is not spoken of.    *)
LEMMA EndKeeps ==
  ASSUME StartInv, pc' \in {pc, "ended"}, search.pc = "idle" \/ pc' = pc,
         UNCHANGED <<own, fdset, search, refused, cfg, nl, sniffed, fdmon, fds, source>>
  PROVE  SetInv' /\ Listener' /\ Sockets' /\ Launched'
<1>1. SetInv'
  BY SetStays DEF StartInv
<1>2. Listener'
  BY DEF StartInv, Listener, AfterListener
<1>3. Sockets'
  BY DEF StartInv, Sockets, AfterBind, AfterFirst
<1>4. Launched'
  BY DEF StartInv, Launched, AfterOptions
<1>5. QED
  BY <1>1, <1>2, <1>3, <1>4

(* The steps before the first socket leave the set and the sockets alone.  *)
LEMMA EarlyKeeps ==
  ASSUME StartInv, UNCHANGED <<fdVars, cfg, fds>>,
         pc \in {"flags", "setup", "listener", "discover", "scan", "dynamic"},
         pc' \in {"setup", "listener", "discover", "scan", "dynamic", "server", "ended"}
  PROVE  SetInv' /\ Sockets' /\ Launched'
<1>1. SetInv'
  BY SetStays DEF StartInv, fdVars
<1>2. Sockets'
  BY DEF StartInv, Sockets, AfterBind, AfterFirst, fdVars
<1>3. Launched'
  BY DEF StartInv, Launched, AfterOptions
<1>4. QED
  BY <1>1, <1>2, <1>3

(* NewNetworkListener.                                                     *)
LEMMA ListenerKeeps ==
  ASSUME StartInv,
         CheckFlags \/ Setup \/ RegisterSniffers \/ OpenCapture
           \/ (\E p \in Traffic : ReadPacket(p)) \/ AddDynamic
  PROVE  SetInv' /\ Listener' /\ Sockets' /\ Launched'
<1>1. UNCHANGED <<fdVars, cfg, fds>>
  BY DEF CheckFlags, Setup, RegisterSniffers, OpenCapture, ReadPacket, AddDynamic
<1>2. /\ pc \in {"flags", "setup", "listener", "discover", "scan", "dynamic"}
      /\ pc' \in {"setup", "listener", "discover", "scan", "dynamic", "server", "ended"}
  BY DEF CheckFlags, Setup, RegisterSniffers, OpenCapture, ReadPacket, AddDynamic
<1>3. Listener'
  <2>0. Listener
    BY DEF StartInv
  <2>1. CASE CheckFlags
    BY <2>0, <2>1 DEF CheckFlags, Listener, AfterListener, listenVars
  <2>2. CASE Setup
    BY <2>0, <2>2 DEF Setup, Listener, AfterListener, listenVars, NeedsListener
  <2>3. CASE RegisterSniffers
    <3>1. <<"in", cfg.tvu>> \in sniffed' /\ (pc' = "discover" \/ (pc' = "server" /\ nl' = TRUE))
      BY <2>3 DEF RegisterSniffers
    <3>2. \A q : <<"in", q>> \in sniffed' => q = cfg.tvu
      BY <2>3 DEF RegisterSniffers
    <3>3. QED
      BY <1>1, <3>1, <3>2 DEF Listener, AfterListener
  <2>4. CASE OpenCapture
    BY <2>0, <2>4 DEF OpenCapture, Listener, AfterListener
  <2>5. CASE \E p \in Traffic : ReadPacket(p)
    BY <2>0, <2>5 DEF ReadPacket, Listener, AfterListener
  <2>6. CASE AddDynamic
    <3>1. PICK S \in SUBSET {<<"in", p>> : p \in seen \ Excluded(cfg)} : sniffed' = sniffed \cup S
      BY <2>6 DEF AddDynamic
    <3>2. \A q : <<"in", q>> \in S => q # cfg.server
      BY DEF Excluded
    <3>3. <<"in", cfg.tvu>> \in sniffed /\ pc' = "server" /\ nl' = TRUE
      BY <2>0, <2>6 DEF AddDynamic, Listener
    <3>4. QED
      BY <1>1, <2>0, <3>1, <3>2, <3>3 DEF Listener, AfterListener
  <2>7. QED
    BY <2>1, <2>2, <2>3, <2>4, <2>5, <2>6
<1>4. QED
  BY <1>1, <1>2, <1>3, EarlyKeeps

(* The server's socket, and the range for the others.                      *)
LEMMA BindServerKeeps ==
  ASSUME StartInv, Accepted, BindServer
  PROVE  SetInv' /\ Listener' /\ Sockets' /\ Launched'
<1>1. /\ pc = "server" /\ cfg' = cfg /\ UNCHANGED <<search, listenVars, fdmon, source>>
      /\ fdset' = [min |-> cfg.range[1], max |-> cfg.range[2], current |-> cfg.range[1]]
      /\ SetTypes /\ Listener /\ Sockets
  BY DEF BindServer, NewFDSet, StartInv, SetInv
<1>2. cfg.range[1] \in Nat /\ cfg.range[2] \in Nat /\ cfg.range[1] <= cfg.range[2]
  BY <1>1, AcceptedRange DEF Accepted
<1>3. search.pc = "idle"
  BY <1>1 DEF Sockets
<1>4. SetInv'
  <2>1. /\ fdset' \in [min : Nat, max : Nat, current : Nat]
        /\ fdset'.min <= fdset'.current /\ fdset'.current <= fdset'.max
    BY <1>1, <1>2
  <2>2. search' \in [pc : {"idle"}, start : Nat, first : BOOLEAN, fd : Nat \cup {None}]
    BY <1>1, <1>3 DEF SetTypes
  <2>3. QED
    BY <2>1, <2>2, SetIdle
<1>5. PICK ok \in BOOLEAN :
        /\ Server(cfg.server, ok)
        /\ pc' = IF ok THEN "options" ELSE "ended"
        /\ fds' = IF ok THEN [fds EXCEPT !.server = cfg.server] ELSE fds
  BY DEF BindServer
<1>6. Listener'
  BY <1>1, <1>5 DEF Listener, AfterListener, listenVars
<1>7. Launched'
  BY <1>5 DEF Launched, AfterOptions
<1>8. cfg.server \in Nat
  BY DEF Accepted, Config
<1>9. Sockets'
  <2>1. CASE ok
    <3>1. PICK p \in Bind(None, cfg.server) : p # None /\ own' = own \cup ({p} \ {None})
      BY <1>5, <2>1 DEF Server
    <3>2. cfg.server = 0 \/ p = cfg.server
      BY <3>1 DEF Bind
    <3>3. fds' \in [server : Nat \cup {None}, ofr : Nat \cup {None}, node : Nat \cup {None}]
      BY <1>1, <1>5, <1>8, <2>1 DEF Sockets
    <3>4. fds'.server = cfg.server /\ fds'.server \in own' \cup {0}
      BY <1>1, <1>5, <2>1, <3>1, <3>2 DEF Sockets
    <3>5. QED
      BY <1>1, <1>3, <1>5, <2>1, <3>3, <3>4 DEF Sockets, AfterBind, AfterFirst
  <2>2. CASE ~ok
    BY <1>1, <1>3, <1>5, <2>2 DEF Sockets, AfterBind, AfterFirst
  <2>3. QED
    BY <2>1, <2>2
<1>10. QED
  BY <1>4, <1>6, <1>7, <1>9

(* A step of the search: what it finds was not the gateway's before.       *)
LEMMA SearchKeeps ==
  ASSUME StartInv, Search
  PROVE  SetInv' /\ Listener' /\ Sockets' /\ Launched'
<1>1. /\ pc \in {"ofr", "node"} /\ UNCHANGED <<cfg, pc, listenVars, fdmon, fds, source>>
      /\ SetInv /\ Listener /\ Sockets /\ Launched /\ (NextFD \/ TryPort \/ GiveUp)
  BY DEF Search, StartInv
<1>2. Listener' /\ Launched'
  BY <1>1 DEF Listener, AfterListener, Launched, AfterOptions, listenVars
<1>3. SetInv'
  BY <1>1, NextFDKeeps, TryKeeps, GiveUpKeeps
<1>4. fdset'.min = fdset.min /\ fdset'.max = fdset.max
  <2>1. fdset' = fdset \/ fdset' = [fdset EXCEPT !.current = Advance(fdset)]
    BY <1>1 DEF NextFD, TryPort, GiveUp
  <2>2. QED
    BY <1>1, <2>1 DEF SetInv, SetTypes
<1>5. Sockets'
  <2>1. CASE GiveUp
    <3>1. search'.pc = "failed"
      BY <1>1, <2>1, GiveUpKeeps
    <3>2. QED
      BY <1>1, <1>4, <3>1 DEF Sockets, AfterBind, AfterFirst
  <2>2. CASE NextFD
    <3>1. search'.pc = "try" /\ own' = own /\ search.pc = "idle"
      BY <1>1, <2>2, NextFDKeeps DEF NextFD
    <3>2. QED
      BY <1>1, <1>4, <3>1 DEF Sockets, AfterBind, AfterFirst
  <2>3. CASE TryPort
    <3>1. /\ own \subseteq own' /\ search'.pc \in {"try", "found"} /\ search.pc = "try"
          /\ search'.pc = "found" => search'.fd # 0 /\ search'.fd \notin own
      BY <1>1, <2>3, TryBinds DEF TryPort
    <3>2. /\ fds.server \in own \cup {0}
          /\ pc = "node" => fds.ofr \in own
      BY <1>1, <3>1 DEF Sockets, AfterBind, AfterFirst
    <3>3. QED
      BY <1>1, <1>4, <3>1, <3>2 DEF Sockets, AfterBind, AfterFirst
  <2>4. QED
    BY <1>1, <2>1, <2>2, <2>3
<1>6. QED
  BY <1>2, <1>3, <1>5

(* The descriptor that was found is given out, or the error is.            *)
LEMMA TakeFDKeeps ==
  ASSUME StartInv, TakeFD
  PROVE  SetInv' /\ Listener' /\ Sockets' /\ Launched'
<1>1. /\ pc \in {"ofr", "node"} /\ UNCHANGED <<own, fdset, cfg, listenVars, fdmon, source>>
      /\ search' = [pc |-> "idle", start |-> 0, first |-> FALSE, fd |-> None]
      /\ SetTypes /\ Searching /\ Listener /\ Sockets /\ Launched
  BY DEF TakeFD, StartInv, SetInv, Idle
<1>2. \/ /\ search.pc = "found" /\ fds' = [fds EXCEPT ![pc] = search.fd]
         /\ pc' = IF pc = "ofr" THEN "node" ELSE "start"
      \/ search.pc = "failed" /\ pc' = "ended" /\ UNCHANGED fds
  BY DEF TakeFD
<1>3. SetInv'
  <2>1. search' \in [pc : {"idle"}, start : Nat, first : BOOLEAN, fd : Nat \cup {None}]
    BY <1>1
  <2>2. QED
    BY <1>1, <2>1, SetIdle DEF SetTypes
<1>4. Listener' /\ Launched'
  BY <1>1, <1>2 DEF Listener, AfterListener, Launched, AfterOptions, listenVars
<1>5. search'.pc = "idle"
  BY <1>1
<1>6. Sockets'
  <2>1. CASE search.pc = "found"
    <3>1. /\ search.fd \in Nat \cup {None} /\ search.fd \in fdset.min .. fdset.max
          /\ search.fd # 0 /\ search.fd \in own /\ search.fd # fds.server
          /\ fdset.min = cfg.range[1] /\ fdset.max = cfg.range[2] /\ fds.server = cfg.server
          /\ fds.server \in own \cup {0}
          /\ fds \in [server : Nat \cup {None}, ofr : Nat \cup {None}, node : Nat \cup {None}]
      BY <1>1, <2>1 DEF Searching, Sockets, SetTypes, AfterBind
    <3>2. CASE pc = "ofr"
      <4>1. fds' = [fds EXCEPT !.ofr = search.fd] /\ pc' = "node"
        BY <1>2, <2>1, <3>2
      <4>2. fds'.ofr = search.fd /\ fds'.server = fds.server
        BY <3>1, <4>1
      <4>3. fds' \in [server : Nat \cup {None}, ofr : Nat \cup {None}, node : Nat \cup {None}]
        BY <3>1, <4>1
      <4>4. QED
        BY <1>1, <1>5, <3>1, <4>1, <4>2, <4>3 DEF Sockets, AfterBind, AfterFirst
    <3>3. CASE pc = "node"
      <4>1. fds' = [fds EXCEPT !.node = search.fd] /\ pc' = "start"
        BY <1>2, <2>1, <3>3
      <4>2. fds'.node = search.fd /\ fds'.server = fds.server /\ fds'.ofr = fds.ofr
        BY <3>1, <4>1
      <4>3. fds' \in [server : Nat \cup {None}, ofr : Nat \cup {None}, node : Nat \cup {None}]
        BY <3>1, <4>1
      <4>4. /\ fds.ofr \in own /\ fds.ofr # 0 /\ fds.ofr # fds.server
            /\ fds.ofr \in cfg.range[1] .. cfg.range[2] /\ search.fd # fds.ofr
        BY <1>1, <2>1, <3>3 DEF Sockets, AfterFirst
      <4>5. QED
        BY <1>1, <1>5, <3>1, <4>1, <4>2, <4>3, <4>4 DEF Sockets, AfterBind, AfterFirst
    <3>4. QED
      BY <1>1, <3>2, <3>3
  <2>2. CASE search.pc = "failed"
    <3>1. pc' = "ended" /\ UNCHANGED fds
      BY <1>2, <2>2
    <3>2. QED
      BY <1>1, <1>5, <3>1 DEF Sockets, AfterBind, AfterFirst
  <2>3. QED
    BY <1>2, <2>1, <2>2
<1>7. QED
  BY <1>3, <1>4, <1>6

(* The options are set, and the workers are launched.                      *)
LEMMA LaunchKeeps ==
  ASSUME StartInv, SetOptions \/ Start
  PROVE  SetInv' /\ Listener' /\ Sockets' /\ Launched'
<1>1. /\ UNCHANGED <<fdVars, cfg, listenVars, fds>>
      /\ pc \in {"options", "start"} /\ pc' = IF pc = "options" THEN "ofr" ELSE "up"
      /\ SetInv /\ Listener /\ Sockets /\ Launched
  BY DEF SetOptions, Start, StartInv
<1>2. SetInv'
  BY <1>1, SetStays DEF fdVars
<1>3. Listener'
  BY <1>1 DEF Listener, AfterListener, listenVars
<1>4. Sockets'
  BY <1>1 DEF Sockets, AfterBind, AfterFirst, fdVars
<1>5. Launched'
  <2>1. CASE SetOptions
    BY <1>1, <2>1 DEF SetOptions, Launched, AfterOptions
  <2>2. CASE Start
    BY <1>1, <2>2 DEF Start, Launched, AfterOptions
  <2>3. QED
    BY <2>1, <2>2
<1>6. QED
  BY <1>2, <1>3, <1>4, <1>5

(* Every step keeps the invariant.                                         *)
LEMMA StartStep == StartInv /\ [Next]_vars => StartInv'
<1> SUFFICES ASSUME StartInv, [Next]_vars PROVE StartInv'
  OBVIOUS
<1>1. CASE Next
  <2>0. Accepted' /\ Accepted
    BY <1>1, AcceptedKeeps DEF StartInv
  <2>1. CASE CheckFlags \/ Setup \/ RegisterSniffers \/ OpenCapture
               \/ (\E p \in Traffic : ReadPacket(p)) \/ AddDynamic
    BY <2>0, <2>1, ListenerKeeps DEF StartInv
  <2>2. CASE BindServer
    BY <2>0, <2>2, BindServerKeeps DEF StartInv
  <2>3. CASE Search
    BY <2>0, <2>3, SearchKeeps DEF StartInv
  <2>4. CASE TakeFD
    BY <2>0, <2>4, TakeFDKeeps DEF StartInv
  <2>5. CASE SetOptions \/ Start
    BY <2>0, <2>5, LaunchKeeps DEF StartInv
  <2>6. CASE TimerFires \/ Fail \/ Interrupt \/ Shutdown \/ OtherProcess
    <3>1. UNCHANGED <<own, fdset, search, refused, cfg, nl, sniffed, fdmon, fds, source>>
      BY <2>6 DEF TimerFires, Fail, Interrupt, Shutdown, OtherProcess, Contend, fdVars, listenVars
    <3>2. pc' \in {pc, "ended"}
      BY <2>6 DEF TimerFires, Fail, Interrupt, Shutdown, OtherProcess
    <3>3. pc' = pc \/ search.pc = "idle"
      <4>1. pc' = pc \/ search.pc = "idle" \/ pc \in {"flags", "setup", "up"}
        BY <2>6 DEF TimerFires, Fail, Interrupt, Shutdown, OtherProcess
      <4>2. QED
        BY <4>1 DEF StartInv, Sockets
    <3>4. QED
      BY <2>0, <3>1, <3>2, <3>3, EndKeeps DEF StartInv
  <2>7. QED
    BY <1>1, <2>1, <2>2, <2>3, <2>4, <2>5, <2>6 DEF Next, Main
<1>2. CASE UNCHANGED vars
  <2>1. UNCHANGED <<own, fdset, search, refused, cfg, pc, nl, sniffed, fdmon, fds, source>>
    BY <1>2 DEF vars, fdVars, listenVars
  <2>2. Accepted'
    BY <2>1 DEF StartInv, Accepted
  <2>3. QED
    BY <2>1, <2>2, EndKeeps DEF StartInv
<1>3. QED
  BY <1>1, <1>2

-----------------------------------------------------------------------------
(* The invariant holds from the command line on, for every configuration.  *)
THEOREM StartupInvariant == Spec => []StartInv
BY StartInit, StartStep, PTL DEF Spec

(* NextFD skips no port of the range: whatever other processes bind and    *)
(* release meanwhile and wherever the search before left off, an error     *)
(* means that each port of the range was refused at its turn.              *)
THEOREM SearchIsComplete == Spec => []SearchComplete
<1>1. StartInv => SearchComplete
  BY DEF StartInv, SetInv
<1>2. QED
  BY <1>1, StartupInvariant, PTL

(* A gateway that is up has the source of shreds that Start launched and   *)
(* sockets on ports of their own, whatever the flags were.                 *)
THEOREM RunningGatewayIsWired == Spec => []Wired
<1>1. StartInv => Wired
  <2> SUFFICES ASSUME StartInv, pc = "up" PROVE Wired
    BY DEF Wired
  <2>1. Accepted /\ Listener /\ Sockets /\ Launched
    BY DEF StartInv
  <2>2. /\ source = IF cfg.noValidator THEN "alive" ELSE IF fdmon THEN "firedancer" ELSE "listener"
        /\ fdmon = cfg.firedancer
    BY <2>1 DEF Launched, AfterOptions
  <2>3. cfg.firedancer \in BOOLEAN /\ cfg.noValidator \in BOOLEAN
    BY <2>1 DEF Accepted, Config
  <2>4. /\ source = "listener" => nl /\ <<"in", cfg.tvu>> \in sniffed
        /\ source = "firedancer" => fdmon
        /\ source = "alive" <=> cfg.noValidator
    BY <2>1, <2>2, <2>3 DEF Listener, AfterListener, NeedsListener
  <2>5. search.pc # "failed"
    BY <2>1 DEF Sockets
  <2>6. /\ fds.ofr \in own /\ fds.ofr # fds.server /\ fds.ofr \in cfg.range[1] .. cfg.range[2]
        /\ fds.node \in own /\ fds.node # fds.ofr /\ fds.node # fds.server
        /\ fds.node \in cfg.range[1] .. cfg.range[2]
    BY <2>1, <2>5 DEF Sockets, AfterFirst
  <2>7. cfg.server \notin {0, cfg.tvu} => <<"in", cfg.server>> \notin sniffed
    BY <2>1 DEF Listener
  <2>8. QED
    BY <2>4, <2>6, <2>7 DEF Wired
<1>2. QED
  BY <1>1, StartupInvariant, PTL
=============================================================================
