------------------------------- MODULE FDSet -------------------------------
(***************************************************************************)
(* UDP sockets of the gateway (pkg/udp/udp.go): the server socket, and     *)
(* FDSet.NextFD, which searches the dynamic port range for a free port,    *)
(* starting where the search before left off.  Each bind is a step, for    *)
(* other processes bind and release ports at the same time.                *)
(***************************************************************************)
EXTENDS Naturals

CONSTANTS
  MaxPort,     \* 65535: bind refuses a larger one
  Ephemeral,   \* ports the system picks from when asked for port 0
  Contended,   \* ports other processes bind and release
  None         \* not bound

ASSUME FDSetAssumption ==
  /\ MaxPort \in Nat \ {0}
  /\ Ephemeral \subseteq 1..MaxPort /\ Contended \subseteq 1..MaxPort
  /\ None \notin Nat

VARIABLES
  taken,    \* ports bound by other processes
  own,      \* ports bound by the gateway's sockets
  fdset,    \* [min, max, current]
  search,   \* the NextFD call: [pc, start, first, fd], fd being what the new socket is bound to
  refused   \* history: ports that were not available when this call tried them

fdVars == <<taken, own, fdset, search, refused>>

Free(p)      == p \notin taken \cup own
Available(p) == p \in 1..MaxPort /\ Free(p)
Idle    == [pc |-> "idle", start |-> 0, first |-> FALSE, fd |-> None]

FDInit ==
  /\ taken \in SUBSET Contended /\ own = {}
  /\ fdset = [min |-> 0, max |-> 0, current |-> 0]
  /\ search = Idle /\ refused = {}

(* Other processes.                                                        *)
Contend(p) ==
  /\ \/ Free(p) /\ taken' = taken \cup {p}
     \/ p \in taken /\ taken' = taken \ {p}
  /\ UNCHANGED <<own, fdset, search, refused>>

(* The port that bind(port) gives a socket which is bound to old, or None  *)
(* for an error.  A socket is bound only once, and asked for port 0 the    *)
(* system chooses, if one is left.                                         *)
Bind(old, port) ==
  IF old = None /\ port = 0 THEN {p \in Ephemeral : Free(p)} \cup {None}
  ELSE IF old = None /\ Available(port) THEN {port}
  ELSE {None}

(* udp.Server: one bind, no search.  It answers whether that worked.       *)
Server(port, ok) ==
  /\ \E p \in Bind(None, port) :
       /\ ok = (p # None)
       /\ own' = own \cup ({p} \ {None})
  /\ UNCHANGED taken

(* NewFDSet.                                                               *)
NewFDSet(min, max) == fdset' = [min |-> min, max |-> max, current |-> min]

(* NextFD: a socket, and the search begins at current.                     *)
NextFD ==
  /\ search.pc = "idle"
  /\ search' = [pc |-> "try", start |-> fdset.current, first |-> TRUE, fd |-> None]
  /\ refused' = {}
  /\ UNCHANGED <<taken, own, fdset>>

(* Faulty variant: the range is left at its end.                           *)
Advance_NoWrap(f) == IF f.current = f.max THEN f.max ELSE f.current + 1

Advance(f) == IF f.current = f.max THEN f.min ELSE f.current + 1

(* One turn of the loop.  boundPort = 0 means not bound, so that a socket  *)
(* bound by way of port 0 goes on searching and can never bind again.      *)
TryPort ==
  /\ search.pc = "try"
  /\ search.first \/ fdset.current # search.start
  /\ \E p \in Bind(search.fd, fdset.current) :
       LET bound == p # None /\ fdset.current # 0
       IN  /\ own' = own \cup ({p} \ {None})
           /\ search' = [search EXCEPT
                !.pc = IF bound THEN "found" ELSE "try",
                !.first = FALSE,
                !.fd = IF p # None THEN p ELSE @]
  /\ refused' = refused \cup {p \in {fdset.current} : ~Available(p)}
  /\ fdset' = [fdset EXCEPT !.current = Advance(fdset)]
  /\ UNCHANGED taken

(* All ports were tried: the socket is closed.                             *)
GiveUp ==
  /\ search.pc = "try"
  /\ ~search.first /\ fdset.current = search.start
  /\ own' = own \ {search.fd}
  /\ search' = [search EXCEPT !.pc = "failed", !.fd = None]
  /\ UNCHANGED <<taken, fdset, refused>>

-----------------------------------------------------------------------------
(* Ports from start up to, not including, current, around the range.       *)
Passed ==
  {p \in fdset.min..fdset.max :
     IF search.first THEN FALSE
     ELSE IF search.start < fdset.current
     THEN search.start <= p /\ p < fdset.current
     ELSE search.start <= p \/ p < fdset.current}

(* "NextFD returns file descriptor bound to the next available port within *)
(* min-max port range": the search passes over the ports that are in use,  *)
(* each once, in their order around the range, and over no other.  So the  *)
(* port found is the next available one, and an error means that no port   *)
(* of the range was available when its turn came, also when the search     *)
(* started in the middle while other processes come and go.  A range that  *)
(* contains port 0 is the exception.                                       *)
SearchComplete ==
  fdset.min # 0 =>
    /\ search.pc = "try" => refused = Passed
    /\ search.pc = "found" =>
         search.fd \notin refused /\ refused \cup {search.fd} = Passed
    /\ search.pc = "failed" => refused = fdset.min..fdset.max
=============================================================================
