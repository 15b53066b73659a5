---------------------------- MODULE Registration ----------------------------
(***************************************************************************)
(* Registration of the gateway with the OFR relay and the no-traffic watch *)
(* (gateway.go: Register, Start, reRegister; registrar.go), together with  *)
(* the head of processShred, which runs in the receiver goroutine and      *)
(* shares ofrUDPAddr, noTrafficTicker and noTrafficCounter with them       *)
(* without a lock.  Each action is one access to shared state.             *)
(*                                                                         *)
(* Addresses stand for IPs: processShred compares IPs only.  The ticker    *)
(* has the semantics of Go 1.23 and later (go.mod: 1.25.1): one buffered   *)
(* tick, which Reset discards.                                             *)
(***************************************************************************)
EXTENDS Naturals

CONSTANTS
  Relays,      \* IPs a relay may answer from
  Zero,        \* udp.Addr{}: not registered
  Stranger,    \* any other source of packets on the server port
  RetryCount,  \* registerRetryCount
  Limit        \* noTrafficCounterLimit

ASSUME RegistrationAssumption ==
  /\ Zero \notin Relays
  /\ Stranger \notin Relays \cup {Zero}
  /\ RetryCount \in Nat \ {0}
  /\ Limit \in Nat \ {0}

VARIABLES
  addr,        \* g.ofrUDPAddr
  pc,          \* the registering goroutine: main in Start, then reRegister
  started,     \* Start has returned nil; the workers run
  tries,       \* i of the loop in Start
  err,         \* err of the last Register call
  grant,       \* address in the last answer of the relay
  tick,        \* noTrafficTicker
  cnt,         \* noTrafficCounter
  rcv,         \* the receiver goroutine
  src,         \* source of the packet the receiver has in hand
  ctx,         \* the interrupt signal and the context main cancels on it
  status,      \* the process: running, or how it ended
  fresh,       \* history: the buffered tick elapsed while reRegister was waiting for it
  attempts     \* history: ticks taken since traffic was last counted (stops at Limit + 1)

regVars  == <<addr, pc, started, tries, err, grant>>
recvVars == <<rcv, src>>
vars     == <<regVars, tick, cnt, recvVars, ctx, status, fresh, attempts>>

Sources == Relays \cup {Stranger}
Errors  == {"nil", "transient", "fatal"}

RegPcs  == {"clear", "rpc", "publish", "failed", "arm", "wait", "add", "check", "reset", "done"}
RecvPcs == {"off", "loop", "read", "zero", "match", "reset", "store", "done"}

(* Ways the process ends: Start fails; a panic for want of traffic, for a  *)
(* refused re-registration, or for a relay address that is not IPv4; the   *)
(* interrupt signal.                                                       *)
Ends == {"start_failed", "no_traffic", "refused", "not_ipv4", "interrupted"}

Init ==
  /\ addr = Zero /\ pc = "clear" /\ started = FALSE /\ tries = 0
  /\ err = "nil" /\ grant \in Relays
  /\ tick = "stopped" /\ cnt = 0
  /\ rcv = "off" /\ src = Stranger
  /\ ctx = "live" /\ status = "running"
  /\ fresh = FALSE /\ attempts = 0

(* Every goroutine stops with the process.                                 *)
Live == status = "running"

-----------------------------------------------------------------------------
(* Register: withdraw the address, call the relay, publish the answer.     *)

(* Faulty variant: the old address stays in place during the call.         *)
Clear_Missing ==
  /\ Live
  /\ pc = "clear"
  /\ pc' = "rpc"
  /\ UNCHANGED <<addr, started, tries, err, grant, tick, cnt, recvVars, ctx, status, fresh, attempts>>

Clear ==
  /\ Live
  /\ pc = "clear"
  /\ addr' = Zero
  /\ pc' = "rpc"
  /\ UNCHANGED <<started, tries, err, grant, tick, cnt, recvVars, ctx, status, fresh, attempts>>

(* The relay answers with an IPv4 address.                                 *)
RpcOk ==
  /\ Live
  /\ pc = "rpc"
  /\ grant' \in Relays
  /\ err' = "nil"
  /\ pc' = "publish"
  /\ UNCHANGED <<addr, started, tries, tick, cnt, recvVars, ctx, status, fresh, attempts>>

(* ofrRegistrar.Register wraps three gRPC codes into errors that Start and *)
(* reRegister do not retry; every other failure is worth a retry.          *)
Codes == {"InvalidArgument", "Unauthenticated", "PermissionDenied", "other"}

ErrorOf(code) == IF code = "other" THEN "transient" ELSE "fatal"

(* The call fails, or its answer does not resolve to an address.           *)
RpcError(code) ==
  /\ Live
  /\ pc = "rpc"
  /\ err' = ErrorOf(code)
  /\ pc' = "failed"
  /\ UNCHANGED <<addr, started, tries, grant, tick, cnt, recvVars, ctx, status, fresh, attempts>>

(* SockAddrFromNetUDPAddr indexes the nil result of To4.                   *)
RpcNotIPv4 ==
  /\ Live
  /\ pc = "rpc"
  /\ status' = "not_ipv4"
  /\ UNCHANGED <<regVars, tick, cnt, recvVars, ctx, fresh, attempts>>

(* The answer is published.  On startup Start then launches the workers.   *)
Publish ==
  /\ Live
  /\ pc = "publish"
  /\ addr' = grant
  /\ \/ started /\ pc' = "add" /\ UNCHANGED <<started, rcv>>
     \/ ~started /\ pc' = "arm" /\ started' = TRUE /\ rcv' = "loop"
  /\ UNCHANGED <<tries, err, grant, tick, cnt, src, ctx, status, fresh, attempts>>

-----------------------------------------------------------------------------
(* Start: the retry loop around Register.                                  *)

(* Faulty variant: a refusal is retried like any other error.              *)
StartFailed_RetryRefused ==
  /\ Live
  /\ pc = "failed" /\ ~started
  /\ \/ /\ tries + 1 < RetryCount
        /\ tries' = tries + 1 /\ pc' = "clear" /\ UNCHANGED status
     \/ /\ tries + 1 = RetryCount
        /\ status' = "start_failed" /\ UNCHANGED <<tries, pc>>
  /\ UNCHANGED <<addr, started, err, grant, tick, cnt, recvVars, ctx, fresh, attempts>>

StartFailed ==
  /\ Live
  /\ pc = "failed" /\ ~started
  /\ \/ /\ err = "transient" /\ tries + 1 < RetryCount
        /\ tries' = tries + 1 /\ pc' = "clear" /\ UNCHANGED status
     \/ /\ err = "fatal" \/ tries + 1 = RetryCount
        /\ status' = "start_failed" /\ UNCHANGED <<tries, pc>>
  /\ UNCHANGED <<addr, started, err, grant, tick, cnt, recvVars, ctx, fresh, attempts>>

-----------------------------------------------------------------------------
(* reRegister: wait for the no-traffic tick, register, count, reset.       *)

Arm ==
  /\ Live
  /\ pc = "arm"
  /\ tick' = "armed"
  /\ pc' = "wait"
  /\ UNCHANGED <<addr, started, tries, err, grant, cnt, recvVars, ctx, status, fresh, attempts>>

(* noTrafficThreshold passes since the ticker was reset or last ticked.    *)
TickElapses ==
  /\ Live
  /\ tick = "armed"
  /\ tick' = "fired"
  /\ fresh' = (pc = "wait")
  /\ UNCHANGED <<regVars, cnt, recvVars, ctx, status, attempts>>

TakeTick ==
  /\ Live
  /\ pc = "wait" /\ tick = "fired"
  /\ tick' = "armed"
  /\ pc' = "clear"
  /\ attempts' = IF attempts <= Limit THEN attempts + 1 ELSE attempts
  /\ UNCHANGED <<addr, started, tries, err, grant, cnt, recvVars, ctx, status, fresh>>

MonitorDone ==
  /\ Live
  /\ pc = "wait" /\ ctx = "cancelled"
  /\ pc' = "done"
  /\ UNCHANGED <<addr, started, tries, err, grant, tick, cnt, recvVars, ctx, status, fresh, attempts>>

(* Faulty variant: reRegister gives up after a failed attempt.             *)
ReRegisterFailed_Return ==
  /\ Live
  /\ pc = "failed" /\ started
  /\ \/ err = "fatal" /\ status' = "refused" /\ UNCHANGED pc
     \/ err = "transient" /\ pc' = "done" /\ UNCHANGED status
  /\ UNCHANGED <<addr, started, tries, err, grant, tick, cnt, recvVars, ctx, fresh, attempts>>

ReRegisterFailed ==
  /\ Live
  /\ pc = "failed" /\ started
  /\ \/ err = "fatal" /\ status' = "refused" /\ UNCHANGED pc
     \/ err = "transient" /\ pc' = "reset" /\ UNCHANGED status
  /\ UNCHANGED <<addr, started, tries, err, grant, tick, cnt, recvVars, ctx, fresh, attempts>>

(* Faulty variant: a successful attempt is not counted.                    *)
AddCounter_Missing ==
  /\ Live
  /\ pc = "add"
  /\ pc' = "reset"
  /\ UNCHANGED <<addr, started, tries, err, grant, tick, cnt, recvVars, ctx, status, fresh, attempts>>

AddCounter ==
  /\ Live
  /\ pc = "add"
  /\ cnt' = cnt + 1
  /\ pc' = "check"
  /\ UNCHANGED <<addr, started, tries, err, grant, tick, recvVars, ctx, status, fresh, attempts>>

(* Faulty variant: the panic waits for one attempt more.                   *)
CheckCounter_OffByOne ==
  /\ Live
  /\ pc = "check"
  /\ \/ cnt > Limit /\ status' = "no_traffic" /\ UNCHANGED pc
     \/ cnt <= Limit /\ pc' = "reset" /\ UNCHANGED status
  /\ UNCHANGED <<addr, started, tries, err, grant, tick, cnt, recvVars, ctx, fresh, attempts>>

(* The counter is loaded again; the receiver may have stored 0 meanwhile.  *)
CheckCounter ==
  /\ Live
  /\ pc = "check"
  /\ \/ cnt % Limit = 0 /\ status' = "no_traffic" /\ UNCHANGED pc
     \/ cnt % Limit # 0 /\ pc' = "reset" /\ UNCHANGED status
  /\ UNCHANGED <<addr, started, tries, err, grant, tick, cnt, recvVars, ctx, fresh, attempts>>

(* Faulty variant: the ticker is not reset after the attempt.              *)
ResetTicker_Missing ==
  /\ Live
  /\ pc = "reset"
  /\ pc' = "wait"
  /\ UNCHANGED <<addr, started, tries, err, grant, tick, cnt, recvVars, ctx, status, fresh, attempts>>

ResetTicker ==
  /\ Live
  /\ pc = "reset"
  /\ tick' = "armed"
  /\ pc' = "wait"
  /\ UNCHANGED <<addr, started, tries, err, grant, cnt, recvVars, ctx, status, fresh, attempts>>

-----------------------------------------------------------------------------
(* receiveShredsFromOFR and the head of processShred.                      *)

RecvLoop ==
  /\ Live
  /\ rcv = "loop"
  /\ rcv' = IF ctx = "cancelled" THEN "done" ELSE "read"
  /\ UNCHANGED <<regVars, tick, cnt, src, ctx, status, fresh, attempts>>

RecvRead ==
  /\ Live
  /\ rcv = "read"
  /\ \/ \E s \in Sources : src' = s /\ rcv' = "zero"
     \/ rcv' = "loop" /\ UNCHANGED src
  /\ UNCHANGED <<regVars, tick, cnt, ctx, status, fresh, attempts>>

RecvZero ==
  /\ Live
  /\ rcv = "zero"
  /\ rcv' = IF addr = Zero THEN "loop" ELSE "match"
  /\ UNCHANGED <<regVars, tick, cnt, src, ctx, status, fresh, attempts>>

RecvMatch ==
  /\ Live
  /\ rcv = "match"
  /\ rcv' = IF src = addr THEN "reset" ELSE "loop"
  /\ UNCHANGED <<regVars, tick, cnt, src, ctx, status, fresh, attempts>>

(* Before reRegister has replaced it, Reset acts on the stopped ticker of  *)
(* New, which nobody reads.                                                *)
RecvReset ==
  /\ Live
  /\ rcv = "reset"
  /\ tick' = IF pc = "arm" THEN tick ELSE "armed"
  /\ rcv' = "store"
  /\ UNCHANGED <<regVars, cnt, src, ctx, status, fresh, attempts>>

(* The rest of processShred (parse, de-duplicate, queue) is in Forwarding. *)
RecvStore ==
  /\ Live
  /\ rcv = "store"
  /\ cnt' = 0 /\ attempts' = 0
  /\ rcv' = "loop"
  /\ UNCHANGED <<regVars, tick, src, ctx, status, fresh>>

-----------------------------------------------------------------------------
(* main: an interrupt is buffered at any time, read once Start has         *)
(* returned; then the context is cancelled and the process exits.          *)

Interrupt ==
  /\ Live
  /\ ctx = "live"
  /\ ctx' = "signalled"
  /\ UNCHANGED <<regVars, tick, cnt, recvVars, status, fresh, attempts>>

Cancel ==
  /\ Live
  /\ ctx = "signalled" /\ started
  /\ ctx' = "cancelled"
  /\ UNCHANGED <<regVars, tick, cnt, recvVars, status, fresh, attempts>>

Exit ==
  /\ Live
  /\ ctx = "cancelled"
  /\ status' = "interrupted"
  /\ UNCHANGED <<regVars, tick, cnt, recvVars, ctx, fresh, attempts>>

-----------------------------------------------------------------------------
RpcAnswers == RpcOk \/ (\E code \in Codes : RpcError(code)) \/ RpcNotIPv4

RegisterStep ==
  \/ Clear \/ Publish \/ StartFailed \/ Arm \/ TakeTick \/ MonitorDone
  \/ ReRegisterFailed \/ AddCounter \/ CheckCounter \/ ResetTicker

RecvStep == RecvLoop \/ RecvZero \/ RecvMatch \/ RecvReset \/ RecvStore

(* The process is gone.                                                    *)
Ended == ~Live /\ UNCHANGED vars

Next ==
  \/ RpcAnswers \/ RegisterStep \/ TickElapses
  \/ RecvStep \/ RecvRead
  \/ Interrupt \/ Cancel \/ Exit
  \/ Ended

(* Goroutines that are not blocked run, the ticker ticks, main exits 1 ms  *)
(* after it cancelled.  Nothing forces a packet or a signal to arrive.     *)
(* The relay answers every call, and not with a failure for ever: without  *)
(* the latter nothing can be promised, and without the former (the call    *)
(* has no deadline) the goroutine hangs in it.                             *)
Fairness ==
  /\ WF_vars(RegisterStep)
  /\ WF_vars(RpcAnswers)
  /\ SF_vars(RpcOk)
  /\ WF_vars(TickElapses)
  /\ WF_vars(RecvStep)
  /\ WF_vars(Exit)

Spec     == Init /\ [][Next]_vars
FairSpec == Spec /\ Fairness

-----------------------------------------------------------------------------
TypeOK ==
  /\ addr \in Relays \cup {Zero}
  /\ pc \in RegPcs /\ started \in BOOLEAN
  /\ tries \in 0..RetryCount-1
  /\ err \in Errors /\ grant \in Relays
  /\ tick \in {"stopped", "armed", "fired"}
  /\ cnt \in Nat
  /\ rcv \in RecvPcs /\ src \in Sources
  /\ ctx \in {"live", "signalled", "cancelled"}
  /\ status \in {"running"} \cup Ends
  /\ fresh \in BOOLEAN
  /\ attempts \in 0..Limit+1

(* Registered with the outcome of the last call, or not at all: while a    *)
(* call is out and after it failed, no address is left to send to or to    *)
(* accept packets from; otherwise the address is the one last granted.     *)
AddressFollowsCall ==
  /\ pc \in {"rpc", "publish", "failed"} => addr = Zero
  /\ pc \in {"arm", "add", "check"} => addr = grant
  /\ addr # Zero => addr = grant /\ err = "nil"

(* The counter never passes the limit, and reaches it only on the way to   *)
(* the panic: no run of attempts slips past the modulo test.               *)
CounterBounded ==
  /\ cnt <= Limit
  /\ cnt = Limit => pc = "check"
  /\ cnt > 0 => started

(* An attempt never starts on a tick that elapsed during the attempt       *)
(* before it: "reset the ticker after the callback is called to avoid      *)
(* calling the callback multiple times" (reRegister).                      *)
NoBackToBack == pc = "wait" /\ tick = "fired" => fresh

(* What these three rest on: the workers run from the moment reRegister    *)
(* does, only an answer is published, only a failure is handled as one,    *)
(* and a refusal leads nowhere else.                                       *)
Control ==
  /\ pc \in {"arm", "wait", "add", "check", "reset", "done"} => started
  /\ pc = "publish" => err = "nil"
  /\ pc = "failed" => err # "nil"
  /\ err = "fatal" => pc = "failed"

(* The inductive invariant of the registration protocol.                   *)
RegInv == TypeOK /\ Control /\ AddressFollowsCall /\ CounterBounded /\ NoBackToBack

(* A refused registration is not retried: after InvalidArgument,           *)
(* Unauthenticated or PermissionDenied no call goes out any more.          *)
NoCallAfterRefusal == [][err = "fatal" => pc' # "rpc"]_vars

(* A gateway that has lost its registration gets a new one, or the process *)
(* ends: neither failed attempts nor packets from strangers or from the    *)
(* relay it left keep it unregistered.                                     *)
Reconnects == addr = Zero ~> addr # Zero \/ status # "running"

(* Silence is noticed: the process ends unless packets from the relay keep *)
(* being counted.                                                          *)
SilenceDetected == []<><<RecvStore>>_vars \/ <>(status # "running")

(* "panic after noTrafficCounterLimit attempts to re-register, which means *)
(* that there is no traffic from OFR for noTrafficCounterLimit *           *)
(* noTrafficThreshold duration" (reRegister): the panic comes only when    *)
(* Limit ticks have passed since a packet was last counted.                *)
PanicOnlyAfterSilence == status = "no_traffic" => attempts >= Limit
=============================================================================
