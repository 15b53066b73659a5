----------------------------- MODULE MCStartup -----------------------------
(* Instances of Startup for TLC.                                           *)
EXTENDS Startup

(* Every combination of modes, with a server port inside the range.        *)
ModeConfigs ==
  [noValidator : BOOLEAN, firedancer : BOOLEAN, iface : BOOLEAN,
   stakedNode : BOOLEAN, stakedNodes : BOOLEAN,
   range : {<<1000, 1002>>}, server : {1000}, tvu : {8001}, broadcast : {0}]

(* Ranges and ports at their limits.                                       *)
PortConfigs ==
  [noValidator : {FALSE}, firedancer : {FALSE}, iface : {TRUE},
   stakedNode : {TRUE}, stakedNodes : {TRUE},
   range : {<<1000>>, <<None, 1000>>, <<1001, 1000>>, <<1001, 1001>>,
            <<0, 2>>, <<65534, 65537>>, <<999, 1003>>},
   server : {0, 1000, 65536}, tvu : {65530, 65536}, broadcast : {0, 8012}]

StartConfigs == ModeConfigs \cup PortConfigs
=============================================================================
