------------------------------- MODULE Client --------------------------------
(***************************************************************************)
(* The connection controller of the app (connection_controller.dart), the  *)
(* device's key pair (keychain_service.dart) and the screen that drives    *)
(* them (main.dart).                                                       *)
(*                                                                         *)
(* Dart runs one event loop: a handler runs from one await to the next in  *)
(* one step, and between two of its awaits anything else may happen.  What *)
(* is awaited (the platform's secure storage, the API, the WireGuard       *)
(* plugin) may throw, with or without having done what it was asked.       *)
(*                                                                         *)
(* The plugin's connect and disconnect take two steps each: the tunnel     *)
(* changes, and later the handler goes on.  The other awaits take one:     *)
(* what a handler does after them touches only what is its own, or, in     *)
(* Ask, reads the screen, which may as well have changed before.           *)
(***************************************************************************)
EXTENDS Naturals

CONSTANTS
  Flows,        \* the calls of connect and toggleStealth that may be running
  Keys,         \* the key pairs the device may generate: bounds a behaviour
  Nodes, Sgp,   \* Sgp: the node selected at the start
  None

ASSUME NodeAssumption == Sgp \in Nodes

VARIABLES
  status, node, stealth,           \* ConnectionState but for what is only displayed
  flow,                            \* flow[f]: the await call f is at
  priv, pub, made,                 \* the keychain; the pairs generated so far
  conf, tunnel                     \* the plugin: the config set, and the one up

ui == <<status, node, stealth>>
keychain == <<priv, pub, made>>
plugin == <<conf, tunnel>>

vars == <<ui, flow, keychain, plugin>>

\* What the API was asked for, and a wg-quick config made of its answer.
Lease == [key : Keys, node : Nodes, stealth : BOOLEAN]
Config == [lease : Lease, priv : Keys]

ASSUME NoneAssumption == None \notin Keys /\ None \notin Config

Idle == [at |-> "idle"]

Flow ==
  {Idle}
    \cup [at : {"readPub"}]
    \cup [at : {"writePriv", "writePub"}, key : Keys]
    \cup [at : {"api", "readPriv"}, lease : Lease]
    \cup [at : {"setConfig", "up", "raised"}, config : Config]
    \cup [at : {"down", "lowered"}, to : BOOLEAN]

Disconnecting(f) == flow[f].at \in {"down", "lowered"}

Connecting(f) == flow[f].at \notin {"idle", "down", "lowered"}

Init ==
  /\ status = "disconnected" /\ node = Sgp /\ stealth = FALSE
  /\ flow = [f \in Flows |-> Idle]
  /\ priv = None /\ pub = None /\ made = {}
  /\ conf = None /\ tunnel = None

Goes(f, s) == flow' = [flow EXCEPT ![f] = s]

-----------------------------------------------------------------------------
(* The screen.                                                              *)

\* The button, whatever it says: it is off only while status is connecting.
\* The screen is taken to be redrawn before the next tap is handled.
Press(f) ==
  /\ flow[f] = Idle
  /\ status # "connecting"
  /\ status' = "connecting"
  /\ Goes(f, [at |-> "readPub"])
  /\ UNCHANGED <<node, stealth, keychain, plugin>>

SelectNode(n) ==
  /\ node' = n
  /\ UNCHANGED <<status, stealth, flow, keychain, plugin>>

\* toggleStealth: the switch shows stealth, so it asks for the opposite.
Toggle(f) ==
  /\ flow[f] = Idle
  /\ IF status = "connected"
       THEN Goes(f, [at |-> "down", to |-> ~stealth]) /\ UNCHANGED stealth
       ELSE stealth' = ~stealth /\ UNCHANGED flow
  /\ UNCHANGED <<status, node, keychain, plugin>>

-----------------------------------------------------------------------------
(* connect, and ensureKeyPair inside it.                                    *)

\* The API is asked with what the screen shows at this moment.
Ask(f, k) ==
  Goes(f, [at |-> "api", lease |-> [key |-> k, node |-> node, stealth |-> stealth]])

\* Mutant: what is stored is returned, a key or not.
ReadPubUnchecked(f) ==
  /\ flow[f].at = "readPub"
  /\ Ask(f, pub)
  /\ UNCHANGED <<ui, keychain, plugin>>

\* Mutant: a pair is generated whether there is one or not.
ReadPubAlways(f) ==
  /\ flow[f].at = "readPub"
  /\ \E k \in Keys \ made :
       /\ made' = made \cup {k}
       /\ Goes(f, [at |-> "writePriv", key |-> k])
  /\ UNCHANGED <<ui, priv, pub, plugin>>

ReadPub(f) ==
  /\ flow[f].at = "readPub"
  /\ IF pub # None
       THEN Ask(f, pub) /\ UNCHANGED made
       ELSE \E k \in Keys \ made :
              /\ made' = made \cup {k}
              /\ Goes(f, [at |-> "writePriv", key |-> k])
  /\ UNCHANGED <<ui, priv, pub, plugin>>

\* Mutant: the public key is stored first.
WritePrivPub(f) ==
  /\ flow[f].at = "writePriv"
  /\ pub' = flow[f].key
  /\ Goes(f, [flow[f] EXCEPT !.at = "writePub"])
  /\ UNCHANGED <<ui, priv, made, plugin>>

WritePriv(f) ==
  /\ flow[f].at = "writePriv"
  /\ priv' = flow[f].key
  /\ Goes(f, [flow[f] EXCEPT !.at = "writePub"])
  /\ UNCHANGED <<ui, pub, made, plugin>>

WritePub(f) ==
  /\ flow[f].at = "writePub"
  /\ pub' = flow[f].key
  /\ Ask(f, flow[f].key)
  /\ UNCHANGED <<ui, priv, made, plugin>>

Answered(f) ==
  /\ flow[f].at = "api"
  /\ Goes(f, [at |-> "readPriv", lease |-> flow[f].lease])
  /\ UNCHANGED <<ui, keychain, plugin>>

\* A missing private key is an exception: Fails.
ReadPriv(f) ==
  /\ flow[f].at = "readPriv"
  /\ priv # None
  /\ Goes(f, [at |-> "setConfig", config |-> [lease |-> flow[f].lease, priv |-> priv]])
  /\ UNCHANGED <<ui, keychain, plugin>>

SetConfig(f) ==
  /\ flow[f].at = "setConfig"
  /\ conf' = flow[f].config
  /\ Goes(f, [flow[f] EXCEPT !.at = "up"])
  /\ UNCHANGED <<ui, keychain, tunnel>>

\* The plugin starts the tunnel, with the config it was given last.
Up(f) ==
  /\ flow[f].at = "up"
  /\ tunnel' = conf
  /\ Goes(f, [flow[f] EXCEPT !.at = "raised"])
  /\ UNCHANGED <<ui, keychain, conf>>

\* The plugin has answered: connect goes on, whatever happened meanwhile.
Connected(f) ==
  /\ flow[f].at = "raised"
  /\ status' = "connected"
  /\ Goes(f, Idle)
  /\ UNCHANGED <<node, stealth, keychain, plugin>>

\* Mutant: only PaywallRequired is caught (no connection_controller.dart:90).
FailsPaywall(f) ==
  /\ Connecting(f)
  /\ status' = IF flow[f].at = "api" THEN "failed" ELSE status
  /\ Goes(f, Idle)
  /\ UNCHANGED <<node, stealth, keychain, plugin>>

\* Any await of connect throws, the plugin's with the tunnel up or not.  A write
\* that throws may have been made.
Fails(f) ==
  /\ Connecting(f)
  /\ status' = "failed"
  /\ Goes(f, Idle)
  /\ priv' \in {priv} \cup (IF flow[f].at = "writePriv" THEN {flow[f].key} ELSE {})
  /\ pub' \in {pub} \cup (IF flow[f].at = "writePub" THEN {flow[f].key} ELSE {})
  /\ conf' \in {conf} \cup (IF flow[f].at = "setConfig" THEN {flow[f].config} ELSE {})
  /\ UNCHANGED <<node, stealth, made, tunnel>>

-----------------------------------------------------------------------------
(* disconnect, called by toggleStealth only; then the app's end.            *)

\* The plugin stops the tunnel.
Down(f) ==
  /\ flow[f].at = "down"
  /\ tunnel' = None
  /\ Goes(f, [flow[f] EXCEPT !.at = "lowered"])
  /\ UNCHANGED <<ui, keychain, conf>>

\* disconnect's finally and the rest of toggleStealth, which runs before the
\* next event.
Disconnected(f) ==
  /\ flow[f].at = "lowered"
  /\ status' = "disconnected"
  /\ stealth' = flow[f].to
  /\ Goes(f, Idle)
  /\ UNCHANGED <<node, keychain, plugin>>

\* The plugin throws, with the tunnel down or not: stealth stays as it was.
DownFails(f) ==
  /\ Disconnecting(f)
  /\ status' = "disconnected"
  /\ Goes(f, Idle)
  /\ UNCHANGED <<node, stealth, keychain, plugin>>

\* The app is killed and started again; the system may keep the tunnel up.
Kill ==
  /\ status' = "disconnected" /\ node' = Sgp /\ stealth' = FALSE
  /\ flow' = [f \in Flows |-> Idle]
  /\ conf' = None
  /\ tunnel' \in {tunnel, None}
  /\ UNCHANGED keychain

Step(f) ==
  \/ Press(f) \/ Toggle(f)
  \/ ReadPub(f) \/ WritePriv(f) \/ WritePub(f)
  \/ Answered(f) \/ ReadPriv(f) \/ SetConfig(f) \/ Up(f) \/ Connected(f) \/ Fails(f)
  \/ Down(f) \/ Disconnected(f) \/ DownFails(f)

Next ==
  \/ \E f \in Flows : Step(f)
  \/ \E n \in Nodes : SelectNode(n)
  \/ Kill

Spec == Init /\ [][Next]_vars

-----------------------------------------------------------------------------
(* Properties.                                                              *)

TypeOK ==
  /\ status \in {"disconnected", "connecting", "connected", "failed"}
  /\ node \in Nodes /\ stealth \in BOOLEAN
  /\ flow \in [Flows -> Flow]
  /\ priv \in Keys \cup {None} /\ pub \in Keys \cup {None} /\ made \subseteq Keys
  /\ conf \in Config \cup {None} /\ tunnel \in Config \cup {None}

\* A stored public key is used for ever (keychain_service.dart:33-34): its
\* private key must be the one stored, whenever the app was killed or a write
\* failed, and however many calls of connect run at once.
PairStored == pub # None => priv = pub

\* For ever also means that no call replaces either half of it: not one that
\* read the keychain before the pair was stored, and not a write that failed
\* late.  Otherwise the next connect would take a second lease for the device.
PairKept == [][pub # None => UNCHANGED <<priv, pub>>]_vars

\* The tunnel that is up holds the private key of the public key that its lease
\* was asked for (connection_controller.dart:75-78), although that private key
\* is read an API call later and the config may be another call's.
OwnKeyTunnel == tunnel # None => tunnel.priv = tunnel.lease.key

\* The button is off only while a call is running that will switch it on again
\* (connection_controller.dart:88-91): the screen cannot stay at "connecting"
\* after an exception or an overtaken call.
NeverStuck == status = "connecting" => \E f \in Flows : Connecting(f)

-----------------------------------------------------------------------------
(* A statement the repository makes which the program does not keep.        *)

\* A protocol switch always forces a fresh tunnel (connection_controller.dart:54):
\* "CONNECTED - STEALTH" or "STANDARD" (main.dart:41-42) says which tunnel is up,
\* unless a switch is forcing one at this moment.
ShownIsTunnel ==
  status = "connected" /\ (\A f \in Flows : ~Disconnecting(f)) =>
    tunnel # None /\ tunnel.lease.stealth = stealth
=============================================================================
