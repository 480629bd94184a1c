----------------------------- MODULE Activation -----------------------------
(***************************************************************************)
(* The activation of a terminal from end to end: the terminal asks with its *)
(* hardware_uuid and a batch token, the service of module Licensing binds   *)
(* the device, mints a license_key and signs a configuration around it, the *)
(* terminal installs what it is answered and works as long as the signature *)
(* and the key verify.                                                      *)
(* The network may lose a request or an answer, and a request the terminal  *)
(* has given up on may still be carried out.  Two terminals may present one *)
(* hardware_uuid (a cloned or reinstalled machine).                         *)
(***************************************************************************)
EXTENDS Licensing, DeviceConfig

CONSTANTS
    Terminals,   \* installations of a product
    Public,      \* those that activate by themselves, not through their backend
    HwOf,        \* HwOf[i]: the hardware_uuid terminal i presents
    TokenOf,     \* TokenOf[i]: the batch token typed in at terminal i
    Keys,        \* Keys[i]: the license keys the service can mint for terminal i
    Ext,         \* the "EXT-..." key of a device its product backend manages
    Configured,  \* the environments and signing keys it may be configured with
    MaxGhosts    \* bound: abandoned requests that may still be on their way

ASSUME TerminalAssumption ==
    /\ Public \subseteq Terminals
    /\ HwOf \in [Terminals -> HW] /\ TokenOf \in [Terminals -> Tokens]
    /\ Configured \subseteq [dev : BOOLEAN, key : SigningKeys]
    /\ None # Ext /\ \A i \in Terminals : {None, Ext} \cap Keys[i] = {}
    /\ \A i, j \in Terminals : Keys[i] \cap Keys[j] = {} \/ i = j

\* 256 random bits never repeat a key that is stored or known to the terminal.
ASSUME KeysAssumption ==
    \A i \in Terminals : \A x, y, z \in Keys[i] \cup {None, Ext} : Keys[i] \ {x, y, z} # {}

VARIABLES
    key,         \* device_activations.license_key, None where there is no row
    calling,     \* the terminals waiting for the answer to an activation
    ghosts,      \* those with an abandoned activation still on its way
    settings,    \* the environment and the signing key the service was started with
    reply,       \* reply[i]: the answer with a device_config on its way to terminal i
    installed    \* installed[i]: the configuration terminal i presents

netVars == <<calling, ghosts, reply, installed>>
actVars == <<vars, key, settings, netVars>>

NoConfig == [tenant |-> None, key |-> None, file |-> None]

\* What the service can have been started with.
Settings == {s \in Configured : Starts(s.dev, s.key)}

ActInit ==
    /\ Init
    /\ key = [h \in HW |-> None]
    /\ settings \in Settings
    /\ calling = {} /\ ghosts = {}
    /\ reply = [i \in Terminals |-> NoConfig]
    /\ installed = [i \in Terminals |-> NoConfig]

-----------------------------------------------------------------------------
(* The service and its keys.                                                *)

\* secrets.token_urlsafe(32): never a key that is stored or known to a terminal.
FreshKey(i) == CHOOSE x \in Keys[i] : x \notin {key[HwOf[i]], reply[i].key, installed[i].key}

\* The device_config an activation of terminal i is answered with now, a device
\* that is live already being marked as reactivated: who signed it, and whether
\* that is over the very bytes embedded, which is all a terminal can see of it.
Signed(i) ==
    LET c == Envelope(Payload(Live(HwOf[i])), settings.dev, settings.key)
    IN  [by |-> c.signature.by, intact |-> c.signature.over = c.payload]

Signs(i) == Signed(i).by # "SigningKeyError"

\* Mutant: a live device is a conflict, whoever asks.
Accepts_NotLive(i) ==
    LET k == TokenOf[i]  h == HwOf[i]  t == tok[k].owner IN
    /\ t # None
    /\ TokenOk(t, k)
    /\ i \in Public => tenant[t] = "ACTIVE"
    /\ ~Live(h) /\ SeatFree(t, k)
    /\ Signs(i)

\* The refusals of both doors: the token, the standing (public door only), a
\* live device of another tenant, the two caps; last, a signer that raises takes
\* the booking back with it.
Accepts(i) ==
    LET k == TokenOf[i]  h == HwOf[i]  t == tok[k].owner IN
    /\ t # None
    /\ TokenOk(t, k)
    /\ i \in Public => tenant[t] = "ACTIVE"
    /\ IF Live(h) THEN dev[h].tenant = t ELSE SeatFree(t, k)
    /\ Signs(i)

\* Mutant: re-activation hands out the stored key again.
Activate_SameKey(i) ==
    LET k == TokenOf[i]  h == HwOf[i] IN
    /\ Accepts(i)
    /\ IF i \in Public THEN PublicActivate(k, h) ELSE \E t \in Tenants : CpActivate(t, k, h)
    /\ key' = IF Live(h) /\ key[h] # Ext THEN key ELSE [key EXCEPT ![h] = FreshKey(i)]

\* Booking and rotation alike mint a key.
Activate(i) ==
    LET k == TokenOf[i]  h == HwOf[i] IN
    /\ Accepts(i)
    /\ IF i \in Public THEN PublicActivate(k, h) ELSE \E t \in Tenants : CpActivate(t, k, h)
    /\ key' = [key EXCEPT ![h] = FreshKey(i)]

\* cp_verify_device as terminal i meets it at a backend of tenant t.
Verifies(i, t) ==
    /\ installed[i].key # None /\ installed[i].key = key[HwOf[i]]
    /\ VerifyDevice(t, HwOf[i])

\* A heartbeat presents the stored key: a terminal's, or the backend's own.
Beat(t, h) ==
    /\ key[h] = Ext \/ \E i \in Terminals : HwOf[i] = h /\ installed[i].key = key[h]
    /\ Heartbeat(t, h)
    /\ UNCHANGED key

\* Mutant: the booking leaves license_key out.
ConsumeSeat_NoKey(t, k, h) == CpConsumeSeat(t, k, h) /\ UNCHANGED key

ConsumeSeat(t, k, h) == CpConsumeSeat(t, k, h) /\ key' = [key EXCEPT ![h] = Ext]

Delete(t) ==
    /\ DeleteTenant(t)
    /\ key' = [h \in HW |-> IF dev[h].tenant = t THEN None ELSE key[h]]

\* What operators and product backends do meanwhile.
OthersAct ==
    \/ /\ \/ Tick
          \/ \E t \in Tenants :
                \/ \E n \in SeatLimits, w \in Windows, g \in Graces : CreateTenant(t, n, w, g)
                \/ RecordPayment(t) \/ SuspendTenant(t) \/ ReactivateTenant(t)
          \/ \E k \in Tokens : TokenOps(k)
          \/ \E h \in HW :
                \/ \E t \in Tenants : CpReleaseSeat(t, h)
                \/ AdminRevokeDevice(h)
                \/ ReinstateDevice(h)
       /\ UNCHANGED key
    \/ \E t \in Tenants : Delete(t)
    \/ \E t \in Tenants, h \in HW : Beat(t, h) \/ \E k \in Tokens : ConsumeSeat(t, k, h)

-----------------------------------------------------------------------------
(* The terminal and the network.                                            *)

Ask(i) ==
    /\ i \notin calling /\ reply[i] = NoConfig
    /\ calling' = calling \cup {i}
    /\ UNCHANGED <<vars, key, settings, ghosts, reply, installed>>

\* _activation_result: the tenant the token is of, whose API the terminal is to
\* talk to, the key minted and the file it is signed into.
Config(i) == [tenant |-> tok[TokenOf[i]].owner, key |-> key'[HwOf[i]], file |-> Signed(i)]

\* The request reaches the service, which answers a configuration or an error.
Execute(i) ==
    /\ i \in calling
    /\ calling' = calling \ {i}
    /\ \/ /\ Activate(i)
          /\ reply' = [reply EXCEPT ![i] = Config(i)]
       \/ /\ ~Accepts(i)
          /\ UNCHANGED <<vars, key, reply>>
    /\ UNCHANGED <<settings, ghosts, installed>>

\* A request nobody waits for any more takes effect all the same.
ExecuteGhost(i) ==
    /\ i \in ghosts
    /\ ghosts' = ghosts \ {i}
    /\ Activate(i) \/ (~Accepts(i) /\ UNCHANGED <<vars, key>>)
    /\ UNCHANGED <<settings, calling, reply, installed>>

Receive(i) ==
    /\ reply[i] # NoConfig
    /\ installed' = [installed EXCEPT ![i] = reply[i]]
    /\ reply' = [reply EXCEPT ![i] = NoConfig]
    /\ UNCHANGED <<vars, key, settings, calling, ghosts>>

\* The terminal stops waiting: its request is lost or still on its way (bound:
\* MaxGhosts such requests), or its answer is lost.
GiveUp(i) ==
    /\ i \in calling \/ reply[i] # NoConfig
    /\ ghosts' \in {ghosts, ghosts \cup ({i} \cap calling)}
    /\ Cardinality(ghosts') =< MaxGhosts
    /\ calling' = calling \ {i}
    /\ reply' = [reply EXCEPT ![i] = NoConfig]
    /\ UNCHANGED <<vars, key, settings, installed>>

ActNext ==
    \/ \E i \in Terminals : Ask(i) \/ Execute(i) \/ ExecuteGhost(i) \/ Receive(i) \/ GiveUp(i)
    \/ OthersAct /\ UNCHANGED <<settings, netVars>>

ActSpec == ActInit /\ [][ActNext]_actVars

\* What a terminal asks of its configuration whenever it loads it: a signature
\* over exactly the bytes embedded, by Ed25519 unless it is a development build.
Genuine(i) ==
    /\ installed[i].file.intact
    /\ installed[i].file.by \in {"ed25519"} \cup IF settings.dev THEN {"DEVCFG"} ELSE {}

\* Works: terminal i loads its configuration and gets past the login gate of the
\* tenant named in it.
Works(i) ==
    /\ installed[i] # NoConfig /\ Genuine(i)
    /\ Verifies(i, installed[i].tenant)

\* Terminal i insists: while it does not work it is activated again, and the
\* network does not lose its every request and every answer.  This is asked of the
\* terminal a liveness property is about, never of all at once: two terminals that
\* insist on one machine take it from each other for ever.
Insists(i) ==
    /\ SF_actVars(~Works(i) /\ Ask(i))
    /\ SF_actVars(Execute(i))
    /\ SF_actVars(Receive(i))

-----------------------------------------------------------------------------
(* Properties.                                                              *)

AllKeys == UNION {Keys[i] : i \in Terminals}

Files == [by : {"ed25519", "DEVCFG"}, intact : BOOLEAN]

\* A device has a key exactly while it has a row, and what terminals hold was
\* minted and signed here: never the key of a device its backend manages.
ActTypeOK ==
    /\ key \in [HW -> AllKeys \cup {None, Ext}]
    /\ settings \in Settings
    /\ calling \subseteq Terminals /\ ghosts \subseteq Terminals
    /\ DOMAIN reply = Terminals /\ DOMAIN installed = Terminals
    /\ \A i \in Terminals : {reply[i], installed[i]} \subseteq
            {NoConfig} \cup [tenant : Tenants, key : Keys[i], file : Files]
    /\ \A h \in HW : key[h] = None <=> ~Bound(h)

\* However often one hardware_uuid is activated, by whom and through whichever
\* door, with answers lost and requests overtaken, at most one of the
\* installations presenting it works: "the previously issued key stops
\* verifying".
OneInstallation ==
    \A i, j \in Terminals, s, t \in Tenants :
        HwOf[i] = HwOf[j] /\ Verifies(i, s) /\ Verifies(j, t) => i = j

\* What a terminal needs to be let in: a good token of a tenant in good
\* standing, and its own live device or a seat left.
Entitled(i) ==
    LET k == TokenOf[i]  h == HwOf[i]  t == tok[k].owner IN
    /\ t # None
    /\ tenant[t] = "ACTIVE"
    /\ ~tok[k].revoked /\ (tok[k].expires # Never => tok[k].expires > now)
    /\ \/ Live(h) /\ dev[h].tenant = t
       \/ Cardinality(LiveOf(t)) < sub[t].limit /\ tok[k].consumed < tok[k].quota

\* An activation whose answer was lost is not lost: once the network and
\* everybody else leave it alone, a terminal that is entitled and insists gets in
\* by asking again, although its device is live under a key it never saw, and with a
\* configuration that verifies under whatever signing key the service started with.
TerminalRecovers ==
    \A i \in Terminals :
        /\ Insists(i)
        /\ <>[][Ask(i) \/ Execute(i) \/ Receive(i) \/ ExecuteGhost(i)]_actVars
        /\ <>[]Entitled(i)
        => []<>Works(i)
=============================================================================
