-------------------------- MODULE ActivationProofs --------------------------
(***************************************************************************)
(* Machine-checked proofs about Activation, for any number of terminals,    *)
(* machines and tenants and any behaviour of the network: the service the   *)
(* terminals meet is the one of Licensing, a device has a key exactly while *)
(* it has a row, of the installations that present one hardware_uuid at     *)
(* most one works, and none is let in by a tenant it was not sent to.       *)
(***************************************************************************)
EXTENDS Activation, LicensingProofs

\* What the service keeps and what the terminals hold.
ActInv == IInv /\ ActTypeOK

-----------------------------------------------------------------------------
(* The tables under the terminals are those of Licensing.                   *)

\* An activation that is carried out is one of the two doors of Licensing.
LEMMA ActivateIsOp ==
    ASSUME NEW i \in Terminals, Activate(i)
    PROVE  DeviceOps(HwOf[i])
BY TerminalAssumption DEF Activate, DeviceOps

\* Whatever the others do is an operation of Licensing.
LEMMA OthersAreOps == OthersAct => Next
<1>1. ASSUME NEW t \in Tenants, Delete(t) PROVE Next
  BY <1>1 DEF Delete, Next, TenantOps
<1>2. ASSUME NEW t \in Tenants, NEW h \in HW, Beat(t, h) PROVE Next
  BY <1>2 DEF Beat, Next, DeviceOps
<1>3. ASSUME NEW t \in Tenants, NEW h \in HW, NEW k \in Tokens, ConsumeSeat(t, k, h) PROVE Next
  BY <1>3 DEF ConsumeSeat, Next, DeviceOps
<1> QED
  BY <1>1, <1>2, <1>3 DEF OthersAct, Next, TenantOps, DeviceOps

\* Terminals and the network only ever wait, lose things, or ask for an
\* operation of Licensing.
LEMMA StepIsStep == [ActNext]_actVars => [Next]_vars
<1> SUFFICES ASSUME [ActNext]_actVars PROVE [Next]_vars
  OBVIOUS
<1>1. ASSUME NEW i \in Terminals,
             Ask(i) \/ Execute(i) \/ ExecuteGhost(i) \/ Receive(i) \/ GiveUp(i)
      PROVE  [Next]_vars
  <2>1. HwOf[i] \in HW
    BY TerminalAssumption
  <2>2. CASE Activate(i)
    BY <2>1, <2>2, ActivateIsOp DEF Next
  <2>3. CASE ~Activate(i)
    BY <1>1, <2>3 DEF Ask, Execute, ExecuteGhost, Receive, GiveUp
  <2> QED
    BY <2>2, <2>3
<1> QED
  BY <1>1, OthersAreOps DEF ActNext, actVars

\* The service that terminals meet through the network is the one of module
\* Licensing: no loss, delay or duplication makes it do anything else, so every
\* theorem about Licensing holds of it.
THEOREM ActivationRunsLicensing == ActSpec => Spec
BY StepIsStep, PTL DEF ActSpec, ActInit, Spec

-----------------------------------------------------------------------------
(* Keys.                                                                    *)

\* A minted key is the terminal's own, and none of those it may have seen.
LEMMA FreshKeyMinted ==
    ASSUME ActTypeOK, NEW i \in Terminals
    PROVE  FreshKey(i) \in Keys[i] /\ FreshKey(i) \notin {reply[i].key, installed[i].key}
<1> DEFINE seen == {key[HwOf[i]], reply[i].key, installed[i].key}
<1>1. \E x \in Keys[i] : x \notin seen
  <2>1. {reply[i].key, installed[i].key} \subseteq Keys[i] \cup {None, Ext}
    BY DEF ActTypeOK, NoConfig
  <2>2. \A x \in Keys[i] \cup {None, Ext} :
            \E y \in Keys[i] : y \notin {x, reply[i].key, installed[i].key}
    <3>1. \A x \in Keys[i] \cup {None, Ext} : Keys[i] \ {x, reply[i].key, installed[i].key} # {}
      BY <2>1, KeysAssumption, Zenon
    <3> QED
      BY <3>1
  <2>3. CASE key[HwOf[i]] \in Keys[i]
    BY <2>2, <2>3
  <2>4. CASE key[HwOf[i]] \notin Keys[i]
    BY <2>2, <2>4
  <2> QED
    BY <2>3, <2>4
<1> QED
  BY <1>1 DEF FreshKey

\* An activated device has a row, and no other device gains or loses one.
LEMMA ActivateBinds ==
    ASSUME NEW t \in Tenants, NEW k \in Tokens, NEW h \in HW, DoActivate(t, k, h), TypeOK
    PROVE  Bound(h)' /\ \A g \in HW \ {h} : Bound(g)' = Bound(g)
BY NoneAssumption DEF DoActivate, Book, Rotate, Bound, Live, TypeOK, DevRow

\* Both doors book for the tenant the token is of.
LEMMA ActivateOwner ==
    ASSUME IInv, NEW i \in Terminals, Activate(i)
    PROVE  /\ tok[TokenOf[i]].owner \in Tenants
           /\ DoActivate(tok[TokenOf[i]].owner, TokenOf[i], HwOf[i])
<1> DEFINE k == TokenOf[i]
<1>1. k \in Tokens
  BY TerminalAssumption
<1>2. tok[k].owner \in Tenants
  BY <1>1 DEF Activate, Accepts, IInv, TypeOK, TokRow
<1>3. CASE i \in Public
  BY <1>2, <1>3 DEF Activate, PublicActivate
<1>4. CASE i \notin Public
  BY <1>2, <1>4 DEF Activate, CpActivate, TokenOk
<1> QED
  BY <1>2, <1>3, <1>4

\* What an activation is answered with is of the token's tenant, under a key of
\* the terminal, and signed.
LEMMA ConfigMade ==
    ASSUME ActInv, NEW i \in Terminals, Activate(i), key'[HwOf[i]] \in Keys[i]
    PROVE  Config(i) \in [tenant : Tenants, key : Keys[i], file : Files]
<1>1. Signed(i) \in Files
  BY DEF Activate, Accepts, Signs, Signed, Envelope, SignPayload, Files
<1> QED
  BY <1>1, ActivateOwner DEF Config, ActInv

\* An activation that succeeds leaves the device with a fresh key of the terminal.
LEMMA ActivateKeys ==
    ASSUME ActInv, NEW i \in Terminals, Activate(i)
    PROVE  /\ key' \in [HW -> AllKeys \cup {None, Ext}]
           /\ key'[HwOf[i]] \in Keys[i]
           /\ \A h \in HW : key'[h] = None <=> ~Bound(h)'
<1> DEFINE k == TokenOf[i]  m == HwOf[i]
<1>1. k \in Tokens /\ m \in HW /\ None \notin Keys[i]
  BY TerminalAssumption
<1>2. FreshKey(i) \in Keys[i]
  BY FreshKeyMinted DEF ActInv
<1>3. key' = [key EXCEPT ![m] = FreshKey(i)]
  BY DEF Activate
<1>4. \E t \in Tenants : DoActivate(t, k, m)
  BY <1>1, ActivateOwner DEF ActInv
<1>5. Bound(m)' /\ \A h \in HW \ {m} : Bound(h)' = Bound(h)
  BY <1>1, <1>4, ActivateBinds DEF ActInv, IInv
<1> QED
  BY <1>1, <1>2, <1>3, <1>5 DEF ActInv, ActTypeOK, AllKeys

\* Keys are minted by activations, replaced by the backend's own on a booking
\* without one, and go with their rows.
LEMMA KeysNext == ActInv /\ [ActNext]_actVars => ActTypeOK'
<1> SUFFICES ASSUME ActInv, [ActNext]_actVars PROVE ActTypeOK'
  OBVIOUS
<1> DEFINE KeysFit == /\ key' \in [HW -> AllKeys \cup {None, Ext}]
                      /\ \A h \in HW : key'[h] = None <=> ~Bound(h)'
<1> USE DEF ActInv
<1>1. ASSUME KeysFit, UNCHANGED <<settings, netVars>> PROVE ActTypeOK'
  BY <1>1 DEF ActTypeOK, AllKeys, netVars
<1>2. ASSUME UNCHANGED key, \A h \in HW : Bound(h)' = Bound(h) PROVE KeysFit
  BY <1>2 DEF ActTypeOK, AllKeys
<1>3. ASSUME NEW i \in Terminals, Ask(i) \/ Receive(i) \/ GiveUp(i) PROVE ActTypeOK'
  <2>1. KeysFit
    BY <1>2, <1>3 DEF Ask, Receive, GiveUp, vars, Bound
  <2>2. calling' \subseteq Terminals /\ ghosts' \subseteq Terminals /\ settings' \in Settings
    BY <1>3 DEF Ask, Receive, GiveUp, ActTypeOK
  <2>3. /\ DOMAIN reply' = Terminals /\ DOMAIN installed' = Terminals
        /\ \A j \in Terminals : {reply'[j], installed'[j]} \subseteq
              {NoConfig} \cup [tenant : Tenants, key : Keys[j], file : Files]
    <3>1. CASE UNCHANGED installed /\ (UNCHANGED reply \/ reply' = [reply EXCEPT ![i] = NoConfig])
      BY <3>1 DEF ActTypeOK
    <3>2. CASE Receive(i)
      BY <3>2 DEF Receive, ActTypeOK
    <3> QED
      BY <1>3, <3>1, <3>2 DEF Ask, GiveUp
  <2> QED
    BY <2>1, <2>2, <2>3 DEF ActTypeOK, AllKeys
<1>4. ASSUME NEW i \in Terminals, Execute(i) PROVE ActTypeOK'
  <2>1. CASE Activate(i) /\ reply' = [reply EXCEPT ![i] = Config(i)]
    <3>1. KeysFit /\ key'[HwOf[i]] \in Keys[i]
      BY <2>1, ActivateKeys
    <3>2. Config(i) \in [tenant : Tenants, key : Keys[i], file : Files]
      BY <2>1, <3>1, ConfigMade
    <3> HIDE DEF ActInv
    <3> QED
      BY <1>4, <2>1, <3>1, <3>2 DEF Execute, ActTypeOK, AllKeys, ActInv
  <2>2. CASE UNCHANGED <<vars, key, reply>>
    <3>1. KeysFit
      BY <1>2, <2>2 DEF vars, Bound
    <3> QED
      BY <1>4, <2>2, <3>1 DEF Execute, ActTypeOK, AllKeys
  <2> QED
    BY <1>4, <2>1, <2>2 DEF Execute
<1>5. ASSUME NEW i \in Terminals, ExecuteGhost(i) PROVE ActTypeOK'
  <2>1. CASE Activate(i)
    BY <1>5, <2>1, ActivateKeys DEF ExecuteGhost, ActTypeOK, AllKeys
  <2>2. CASE UNCHANGED <<vars, key>>
    <3>1. KeysFit
      BY <1>2, <2>2 DEF vars, Bound
    <3> QED
      BY <1>5, <2>2, <3>1 DEF ExecuteGhost, ActTypeOK, AllKeys
  <2> QED
    BY <1>5, <2>1, <2>2 DEF ExecuteGhost
<1>6. ASSUME OthersAct PROVE KeysFit
  <2>1. ASSUME NEW t \in Tenants, Delete(t) PROVE KeysFit
    BY <2>1, NoneAssumption DEF Delete, DeleteTenant, Bound, ActTypeOK, AllKeys, IInv, TypeOK, DevRow, NoDev
  <2>2. ASSUME NEW t \in Tenants, NEW h \in HW, Beat(t, h) PROVE KeysFit
    BY <1>2, <2>2 DEF Beat, Heartbeat, Bound, IInv, TypeOK, DevRow
  <2>3. ASSUME NEW t \in Tenants, NEW h \in HW, NEW k \in Tokens, ConsumeSeat(t, k, h) PROVE KeysFit
    <3>1. Bound(h)' /\ \A g \in HW \ {h} : Bound(g)' = Bound(g)
      BY <2>3, ActivateBinds DEF ConsumeSeat, CpConsumeSeat, DoActivate, IInv
    <3> QED
      BY <2>3, <3>1, TerminalAssumption DEF ConsumeSeat, ActTypeOK, AllKeys
  <2>4. ASSUME UNCHANGED <<key, dev>> PROVE KeysFit
    BY <1>2, <2>4 DEF Bound
  <2>5. ASSUME NEW k \in Tokens, TokenOps(k) PROVE UNCHANGED dev
    BY <2>5 DEF TokenOps, GenerateBatchToken, RevokeBatchToken
  <2>6. ASSUME NEW h \in HW, UNCHANGED key, ReleaseSeat(h) \/ ReinstateDevice(h) PROVE KeysFit
    BY <1>2, <2>6 DEF ReleaseSeat, ReinstateDevice, Bound, IInv, TypeOK, DevRow
  <2> QED
    BY <1>6, <2>1, <2>2, <2>3, <2>4, <2>5, <2>6 DEF OthersAct, CpReleaseSeat, AdminRevokeDevice,
       Tick, CreateTenant, RecordPayment, SuspendTenant, ReactivateTenant
<1> QED
  BY <1>1, <1>2, <1>3, <1>4, <1>5, <1>6 DEF ActNext, actVars, vars, Bound

\* The keys, the requests and the configurations keep their types; in
\* particular a device has a key exactly while it has a row.
THEOREM ActTypeCorrect == ActSpec => []ActTypeOK
<1>1. ActInit => ActTypeOK
  BY DEF ActInit, Init, ActTypeOK, Bound, NoDev
<1>2. ActSpec => []IInv
  BY ActivationRunsLicensing, Inductive, PTL
<1> QED
  BY <1>1, <1>2, KeysNext, PTL DEF ActSpec, ActInv

\* Two working installations on one hardware_uuid hold its one stored key,
\* which was minted for one of them.
LEMMA OneKeyOneTerminal == ActTypeOK => OneInstallation
<1>1. ASSUME ActTypeOK, NEW i \in Terminals PROVE installed[i].key \in Keys[i] \cup {None}
  BY <1>1 DEF ActTypeOK, NoConfig
<1> QED
  BY <1>1, TerminalAssumption DEF OneInstallation, Verifies

\* However many installations present one hardware_uuid and whatever the
\* network does to their activations, at most one of them works.
THEOREM AtMostOneInstallation == ActSpec => []OneInstallation
BY ActTypeCorrect, OneKeyOneTerminal, PTL

-----------------------------------------------------------------------------
(* The tenant a configuration names.                                        *)

\* A terminal that is let in was sent to the tenant that lets it in: through
\* revocation, booking by another tenant, deletion and late answers, no key
\* verifies at a tenant other than the one its configuration names ("never hand
\* out the key of a device bound to a different tenant").
ConfigNamesBinding ==
    \A i \in Terminals, t \in Tenants : Verifies(i, t) => installed[i].tenant = t

\* A configuration whose key is the one stored is of the tenant the device is
\* bound to.
Sent(c, i) == c.key # None /\ c.key = key[HwOf[i]] => c.tenant = dev[HwOf[i]].tenant

\* The inductive invariant: it holds of what is installed, and already of what is
\* still on its way.
ConfigsBound == \A i \in Terminals : Sent(reply[i], i) /\ Sent(installed[i], i)

\* An activation leaves no older configuration of its device with a key that
\* verifies, so it may bind the device to any tenant, and what it is answered with
\* names that tenant.
LEMMA ActivateSends ==
    ASSUME ActInv, ConfigsBound, NEW i \in Terminals, Activate(i)
    PROVE  /\ \A j \in Terminals : Sent(reply[j], j)' \/ reply'[j] # reply[j]
           /\ \A j \in Terminals : Sent(installed[j], j)' \/ installed'[j] # installed[j]
           /\ Config(i).tenant = dev'[HwOf[i]].tenant
<1> DEFINE k == TokenOf[i]  m == HwOf[i]
<1>1. k \in Tokens /\ m \in HW /\ \A j \in Terminals : HwOf[j] \in HW
  BY TerminalAssumption
<1>2. /\ FreshKey(i) \in Keys[i]
      /\ FreshKey(i) \notin {reply[i].key, installed[i].key}
  BY FreshKeyMinted DEF ActInv
<1>3. key' = [key EXCEPT ![m] = FreshKey(i)] /\ key \in [HW -> AllKeys \cup {None, Ext}]
  BY DEF Activate, ActInv, ActTypeOK
<1>4. dev'[m].tenant = tok[k].owner /\ \A g \in HW \ {m} : dev'[g] = dev[g]
  <2>1. dev \in [HW -> DevRow]
    BY DEF ActInv, IInv, TypeOK
  <2>2. DoActivate(tok[k].owner, k, m)
    BY ActivateOwner DEF ActInv
  <2> QED
    BY <1>1, <2>1, <2>2 DEF DoActivate, Book, Rotate, DevRow
<1>5. ASSUME NEW j \in Terminals, NEW c, c.key \in Keys[j] \cup {None}, Sent(c, j),
             j = i => c.key # FreshKey(i)
      PROVE  c.key # None /\ c.key = key'[HwOf[j]] => c.tenant = dev'[HwOf[j]].tenant
  <2>1. CASE HwOf[j] # m
    BY <1>1, <1>3, <1>4, <1>5, <2>1 DEF Sent
  <2>2. CASE HwOf[j] = m
    BY <1>1, <1>2, <1>3, <1>5, <2>2, TerminalAssumption
  <2> QED
    BY <2>1, <2>2
<1>6. \A j \in Terminals : {reply[j].key, installed[j].key} \subseteq Keys[j] \cup {None}
  BY DEF ActInv, ActTypeOK, NoConfig
<1>7. \A j \in Terminals : Sent(reply[j], j)' \/ reply'[j] # reply[j]
  BY <1>2, <1>5, <1>6 DEF ConfigsBound, Sent
<1>8. \A j \in Terminals : Sent(installed[j], j)' \/ installed'[j] # installed[j]
  BY <1>2, <1>5, <1>6 DEF ConfigsBound, Sent
<1> QED
  BY <1>4, <1>7, <1>8 DEF Config

\* Nobody else binds a device with a terminal's key to another tenant: a booking
\* without a key takes the stored one away, a deletion takes the row.
LEMMA OthersSend ==
    ASSUME ActInv, ConfigsBound, OthersAct, UNCHANGED netVars
    PROVE  ConfigsBound'
<1> DEFINE Keeps(h) == key'[h] = key[h] /\ dev'[h].tenant = dev[h].tenant
           Drops(h) == key'[h] \in {None, Ext}
<1>1. SUFFICES \A h \in HW : Keeps(h) \/ Drops(h)
  <2>1. \A j \in Terminals : HwOf[j] \in HW /\ {None, Ext} \cap Keys[j] = {}
    BY TerminalAssumption
  <2>2. \A j \in Terminals : {reply[j].key, installed[j].key} \subseteq Keys[j] \cup {None}
    BY DEF ActInv, ActTypeOK, NoConfig
  <2> QED
    BY <1>1, <2>1, <2>2 DEF ConfigsBound, Sent, netVars
<1> USE DEF ActInv
<1>2. ASSUME NEW t \in Tenants, Delete(t) PROVE \A h \in HW : Keeps(h) \/ Drops(h)
  BY <1>2 DEF Delete, DeleteTenant
<1>3. ASSUME NEW t \in Tenants, NEW h \in HW, Beat(t, h) PROVE \A g \in HW : Keeps(g)
  BY <1>3 DEF Beat, Heartbeat, IInv, TypeOK, DevRow
<1>4. ASSUME NEW t \in Tenants, NEW h \in HW, NEW k \in Tokens, ConsumeSeat(t, k, h)
      PROVE  \A g \in HW : Keeps(g) \/ Drops(g)
  <2>1. key' = [key EXCEPT ![h] = Ext] /\ \A g \in HW \ {h} : dev'[g] = dev[g]
    BY <1>4 DEF ConsumeSeat, CpConsumeSeat, Book, IInv, TypeOK
  <2> QED
    BY <2>1 DEF ActTypeOK
<1>5. ASSUME UNCHANGED <<key, dev>> PROVE \A h \in HW : Keeps(h)
  BY <1>5
<1>6. ASSUME NEW k \in Tokens, TokenOps(k) PROVE UNCHANGED dev
  BY <1>6 DEF TokenOps, GenerateBatchToken, RevokeBatchToken
<1>7. ASSUME NEW h \in HW, UNCHANGED key, ReleaseSeat(h) \/ ReinstateDevice(h)
      PROVE  \A g \in HW : Keeps(g)
  BY <1>7 DEF ReleaseSeat, ReinstateDevice, IInv, TypeOK, DevRow
<1> QED
  BY <1>2, <1>3, <1>4, <1>5, <1>6, <1>7 DEF OthersAct, CpReleaseSeat, AdminRevokeDevice,
     Tick, CreateTenant, RecordPayment, SuspendTenant, ReactivateTenant

\* Losing, delaying and installing answers changes what is presented, not what it
\* names.
LEMMA SentNext == ActInv /\ ConfigsBound /\ [ActNext]_actVars => ConfigsBound'
<1> SUFFICES ASSUME ActInv, ConfigsBound, [ActNext]_actVars PROVE ConfigsBound'
  OBVIOUS
<1>1. ASSUME NEW i \in Terminals, Ask(i) \/ GiveUp(i) PROVE ConfigsBound'
  <2>1. UNCHANGED <<key, dev, installed>>
    BY <1>1 DEF Ask, GiveUp, vars
  <2>2. \A j \in Terminals : reply'[j] \in {reply[j], NoConfig}
    BY <1>1 DEF Ask, GiveUp, ActInv, ActTypeOK
  <2> QED
    BY <2>1, <2>2 DEF ConfigsBound, Sent, NoConfig
<1>2. ASSUME NEW i \in Terminals, Receive(i) PROVE ConfigsBound'
  <2>1. UNCHANGED <<key, dev>>
    BY <1>2 DEF Receive, vars
  <2>2. \A j \in Terminals : /\ reply'[j] \in {reply[j], NoConfig}
                            /\ installed'[j] \in {reply[j], installed[j]}
    BY <1>2 DEF Receive, ActInv, ActTypeOK
  <2> QED
    BY <2>1, <2>2 DEF ConfigsBound, Sent, NoConfig
<1>3. ASSUME NEW i \in Terminals, Execute(i) PROVE ConfigsBound'
  <2>1. CASE Activate(i) /\ reply' = [reply EXCEPT ![i] = Config(i)]
    <3>1. UNCHANGED installed /\ reply'[i] = Config(i)
          /\ \A j \in Terminals \ {i} : reply'[j] = reply[j]
      BY <1>3, <2>1 DEF Execute, ActInv, ActTypeOK
    <3>2. Sent(reply[i], i)'
      BY <2>1, <3>1, ActivateSends DEF Sent
    <3> QED
      BY <2>1, <3>1, <3>2, ActivateSends DEF ConfigsBound
  <2>2. CASE UNCHANGED <<vars, key, reply>>
    BY <1>3, <2>2 DEF Execute, ConfigsBound, Sent, vars
  <2> QED
    BY <1>3, <2>1, <2>2 DEF Execute
<1>4. ASSUME NEW i \in Terminals, ExecuteGhost(i) PROVE ConfigsBound'
  <2>1. CASE Activate(i)
    BY <1>4, <2>1, ActivateSends DEF ExecuteGhost, ConfigsBound
  <2>2. CASE UNCHANGED <<vars, key>>
    BY <1>4, <2>2 DEF ExecuteGhost, ConfigsBound, Sent, vars
  <2> QED
    BY <1>4, <2>1, <2>2 DEF ExecuteGhost
<1>5. CASE OthersAct /\ UNCHANGED netVars
  BY <1>5, OthersSend
<1>6. CASE UNCHANGED actVars
  BY <1>6 DEF ConfigsBound, Sent, actVars, vars, netVars
<1> QED
  BY <1>1, <1>2, <1>3, <1>4, <1>5, <1>6 DEF ActNext

\* However devices are revoked, booked by other tenants, deleted and activated
\* again, and however late answers arrive, no terminal is let in by a tenant other
\* than the one its configuration sends it to.
THEOREM ConfigsNameTheBinding == ActSpec => []ConfigNamesBinding
<1>1. ActInit => ConfigsBound
  BY DEF ActInit, ConfigsBound, Sent, NoConfig
<1>2. ActTypeOK /\ ConfigsBound => ConfigNamesBinding
  BY DEF ConfigsBound, Sent, ConfigNamesBinding, Verifies, VerifyDevice
<1>3. ActSpec => []IInv
  BY ActivationRunsLicensing, Inductive, PTL
<1> QED
  BY <1>1, <1>2, <1>3, ActTypeCorrect, SentNext, PTL DEF ActSpec, ActInv
=============================================================================
