------------------------- MODULE ControllerBindings -------------------------
(***************************************************************************)
(* Controllers of EmulatorHost (src/native/host/emulator_host.cpp): which  *)
(* device is registered on which physical port, how ports are numbered for *)
(* players, and the handle table through which the engine reads buttons.   *)
(*                                                                         *)
(* A bridge thread only stores registrations and remaps and raises a flag; *)
(* the emulation thread takes the flags in tick() and clears them at a     *)
(* boot.  Each lock-protected access and each atomic is one step.  On iOS  *)
(* both sides hold emuLock (locked); on Android the bridge calls straight  *)
(* into the host.  A system may be staged over a running game.  The engine *)
(* is ares, the built-in one.                                              *)
(***************************************************************************)
EXTENDS Naturals, FiniteSets

CONSTANTS
  Systems,    \* catalog systems
  Catalog,    \* each system's catalog record, see CatalogAssumption
  NoDevice,   \* an empty device name, or a system with no default device
  NoSystem,   \* nothing staged, nothing active
  Pad,        \* the name "Gamepad" a multitap's sub-ports carry
  MaxPorts,   \* kMaxPorts
  MaxCalls    \* bound on device and remap calls

Physical == 1 .. 2

Devices ==
  {NoDevice} \cup
  UNION {{Catalog[s].device} \cup DOMAIN Catalog[s].extra : s \in Systems}

\* A device's buttons, by name, with their bits.
IsButtons(bs) == DOMAIN bs \subseteq STRING /\ \A n \in DOMAIN bs : bs[n] \in Nat

\* ports, the default device and its buttons, the other devices and theirs,
\* the multitap's name and how many logical ports it fans out to.  A system
\* with a multitap has the Gamepad for a controller, as the code's only such
\* system does.
ASSUME CatalogAssumption ==
  \A s \in Systems :
    /\ DOMAIN Catalog[s] =
         {"ports", "device", "buttons", "extra", "multitap", "block"}
    /\ Catalog[s].ports \in {0, 2}
    /\ Catalog[s].block \in Nat \ {0}
    /\ Catalog[s].device # Catalog[s].multitap
    /\ Catalog[s].multitap \in Devices \ {NoDevice} => Catalog[s].device = Pad
    /\ IsButtons(Catalog[s].buttons)
    /\ \A d \in DOMAIN Catalog[s].extra : IsButtons(Catalog[s].extra[d])
ASSUME PortAssumption ==
  /\ MaxPorts \in Nat \ {0} /\ MaxCalls \in Nat
  /\ NoSystem \notin Systems /\ Pad # NoDevice

VARIABLES
  staged,        \* stagedSystem_
  active,        \* activeSystem_
  loaded,        \* systemLoaded_ and romLoaded_
  connected,     \* connectedDevice_
  inputRemap,    \* inputRemap_: set of [port, name, bit]
  deviceDirty, inputRemapDirty,
  table,         \* buttonTable_ with the engine's cache of its handles
  plugged,       \* the peripherals allocated in the running engine
  bindings,      \* the local resolveBindings() result being applied
  work,          \* where the emulation thread stands
  call,          \* the flag the bridge call has yet to raise
  calls,         \* bound
  locked,        \* which build this is; never changes
  boundFor,      \* history: the system the bindings were last resolved for
  behind         \* history: the kinds of change stored since the emulation
                 \* thread last read what they change

registry == <<connected, inputRemap>>
flags    == <<deviceDirty, inputRemapDirty>>
engine   == <<table, plugged, bindings>>
bridge   == <<call, calls, locked>>
history  == <<boundFor, behind>>
vars == <<staged, active, loaded, registry, flags, engine, work, bridge, history>>

Idle == [in |-> "none", at |-> "idle"]

----------------------------------------------------------------------------
(* The catalog *)

EffectiveDevice(s, p, registered) ==
  IF registered = NoDevice /\ p = 1 THEN Catalog[s].device ELSE registered

IsMultitap(s, d) == d # NoDevice /\ d = Catalog[s].multitap

PortBlock(s, d) == IF IsMultitap(s, d) THEN Catalog[s].block ELSE 1

Resolves(s, d) ==
  d # NoDevice /\ (d = Catalog[s].device \/ d \in DOMAIN Catalog[s].extra)

\* The buttons of a device that resolves, by name, with their bits.
ButtonsOf(s, d) ==
  IF d = Catalog[s].device THEN Catalog[s].buttons ELSE Catalog[s].extra[d]

----------------------------------------------------------------------------
(* Logical ports.  A multitap expands to consecutive logical numbers, and   *)
(* numbers beyond kMaxPorts do not exist.  Four loops number them, each in  *)
(* its own way; systems have two physical ports.                            *)

Effective(s) == [p \in Physical |-> EffectiveDevice(s, p, connected[p])]

\* The device a player on device d holds.
NameAt(s, d) == IF IsMultitap(s, d) THEN Pad ELSE d

\* Bug: players are numbered by physical port.
FirstPhysical(s, p) == p

\* resolveBindings: a multitap takes its block of numbers, any other device,
\* or none, takes one.
FirstLogical(s, p) ==
  IF p = 1 THEN 1
  ELSE IF IsMultitap(s, Effective(s)[1]) THEN 1 + Catalog[s].block ELSE 2

Logicals(s, p) ==
  LET first == FirstLogical(s, p) IN
  {l \in 1 .. MaxPorts :
     IF IsMultitap(s, Effective(s)[p]) THEN l \in first .. first + Catalog[s].block - 1
                                      ELSE l = first}

\* The binding of physical port p: its device and the logical ports it feeds.
BoundAt(s, p) ==
  LET d == Effective(s)[p] IN
  [port    |-> p,
   device  |-> d,
   tap     |-> IsMultitap(s, d),
   first   |-> FirstLogical(s, p),
   logical |-> IF d = NoDevice THEN {}
               ELSE {<<l, NameAt(s, d)>> : l \in Logicals(s, p)}]

\* Built-in controls are physical port 0.
BuiltIn == [port |-> 0, device |-> NoDevice, tap |-> FALSE, first |-> 1,
            logical |-> {<<1, NoDevice>>}]

\* resolveBindings stops where the numbers do.
ResolveBindings(s) ==
  IF Catalog[s].ports = 0 THEN {BuiltIn}
  ELSE {BoundAt(s, p) : p \in {q \in Physical : FirstLogical(s, q) <= MaxPorts}}

\* connectedDescriptor walks the blocks of the effective devices and stops at
\* the port it was asked for.
DeviceAt(s, port) ==
  LET ends == PortBlock(s, Effective(s)[1]) IN
  IF port \in 1 .. MaxPorts /\ port <= ends
    THEN NameAt(s, Effective(s)[1])
  ELSE IF port \in 1 .. MaxPorts /\ port <= ends + PortBlock(s, Effective(s)[2])
    THEN NameAt(s, Effective(s)[2])
  ELSE NoDevice

HasDescriptor(s, port) ==
  s # NoSystem /\ (Catalog[s].ports = 0 \/ Resolves(s, DeviceAt(s, port)))

Descriptor(s, port) ==
  IF Catalog[s].ports = 0 THEN Catalog[s].buttons ELSE ButtonsOf(s, DeviceAt(s, port))

\* Bug: devicePorts counts a multitap as one port.
DevicePortsFlat(s, p) == {l \in 1 .. MaxPorts : l = p}

\* devicePorts walks the registrations as stored.
DevicePorts(s, p) ==
  LET before == IF p = 1 THEN 0 ELSE PortBlock(s, connected[1]) IN
  {l \in 1 .. MaxPorts : before < l /\ l <= before + PortBlock(s, connected[p])}

\* portsJson lists every number with its device and buttons, null for a port
\* whose device has no descriptor.
ListedFrom(s, p) ==
  IF p = 1 THEN 1
  ELSE 1 + (IF IsMultitap(s, EffectiveDevice(s, 1, connected[1]))
              THEN Catalog[s].block ELSE 1)

ListedAt(s, p) ==
  LET d    == EffectiveDevice(s, p, connected[p])
      next == ListedFrom(s, p) IN
  IF IsMultitap(s, d)
    THEN {[port |-> l, device |-> Pad, buttons |-> Catalog[s].buttons] :
            l \in {m \in 1 .. MaxPorts : m \in next .. next + Catalog[s].block - 1}}
  ELSE {[port |-> l, device |-> IF Resolves(s, d) THEN d ELSE NoDevice,
         buttons |-> IF Resolves(s, d) THEN ButtonsOf(s, d) ELSE <<>>] :
          l \in {m \in 1 .. MaxPorts : m = next}}

PortsJson(s) ==
  IF Catalog[s].ports = 0
    THEN {[port |-> 1, device |-> NoDevice, buttons |-> Catalog[s].buttons]}
    ELSE UNION {ListedAt(s, p) : p \in Physical}

----------------------------------------------------------------------------
(* The engine.  A node <<physical, sub-port, name>> is a button object of   *)
(* the emulated machine.                                                    *)

\* Peripherals after bindPorts: a port the bindings name is allocated or
\* disconnected, an unresolvable device is never allocated.
Plug(s, bs) ==
  [p \in Physical |->
     IF Catalog[s].ports = 0 THEN NoDevice
     ELSE LET named == {b \in bs : b.port = p} IN
          IF \E b \in named : b.device = NoDevice THEN NoDevice
          ELSE IF \E b \in named : b.tap \/ Resolves(s, b.device)
                 THEN (CHOOSE b \in named : TRUE).device
                 ELSE plugged[p]]

NodesAt(s, p, d) ==
  IF IsMultitap(s, d)
    THEN {<<p, i, n>> : i \in 1 .. Catalog[s].block, n \in DOMAIN Catalog[s].buttons}
  ELSE IF Resolves(s, d) THEN {<<p, 0, n>> : n \in DOMAIN ButtonsOf(s, d)}
  ELSE {}

\* Every button of the machine: what caching the system node reaches.
AllNodes(s, peripherals) ==
  IF Catalog[s].ports = 0
    THEN {<<0, 0, n>> : n \in DOMAIN Catalog[s].buttons}
    ELSE UNION {NodesAt(s, p, peripherals[p]) : p \in Physical}

\* The nodes bindPorts caches for a binding, each with the logical port it is
\* read from.
CachedBy(s, b, peripherals) ==
  IF b.port = 0 THEN AllNodes(s, peripherals) \X {1}
  ELSE IF Catalog[s].ports = 0 THEN {}
  ELSE IF b.tap
    THEN {<<node, b.first + node[2] - 1>> :
            node \in {m \in NodesAt(s, b.port, peripherals[b.port]) :
                        <<b.first + m[2] - 1, Pad>> \in b.logical /\ m[2] > 0}}
  ELSE IF Resolves(s, b.device)
    THEN NodesAt(s, b.port, peripherals[b.port]) \X {b.first}
  ELSE {}

Cached(s, bs, peripherals) == UNION {CachedBy(s, b, peripherals) : b \in bs}

\* buttonHandle gives a handle to a button the staged system's descriptor of
\* that port has, and none to any other.
HasHandle(port, name) ==
  HasDescriptor(staged, port) /\ name \in DOMAIN Descriptor(staged, port)

Handles(s, bs, peripherals) ==
  {[node |-> c[1], port |-> c[2], name |-> c[1][3],
    home |-> Descriptor(staged, c[2])[c[1][3]],
    bit  |-> Descriptor(staged, c[2])[c[1][3]]] :
   c \in {d \in Cached(s, bs, peripherals) : HasHandle(d[2], d[1][3])}}

\* Bug: a remap that was reset leaves the bits it had set.
RemappedOver(entries) ==
  {LET own == {r \in inputRemap : r.port = e.port /\ r.name = e.name} IN
   [e EXCEPT !.bit = IF own = {} THEN @ ELSE (CHOOSE r \in own : TRUE).bit] :
   e \in entries}

\* applyInputRemap: every entry gets its own bit, then the remap's if it has
\* one.
Remapped(entries) ==
  {LET own == {r \in inputRemap : r.port = e.port /\ r.name = e.name} IN
   [e EXCEPT !.bit = IF own = {} THEN e.home ELSE (CHOOSE r \in own : TRUE).bit] :
   e \in entries}

----------------------------------------------------------------------------

TypeOK ==
  /\ staged \in Systems \cup {NoSystem} /\ active \in Systems \cup {NoSystem}
  /\ loaded \in BOOLEAN
  /\ connected \in [Physical -> Devices]
  /\ inputRemap \subseteq [port: 1 .. MaxPorts, name: STRING, bit: Nat]
  /\ deviceDirty \in BOOLEAN /\ inputRemapDirty \in BOOLEAN
  /\ \A e \in table : e.port \in 1 .. MaxPorts /\ e.bit \in Nat /\ e.home \in Nat
  /\ plugged \in [Physical -> Devices]
  /\ work \in [in: {"none", "boot", "device", "remap"},
               at: {"idle", "flags", "resolve", "bind", "apply", "dropRemap",
                    "dropDevice"}]
  /\ call \in {"idle", "device", "remap"}
  /\ calls \in 0 .. MaxCalls /\ locked \in BOOLEAN
  /\ boundFor \in Systems \cup {NoSystem} /\ behind \subseteq {"device", "remap"}

Nothing == [p \in Physical |-> NoDevice]

Init ==
  /\ staged = NoSystem /\ active = NoSystem /\ loaded = FALSE
  /\ connected = Nothing /\ inputRemap = {}
  /\ deviceDirty = FALSE /\ inputRemapDirty = FALSE
  /\ table = {} /\ plugged = Nothing /\ bindings = {}
  /\ work = Idle
  /\ call = "idle" /\ calls = 0
  /\ locked \in BOOLEAN
  /\ boundFor = NoSystem /\ behind = {}

MayCall == call = "idle" /\ calls < MaxCalls /\ (locked => work = Idle)
MayWork == work = Idle /\ (locked => call = "idle")

----------------------------------------------------------------------------
(* The bridge *)

\* Register a device on a physical port, or disconnect it.
ConnectDevice(p, d) ==
  /\ MayCall
  /\ staged # NoSystem /\ Catalog[staged].ports # 0
  /\ d = NoDevice \/ Resolves(staged, d)
  /\ connected' = [connected EXCEPT ![p] = d]
  /\ call' = "device" /\ calls' = calls + 1
  /\ behind' = behind \cup {"device"}
  /\ UNCHANGED <<staged, active, loaded, inputRemap, flags, engine, work, locked,
                 boundFor>>

\* Merge one remap into a logical port's map.
SetInputMapping(port, name, source) ==
  /\ MayCall
  /\ HasDescriptor(staged, port)
  /\ {name, source} \subseteq DOMAIN Descriptor(staged, port)
  /\ inputRemap' =
       {r \in inputRemap : <<r.port, r.name>> # <<port, name>>}
         \cup {[port |-> port, name |-> name, bit |-> Descriptor(staged, port)[source]]}
  /\ call' = "remap" /\ calls' = calls + 1
  /\ behind' = behind \cup {"remap"}
  /\ UNCHANGED <<staged, active, loaded, connected, flags, engine, work, locked,
                 boundFor>>

\* An empty mapping resets the port.
ResetInputMapping(port) ==
  /\ MayCall
  /\ HasDescriptor(staged, port)
  /\ inputRemap' = {r \in inputRemap : r.port # port}
  /\ call' = "remap" /\ calls' = calls + 1
  /\ behind' = behind \cup {"remap"}
  /\ UNCHANGED <<staged, active, loaded, connected, flags, engine, work, locked,
                 boundFor>>

\* The flag goes up after the registry was written.
RaiseFlag ==
  /\ call # "idle"
  /\ deviceDirty' = (deviceDirty \/ call = "device")
  /\ inputRemapDirty' = (inputRemapDirty \/ call = "remap")
  /\ call' = "idle"
  /\ UNCHANGED <<staged, active, loaded, registry, engine, work, calls, locked,
                 history>>

----------------------------------------------------------------------------
(* The emulation thread *)

\* Staging leaves a running game to its own system.
StageSystem(s) ==
  /\ MayWork
  /\ staged' = s
  /\ UNCHANGED <<active, loaded, registry, flags, engine, work, bridge, history>>

\* loadRom unloads the running game and resolves the bindings for the boot.
LoadRom ==
  /\ MayWork
  /\ staged # NoSystem
  /\ active' = staged
  /\ loaded' = FALSE
  /\ table' = {} /\ plugged' = Nothing
  /\ bindings' = ResolveBindings(staged)
  /\ boundFor' = staged /\ behind' = behind \ {"device"}
  /\ work' = [in |-> "boot", at |-> "bind"]
  /\ UNCHANGED <<staged, registry, flags, bridge>>

\* A boot the engine refuses unloads again.
BootFails ==
  /\ work = [in |-> "boot", at |-> "bind"]
  /\ table' = {} /\ plugged' = Nothing /\ bindings' = {}
  /\ work' = Idle
  /\ UNCHANGED <<staged, active, loaded, registry, flags, bridge, history>>

\* tick takes the device flag; without it, the remap flag.
TakeDeviceFlag ==
  /\ MayWork
  /\ loaded
  /\ deviceDirty' = FALSE
  /\ IF deviceDirty
       THEN table' = {} /\ work' = [in |-> "device", at |-> "resolve"]
       ELSE UNCHANGED table /\ work' = [in |-> "remap", at |-> "flags"]
  /\ UNCHANGED <<staged, active, loaded, registry, inputRemapDirty, plugged,
                 bindings, bridge, history>>

\* Bug: the flag of a remap is taken and the remap left to the next rebind.
SkipRemapFlag ==
  /\ work = [in |-> "remap", at |-> "flags"]
  /\ inputRemapDirty' = FALSE
  /\ work' = Idle
  /\ UNCHANGED <<staged, active, loaded, registry, deviceDirty, engine, bridge,
                 history>>

TakeRemapFlag ==
  /\ work = [in |-> "remap", at |-> "flags"]
  /\ inputRemapDirty' = FALSE
  /\ work' = IF inputRemapDirty THEN [in |-> "remap", at |-> "apply"] ELSE Idle
  /\ UNCHANGED <<staged, active, loaded, registry, deviceDirty, engine, bridge,
                 history>>

\* rebindPorts resolves against the staged system.
Resolve ==
  /\ work.at = "resolve"
  /\ bindings' = ResolveBindings(staged)
  /\ boundFor' = staged /\ behind' = behind \ {"device"}
  /\ work' = [work EXCEPT !.at = "bind"]
  /\ UNCHANGED <<staged, active, loaded, registry, flags, table, plugged, bridge>>

BindPorts ==
  /\ work.at = "bind"
  /\ plugged' = Plug(active, bindings)
  /\ table' = Handles(active, bindings, plugged')
  /\ work' = [work EXCEPT !.at = "apply"]
  /\ bindings' = {}
  /\ UNCHANGED <<staged, active, loaded, registry, flags, bridge, history>>

ApplyInputRemap ==
  /\ work.at = "apply"
  /\ table' = Remapped(table)
  /\ behind' = behind \ {"remap"}
  /\ work' = IF work.in = "remap" THEN Idle ELSE [work EXCEPT !.at = "dropRemap"]
  /\ UNCHANGED <<staged, active, loaded, registry, flags, plugged, bindings, bridge,
                 boundFor>>

\* After a rebind the remap flag goes down; after a boot, both flags.
DropRemapFlag ==
  /\ work.at = "dropRemap"
  /\ inputRemapDirty' = FALSE
  /\ work' = IF work.in = "boot" THEN [work EXCEPT !.at = "dropDevice"] ELSE Idle
  /\ UNCHANGED <<staged, active, loaded, registry, deviceDirty, engine, bridge,
                 history>>

DropDeviceFlag ==
  /\ work.at = "dropDevice"
  /\ deviceDirty' = FALSE
  /\ loaded' = TRUE
  /\ work' = Idle
  /\ UNCHANGED <<staged, active, registry, inputRemapDirty, engine, bridge, history>>

\* reset() and destroy() forget registrations and remaps as well.
Reset ==
  /\ MayWork
  /\ call = "idle"
  /\ staged' = NoSystem /\ active' = NoSystem /\ loaded' = FALSE
  /\ connected' = Nothing /\ inputRemap' = {}
  /\ deviceDirty' = FALSE /\ inputRemapDirty' = FALSE
  /\ table' = {} /\ plugged' = Nothing /\ bindings' = {}
  /\ boundFor' = NoSystem /\ behind' = {}
  /\ UNCHANGED <<work, bridge>>

----------------------------------------------------------------------------

ButtonNames ==
  UNION {DOMAIN Catalog[s].buttons \cup
         UNION {DOMAIN Catalog[s].extra[d] : d \in DOMAIN Catalog[s].extra} :
         s \in Systems}

Bridge ==
  \/ \E p \in Physical, d \in Devices : ConnectDevice(p, d)
  \/ \E port \in 1 .. MaxPorts, name \in ButtonNames, source \in ButtonNames :
       SetInputMapping(port, name, source)
  \/ \E port \in 1 .. MaxPorts : ResetInputMapping(port)
  \/ RaiseFlag

\* The thread's own loop: it ticks, and finishes what it began.
Loop ==
  \/ TakeDeviceFlag
  \/ TakeRemapFlag
  \/ Resolve
  \/ BindPorts
  \/ ApplyInputRemap
  \/ DropRemapFlag
  \/ DropDeviceFlag

Next ==
  \/ Bridge
  \/ Loop
  \/ \E s \in Systems : StageSystem(s)
  \/ LoadRom
  \/ BootFails
  \/ Reset

Spec == Init /\ [][Next]_vars

\* The emulation thread keeps ticking; it gets the lock now and then.
FairSpec == Spec /\ SF_vars(Loop) /\ WF_vars(RaiseFlag)

----------------------------------------------------------------------------
(* Properties *)

\* No thread is in the middle of anything and no change is waiting.
Settled ==
  loaded /\ work = Idle /\ call = "idle" /\ ~deviceDirty /\ ~inputRemapDirty

\* The buttons logical port l of physical port p should read.
WiredAt(s, p, l) ==
  LET sub == IF IsMultitap(s, Effective(s)[p]) THEN l - FirstLogical(s, p) + 1 ELSE 0 IN
  IF HasDescriptor(s, l) THEN {<<<<p, sub, n>>, l>> : n \in DOMAIN Descriptor(s, l)}
                         ELSE {}

\* The buttons system s should read, each from its player's logical port.
Wired(s) ==
  IF Catalog[s].ports = 0
    THEN {<<<<0, 0, n>>, 1>> : n \in DOMAIN Catalog[s].buttons}
    ELSE UNION {UNION {WiredAt(s, p, l) : l \in Logicals(s, p)} : p \in Physical}

ReadAs(s, l, n) ==
  LET own == {r \in inputRemap : r.port = l /\ r.name = n} IN
  IF own = {} THEN Descriptor(s, l)[n] ELSE (CHOOSE r \in own : TRUE).bit

\* The running game reads exactly the devices that are registered, numbered
\* and remapped as the registrations say.
AsRegistered ==
  {<<e.node, e.port, e.bit>> : e \in table} =
    {<<w[1], w[2], ReadAs(active, w[2], w[1][3])>> : w \in Wired(active)}

\* A change nobody will look at again: it was stored after the emulation
\* thread had read the registry, and its flag was cleared with the older one.
Missed == Settled /\ behind # {}

\* With nothing pending the running game reads what is registered, however
\* calls, boots, ticks and the staging of other systems interleave.  The two
\* exceptions are the code's own: controllers last bound while another system
\* was staged, and, where no lock keeps a call out of a boot or a rebind, a
\* change that was missed.  Under the lock none is.
TableCurrent ==
  Settled => AsRegistered \/ boundFor # active \/ (~locked /\ Missed)

\* No two controllers of the emulated machine follow the same player, through
\* registrations that change while a boot or a rebind is under way.  A system
\* with built-in controls, staged over a console's game, gives all of its
\* controllers to player one at the next rebind: the bindings are then not the
\* game's own.
PadsIndependent ==
  boundFor = active =>
    \A e, f \in table :
      e.port = f.port => e.node[1] = f.node[1] /\ e.node[2] = f.node[2]

\* The four loops that number logical ports agree on what is registered: the
\* bindings, the descriptor a player's calls are checked against, the players
\* a device is said to occupy and the list of ports.  And the players whose
\* list entry has buttons are the ones the settled game reads.
DescriptorsAgree ==
  staged # NoSystem /\ Catalog[staged].ports # 0 =>
    /\ \A b \in ResolveBindings(staged) :
         /\ \A x \in b.logical : DeviceAt(staged, x[1]) = x[2]
         /\ b.device # NoDevice =>
              DevicePorts(staged, b.port) = {x[1] : x \in b.logical}
    /\ \A j \in PortsJson(staged) :
         /\ HasDescriptor(staged, j.port) <=> j.device # NoDevice
         /\ j.device # NoDevice =>
              /\ j.device = DeviceAt(staged, j.port)
              /\ j.buttons = Descriptor(staged, j.port)
    /\ Settled /\ staged = active /\ boundFor = active /\ ~Missed =>
         {e.port : e \in table} =
           {j.port : j \in {k \in PortsJson(staged) : DOMAIN k.buttons # {}}}

\* A registration or remap made while a game runs takes effect: the game comes
\* to read what is registered.  Otherwise it ended, or it is one of the two
\* exceptions above.
ChangesLand ==
  loaded /\ call # "idle" ~>
    ~loaded \/ AsRegistered \/ boundFor # active \/ (~locked /\ Missed)
=============================================================================
