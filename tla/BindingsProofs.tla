--------------------------- MODULE BindingsProofs ---------------------------
(***************************************************************************)
(* Proofs about ControllerBindings, for any catalog and both builds: the   *)
(* four loops that number logical ports agree, no two controllers follow   *)
(* one player, and a settled game reads what is registered, but for the    *)
(* two exceptions TableCurrent names.                                      *)
(***************************************************************************)
EXTENDS ControllerBindings, TLAPS

\* What resolved bindings look like, whenever and for whatever system.
Feeds(b) == {b.first} \cup {x[1] : x \in b.logical}

Sound(bs) ==
  \A b \in bs : b.device \in Devices /\ Feeds(b) \subseteq 1 .. MaxPorts

\* The bindings of system s: one for each of its ports, no port fed twice.
WellBound(s, bs) ==
  /\ \A b \in bs :
       /\ b.port = 0 => Catalog[s].ports = 0 /\ ~b.tap
       /\ b.port # 0 => Catalog[s].ports # 0 /\ b.port \in Physical
       /\ b.tap <=> IsMultitap(s, b.device)
  /\ \A b, c \in bs : b.port = c.port \/ Feeds(b) \cap Feeds(c) # {} => b = c

IsEntry(e) ==
  e = [node |-> e.node, port |-> e.port, name |-> e.name, home |-> e.home,
       bit |-> e.bit]

\* What types stay correct by.
TypedInv ==
  /\ TypeOK
  /\ \A e \in table : IsEntry(e)
  /\ Sound(bindings)
  /\ loaded \/ work # Idle => staged \in Systems /\ active \in Systems

\* Bindings about to be applied are those of the staged system, resolved for
\* it; of the running game's own system when it is the staged one.
BoundInv ==
  /\ PadsIndependent
  /\ work.at = "resolve" => table = {}
  /\ work.at = "bind" =>
       /\ boundFor = staged
       /\ boundFor = active => WellBound(active, bindings)

-----------------------------------------------------------------------------
\* The table holds the buttons system s should read.
TableWired ==
  /\ \A e \in table : /\ <<e.node, e.port>> \in Wired(active)
                      /\ e.name = e.node[3]
                      /\ e.home = Descriptor(active, e.port)[e.name]
  /\ \A w \in Wired(active) : \E e \in table : e.node = w[1] /\ e.port = w[2]

\* Every entry has the bit the remaps give it.
BitsCurrent == \A e \in table : e.bit = ReadAs(active, e.port, e.name)

\* Bound for its own system, the running game reads what was registered when
\* the emulation thread last looked, and that is what is registered now unless
\* it is behind.
CurrentInv ==
  /\ work.in = "boot" => ~loaded
  /\ boundFor = active /\ "device" \notin behind =>
       /\ work.at = "bind" => bindings = ResolveBindings(active)
       /\ work.at \notin {"resolve", "bind"} /\ (loaded \/ work # Idle) => TableWired
  /\ boundFor = active /\ behind = {} =>
       (work.at \notin {"resolve", "bind", "apply"} /\ (loaded \/ work # Idle)
          => BitsCurrent)

\* Under the lock, a change the emulation thread is behind with is still to
\* come: its call or its flag says so, or the thread is about to read it.
LockInv ==
  locked =>
    /\ work = Idle \/ call = "idle"
    /\ "device" \in behind =>
         \/ work = Idle /\ (deviceDirty \/ call = "device")
         \/ work.at = "resolve"
    /\ "remap" \in behind =>
         \/ work = Idle /\ (inputRemapDirty \/ call = "remap")
         \/ work.at = "flags" /\ inputRemapDirty
         \/ /\ work.at \in {"resolve", "bind", "apply"}
            /\ work.in = "boot" => inputRemapDirty
-----------------------------------------------------------------------------
(* The catalog.                                                            *)

LEMMA CatalogFacts ==
  ASSUME NEW s \in Systems
  PROVE  /\ Catalog[s].ports \in {0, 2} /\ Catalog[s].block \in Nat \ {0}
         /\ Catalog[s].device # Catalog[s].multitap
         /\ Catalog[s].multitap \in Devices \ {NoDevice} => Catalog[s].device = Pad
         /\ Catalog[s].device \in Devices
         /\ MaxPorts \in Nat \ {0} /\ s # NoSystem
<1>1. Catalog[s].device \in Devices
  BY DEF Devices
<1>2. MaxPorts \in Nat \ {0} /\ s # NoSystem
  BY PortAssumption
<1> QED BY <1>1, <1>2, CatalogAssumption

LEMMA ButtonsType ==
  ASSUME NEW s \in Systems, NEW d, Catalog[s].ports = 0 \/ Resolves(s, d)
  PROVE  /\ IsButtons(Catalog[s].buttons)
         /\ Resolves(s, d) => IsButtons(ButtonsOf(s, d))
BY CatalogAssumption DEF Resolves, ButtonsOf

\* What an unresolved name leaves of a descriptor, and what a descriptor is.
LEMMA DescriptorType ==
  ASSUME NEW s \in Systems \cup {NoSystem}, NEW l, HasDescriptor(s, l)
  PROVE  s \in Systems /\ IsButtons(Descriptor(s, l))
<1>1. s \in Systems
  BY DEF HasDescriptor
<1> QED BY <1>1, ButtonsType DEF HasDescriptor, Descriptor

LEMMA EffectiveType ==
  ASSUME NEW s \in Systems, connected \in [Physical -> Devices]
  PROVE  Effective(s) \in [Physical -> Devices]
BY CatalogFacts DEF Effective, EffectiveDevice

LEMMA Blocks ==
  ASSUME NEW s \in Systems, NEW d
  PROVE  /\ PortBlock(s, d) \in Nat \ {0}
         /\ ~IsMultitap(s, d) => PortBlock(s, d) = 1
BY CatalogFacts DEF PortBlock

-----------------------------------------------------------------------------
(* Logical ports.                                                          *)

LEMMA Firsts ==
  ASSUME NEW s \in Systems
  PROVE  /\ FirstLogical(s, 1) = 1
         /\ FirstLogical(s, 2) = 1 + PortBlock(s, Effective(s)[1])
         /\ \A p \in Physical : FirstLogical(s, p) \in Nat \ {0}
BY CatalogFacts DEF FirstLogical, PortBlock, Physical

LEMMA LogicalsRange ==
  ASSUME NEW s \in Systems, NEW p \in Physical, NEW l
  PROVE  l \in Logicals(s, p) <=>
           /\ l \in 1 .. MaxPorts
           /\ l >= FirstLogical(s, p)
           /\ l <= FirstLogical(s, p) + PortBlock(s, Effective(s)[p]) - 1
<1>1. FirstLogical(s, p) \in Nat /\ Catalog[s].block \in Nat /\ MaxPorts \in Nat
  BY Firsts, CatalogFacts
<1>2. CASE IsMultitap(s, Effective(s)[p])
  BY <1>1, <1>2 DEF Logicals, PortBlock
<1>3. CASE ~IsMultitap(s, Effective(s)[p])
  BY <1>1, <1>3 DEF Logicals, PortBlock
<1> QED BY <1>2, <1>3

\* No logical port belongs to two physical ones.
LEMMA LogicalsApart ==
  ASSUME NEW s \in Systems, NEW p \in Physical, NEW q \in Physical,
         NEW l, l \in Logicals(s, p), l \in Logicals(s, q)
  PROVE  p = q
<1>1. /\ PortBlock(s, Effective(s)[1]) \in Nat /\ PortBlock(s, Effective(s)[2]) \in Nat
      /\ MaxPorts \in Nat
  BY Blocks, CatalogFacts
<1>2. /\ l \in Nat
      /\ l >= FirstLogical(s, p) /\ l >= FirstLogical(s, q)
      /\ l <= FirstLogical(s, p) + PortBlock(s, Effective(s)[p]) - 1
      /\ l <= FirstLogical(s, q) + PortBlock(s, Effective(s)[q]) - 1
  BY LogicalsRange, <1>1
<1> QED BY <1>1, <1>2, Firsts DEF Physical

\* A device that is no multitap has one logical port, or none is left.
LEMMA LogicalsSingle ==
  ASSUME NEW s \in Systems, NEW p \in Physical, ~IsMultitap(s, Effective(s)[p])
  PROVE  Logicals(s, p) =
           IF FirstLogical(s, p) <= MaxPorts THEN {FirstLogical(s, p)} ELSE {}
<1>1. MaxPorts \in Nat /\ FirstLogical(s, p) \in Nat \ {0}
  BY CatalogFacts, Firsts
<1>2. \A l : l \in Logicals(s, p) <=>
               l = FirstLogical(s, p) /\ FirstLogical(s, p) <= MaxPorts
  BY <1>1 DEF Logicals
<1> QED BY <1>2

\* connectedDescriptor finds the device resolveBindings gave the number to.
LEMMA DeviceBehind ==
  ASSUME NEW s \in Systems, NEW p \in Physical, NEW l, l \in Logicals(s, p)
  PROVE  DeviceAt(s, l) = NameAt(s, Effective(s)[p])
<1>1. /\ PortBlock(s, Effective(s)[1]) \in Nat /\ PortBlock(s, Effective(s)[2]) \in Nat
      /\ l \in 1 .. MaxPorts /\ MaxPorts \in Nat
      /\ l >= FirstLogical(s, p)
      /\ l <= FirstLogical(s, p) + PortBlock(s, Effective(s)[p]) - 1
  BY LogicalsRange, Blocks, CatalogFacts
<1>2. CASE p = 1
  BY <1>1, <1>2, Firsts DEF DeviceAt
<1>3. CASE p = 2
  BY <1>1, <1>3, Firsts DEF DeviceAt
<1> QED BY <1>2, <1>3 DEF Physical

LEMMA TapDevice ==
  ASSUME NEW s \in Systems, NEW d \in Devices, IsMultitap(s, d)
  PROVE  Pad = Catalog[s].device /\ Pad # d /\ Resolves(s, Pad)
BY CatalogFacts, PortAssumption DEF IsMultitap, Resolves

-----------------------------------------------------------------------------
(* Resolved bindings.                                                      *)

Reached(s, p) == p \in Physical /\ FirstLogical(s, p) <= MaxPorts

LEMMA ResolvedShape ==
  ASSUME NEW s \in Systems
  PROVE  ResolveBindings(s) =
           IF Catalog[s].ports = 0 THEN {BuiltIn}
           ELSE {BoundAt(s, p) : p \in {q \in Physical : Reached(s, q)}}
BY DEF ResolveBindings, Reached

LEMMA BoundAtFields ==
  ASSUME NEW s \in Systems, NEW p \in Physical, NEW x
  PROVE  /\ BoundAt(s, p).port = p /\ BoundAt(s, p).device = Effective(s)[p]
         /\ BoundAt(s, p).tap <=> IsMultitap(s, Effective(s)[p])
         /\ BoundAt(s, p).first = FirstLogical(s, p)
         /\ x \in BoundAt(s, p).logical <=>
              /\ Effective(s)[p] # NoDevice
              /\ \E l \in Logicals(s, p) :
                   x = <<l, NameAt(s, Effective(s)[p])>>
BY DEF BoundAt

\* A binding that has a player reaches its own logical ports and no others.
LEMMA FeedsOf ==
  ASSUME NEW s \in Systems, NEW p \in Physical, Reached(s, p)
  PROVE  /\ Feeds(BoundAt(s, p)) \subseteq Logicals(s, p)
         /\ FirstLogical(s, p) \in Logicals(s, p)
<1>1. FirstLogical(s, p) \in Logicals(s, p)
  BY LogicalsRange, Blocks, Firsts, CatalogFacts DEF Reached
<1>2. \A x \in BoundAt(s, p).logical : x[1] \in Logicals(s, p)
  BY BoundAtFields
<1> QED BY <1>1, <1>2, BoundAtFields DEF Feeds

\* Whatever is registered, each resolved binding has a port of the engine, and
\* no logical port is fed by two of them.
LEMMA ResolvedWell ==
  ASSUME NEW s \in Systems, connected \in [Physical -> Devices]
  PROVE  Sound(ResolveBindings(s)) /\ WellBound(s, ResolveBindings(s))
<1>1. CASE Catalog[s].ports = 0
  <2>1. Feeds(BuiltIn) = {1} /\ NoDevice \in Devices /\ 1 \in 1 .. MaxPorts
    BY CatalogFacts DEF Feeds, BuiltIn, Devices
  <2>2. BuiltIn.device = NoDevice /\ BuiltIn.port = 0 /\ BuiltIn.tap = FALSE
    BY DEF BuiltIn
  <2> QED BY <1>1, <2>1, <2>2, ResolvedShape DEF Sound, WellBound, IsMultitap
<1>2. CASE Catalog[s].ports # 0
  <2>1. \A b \in ResolveBindings(s) : \E p \in Physical : Reached(s, p) /\ b = BoundAt(s, p)
    BY <1>2, ResolvedShape
  <2>2. \A p \in Physical : Reached(s, p) =>
          Feeds(BoundAt(s, p)) \subseteq Logicals(s, p)
    BY FeedsOf
  <2>3. \A p \in Physical : Logicals(s, p) \subseteq 1 .. MaxPorts
    BY LogicalsRange
  <2>4. Sound(ResolveBindings(s))
    BY <2>1, <2>2, <2>3, BoundAtFields, EffectiveType DEF Sound
  <2>5. ASSUME NEW b \in ResolveBindings(s), NEW c \in ResolveBindings(s),
               b.port = c.port \/ Feeds(b) \cap Feeds(c) # {}
        PROVE  b = c
    <3>1. PICK p \in Physical : Reached(s, p) /\ b = BoundAt(s, p)
      BY <2>1
    <3>2. PICK q \in Physical : Reached(s, q) /\ c = BoundAt(s, q)
      BY <2>1
    <3>3. CASE b.port = c.port
      BY <3>1, <3>2, <3>3, BoundAtFields
    <3>4. CASE Feeds(b) \cap Feeds(c) # {}
      <4>1. PICK l : l \in Feeds(b) /\ l \in Feeds(c)
        BY <3>4
      <4> QED BY <4>1, <3>1, <3>2, <2>2, LogicalsApart
    <3> QED BY <2>5, <3>3, <3>4
  <2>6. \A b \in ResolveBindings(s) :
          /\ b.port # 0 /\ b.port \in Physical
          /\ b.tap <=> IsMultitap(s, b.device)
    BY <2>1, BoundAtFields DEF Physical
  <2> QED BY <1>2, <2>4, <2>5, <2>6 DEF WellBound
<1> QED BY <1>1, <1>2

-----------------------------------------------------------------------------
(* The four loops that number logical ports.                               *)

\* devicePorts: a port spans the same logical ports whether or not a missing
\* registration was replaced by the default device.
LEMMA DevicePortsEffective ==
  ASSUME NEW s \in Systems, NEW p \in Physical
  PROVE  DevicePorts(s, p) = Logicals(s, p)
<1>1. \A q \in Physical : PortBlock(s, connected[q]) = PortBlock(s, Effective(s)[q])
  BY CatalogFacts DEF Effective, EffectiveDevice, PortBlock, IsMultitap
<1>2. 1 \in Physical
  BY DEF Physical
<1>3. /\ PortBlock(s, Effective(s)[1]) \in Nat /\ PortBlock(s, Effective(s)[p]) \in Nat
      /\ MaxPorts \in Nat
  BY Blocks, CatalogFacts
<1>4. ASSUME NEW l PROVE l \in DevicePorts(s, p) <=> l \in Logicals(s, p)
  <2>1. CASE p = 1
    BY <1>1, <1>2, <1>3, <2>1, LogicalsRange, Firsts DEF DevicePorts
  <2>2. CASE p = 2
    BY <1>1, <1>2, <1>3, <2>2, LogicalsRange, Firsts DEF DevicePorts
  <2> QED BY <2>1, <2>2 DEF Physical
<1> QED BY <1>4

\* portsJson lists the logical ports of a physical one, each once with its
\* device, if that has a descriptor.
LEMMA ListedPorts ==
  ASSUME NEW s \in Systems, NEW p \in Physical,
         connected \in [Physical -> Devices], Catalog[s].ports # 0
  PROVE  /\ \A l \in Logicals(s, p) : \E j \in ListedAt(s, p) : j.port = l
         /\ \A j \in ListedAt(s, p) :
              /\ j.port \in Logicals(s, p)
              /\ HasDescriptor(s, j.port) <=> j.device # NoDevice
              /\ j.device # NoDevice =>
                   /\ j.device = DeviceAt(s, j.port)
                   /\ j.buttons = Descriptor(s, j.port)
              /\ DOMAIN j.buttons # {} => j.device # NoDevice
<1> DEFINE d == Effective(s)[p]
<1>1. d = EffectiveDevice(s, p, connected[p]) /\ d \in Devices /\ 1 \in Physical
  BY EffectiveType DEF Effective, Physical
<1>2. ListedFrom(s, p) = FirstLogical(s, p)
  BY <1>1, CatalogFacts DEF ListedFrom, FirstLogical, Effective, Physical
<1>3. s # NoSystem
  BY CatalogFacts
<1> HIDE DEF d
<1>4. CASE IsMultitap(s, d)
  <2>1. ListedAt(s, p) =
          {[port |-> l, device |-> Pad, buttons |-> Catalog[s].buttons] :
             l \in Logicals(s, p)}
    BY <1>1, <1>2, <1>4 DEF ListedAt, Logicals, d
  <2>2. Pad = Catalog[s].device /\ Resolves(s, Pad) /\ Pad # NoDevice
    BY <1>1, <1>4, TapDevice, PortAssumption
  <2>3. \A l \in Logicals(s, p) : DeviceAt(s, l) = Pad
    BY <1>4, DeviceBehind DEF NameAt, d
  <2>4. \A l \in Logicals(s, p) :
          HasDescriptor(s, l) /\ Descriptor(s, l) = Catalog[s].buttons
    BY <1>3, <2>2, <2>3 DEF HasDescriptor, Descriptor, ButtonsOf
  <2>5. ASSUME NEW j \in ListedAt(s, p)
        PROVE  /\ j.port \in Logicals(s, p) /\ j.device = Pad
               /\ j.buttons = Catalog[s].buttons
    BY <2>1
  <2>6. ASSUME NEW l \in Logicals(s, p) PROVE \E j \in ListedAt(s, p) : j.port = l
    <3>1. [port |-> l, device |-> Pad, buttons |-> Catalog[s].buttons] \in ListedAt(s, p)
      BY <2>1
    <3> QED BY <3>1
  <2> QED BY <2>2, <2>3, <2>4, <2>5, <2>6
<1>5. CASE ~IsMultitap(s, d)
  <2> DEFINE dev == IF Resolves(s, d) THEN d ELSE NoDevice
             bts == IF Resolves(s, d) THEN ButtonsOf(s, d) ELSE <<>>
  <2>1. ListedAt(s, p) = {[port |-> l, device |-> dev, buttons |-> bts] :
                            l \in Logicals(s, p)}
    BY <1>1, <1>2, <1>5 DEF ListedAt, Logicals, d
  <2>2. \A l \in Logicals(s, p) : DeviceAt(s, l) = d
    BY <1>5, DeviceBehind DEF NameAt, d
  <2>3. \A l \in Logicals(s, p) :
          /\ HasDescriptor(s, l) <=> Resolves(s, d)
          /\ Descriptor(s, l) = ButtonsOf(s, d)
    BY <1>3, <2>2 DEF HasDescriptor, Descriptor
  <2>4. Resolves(s, d) => d # NoDevice
    BY DEF Resolves
  <2>5. DOMAIN bts # {} => Resolves(s, d)
    OBVIOUS
  <2>6. /\ Resolves(s, d) <=> dev # NoDevice
        /\ Resolves(s, d) => dev = d /\ bts = ButtonsOf(s, d)
    BY <2>4
  <2> HIDE DEF dev, bts
  <2>7. ASSUME NEW j \in ListedAt(s, p)
        PROVE  j.port \in Logicals(s, p) /\ j.device = dev /\ j.buttons = bts
    BY <2>1
  <2>8. ASSUME NEW l \in Logicals(s, p) PROVE \E j \in ListedAt(s, p) : j.port = l
    <3>1. [port |-> l, device |-> dev, buttons |-> bts] \in ListedAt(s, p)
      BY <2>1
    <3> QED BY <3>1
  <2> QED BY <2>2, <2>3, <2>5, <2>6, <2>7, <2>8
<1> QED BY <1>4, <1>5

\* The loops agree on any registration.
LEMMA LoopsAgree ==
  ASSUME NEW s \in Systems, Catalog[s].ports # 0, connected \in [Physical -> Devices]
  PROVE  /\ \A b \in ResolveBindings(s) :
              /\ \A x \in b.logical : DeviceAt(s, x[1]) = x[2]
              /\ b.device # NoDevice => DevicePorts(s, b.port) = {x[1] : x \in b.logical}
         /\ \A j \in PortsJson(s) :
              /\ HasDescriptor(s, j.port) <=> j.device # NoDevice
              /\ j.device # NoDevice =>
                   /\ j.device = DeviceAt(s, j.port)
                   /\ j.buttons = Descriptor(s, j.port)
<1>1. ASSUME NEW b \in ResolveBindings(s)
      PROVE  /\ \A x \in b.logical : DeviceAt(s, x[1]) = x[2]
             /\ b.device # NoDevice => DevicePorts(s, b.port) = {x[1] : x \in b.logical}
  <2>1. PICK p \in Physical : b = BoundAt(s, p)
    BY ResolvedShape
  <2>2. \A x \in b.logical : DeviceAt(s, x[1]) = x[2]
    BY <2>1, BoundAtFields, DeviceBehind
  <2>3. ASSUME b.device # NoDevice
        PROVE  {x[1] : x \in b.logical} = Logicals(s, p)
    <3>1. \A x \in b.logical : x[1] \in Logicals(s, p)
      BY <2>1, BoundAtFields
    <3>2. \A l \in Logicals(s, p) : <<l, NameAt(s, Effective(s)[p])>> \in b.logical
      BY <2>1, <2>3, BoundAtFields
    <3>3. \A l \in Logicals(s, p) : \E x \in b.logical : x[1] = l
      BY <3>2
    <3> QED BY <3>1, <3>3
  <2>4. b.port = p
    BY <2>1, BoundAtFields
  <2> QED BY <2>2, <2>3, <2>4, DevicePortsEffective
<1>2. ASSUME NEW j \in PortsJson(s)
      PROVE  /\ HasDescriptor(s, j.port) <=> j.device # NoDevice
             /\ j.device # NoDevice =>
                  /\ j.device = DeviceAt(s, j.port)
                  /\ j.buttons = Descriptor(s, j.port)
  <2>1. PICK p \in Physical : j \in ListedAt(s, p)
    BY <1>2 DEF PortsJson
  <2> QED BY <2>1, ListedPorts
<1> QED BY <1>1, <1>2

-----------------------------------------------------------------------------
(* The engine and its handles.                                             *)

LEMMA PlugType ==
  ASSUME NEW s \in Systems, NEW bs, Sound(bs), plugged \in [Physical -> Devices]
  PROVE  Plug(s, bs) \in [Physical -> Devices]
<1> SUFFICES ASSUME NEW p \in Physical
             PROVE  Plug(s, bs)[p] \in Devices
  BY DEF Plug
<1> DEFINE named == {b \in bs : b.port = p}
<1>1. NoDevice \in Devices /\ plugged[p] \in Devices
  BY DEF Devices
<1>2. ASSUME named # {}
      PROVE  (CHOOSE b \in named : TRUE).device \in Devices
  <2>1. (CHOOSE b \in named : TRUE) \in named
    BY <1>2
  <2> QED BY <2>1 DEF Sound
<1> QED BY <1>1, <1>2 DEF Plug

\* A cached button is read from a logical port its binding feeds.
LEMMA CachedPort ==
  ASSUME NEW s, NEW bs, Sound(bs), NEW pl, NEW c \in Cached(s, bs, pl)
  PROVE  /\ c[2] \in 1 .. MaxPorts
         /\ \E b \in bs : c \in CachedBy(s, b, pl)
                          /\ (b.port # 0 => c[2] \in Feeds(b))
<1>1. PICK b \in bs : c \in CachedBy(s, b, pl)
  BY DEF Cached
<1>2. CASE b.port = 0
  <2>1. c \in AllNodes(s, pl) \X {1}
    BY <1>1, <1>2 DEF CachedBy
  <2>2. c[2] = 1 /\ 1 \in 1 .. MaxPorts
    BY <2>1, PortAssumption
  <2> QED BY <1>1, <1>2, <2>2
<1>3. CASE b.port # 0
  <2>1. c[2] = b.first \/ <<c[2], Pad>> \in b.logical
    <3>1. CASE b.tap
      <4>1. \E m \in NodesAt(s, b.port, pl[b.port]) :
              /\ c = <<m, b.first + m[2] - 1>>
              /\ <<b.first + m[2] - 1, Pad>> \in b.logical
        BY <1>1, <1>3, <3>1 DEF CachedBy
      <4> QED BY <4>1
    <3>2. CASE ~b.tap
      <4>1. c \in NodesAt(s, b.port, pl[b.port]) \X {b.first}
        BY <1>1, <1>3, <3>2 DEF CachedBy
      <4> QED BY <4>1
    <3> QED BY <3>1, <3>2
  <2>2. c[2] \in Feeds(b)
    BY <2>1 DEF Feeds
  <2> QED BY <1>1, <2>2 DEF Sound
<1> QED BY <1>2, <1>3

IsTyped(e) == e.port \in 1 .. MaxPorts /\ e.bit \in Nat /\ e.home \in Nat

LEMMA HandleShape ==
  ASSUME NEW s, NEW bs, NEW pl, NEW e \in Handles(s, bs, pl)
  PROVE  /\ IsEntry(e)
         /\ \E c \in Cached(s, bs, pl) : e.node = c[1] /\ e.port = c[2]
         /\ e.name = e.node[3] /\ HasHandle(e.port, e.name)
         /\ e.home = Descriptor(staged, e.port)[e.name] /\ e.bit = e.home
<1>1. PICK c \in Cached(s, bs, pl) :
        /\ HasHandle(c[2], c[1][3])
        /\ e = [node |-> c[1], port |-> c[2], name |-> c[1][3],
                home |-> Descriptor(staged, c[2])[c[1][3]],
                bit  |-> Descriptor(staged, c[2])[c[1][3]]]
  BY DEF Handles
<1> QED BY <1>1 DEF IsEntry

LEMMA HandlesType ==
  ASSUME NEW s, NEW bs, Sound(bs), NEW pl, staged \in Systems \cup {NoSystem},
         NEW e \in Handles(s, bs, pl)
  PROVE  IsEntry(e) /\ IsTyped(e)
<1>1. IsButtons(Descriptor(staged, e.port)) /\ e.name \in DOMAIN Descriptor(staged, e.port)
  BY HandleShape, DescriptorType DEF HasHandle
<1> QED BY <1>1, HandleShape, CachedPort DEF IsTyped, IsButtons

\* A remap changes the bit of an entry and nothing else of it.
LEMMA RemappedShape ==
  ASSUME NEW f \in Remapped(table), \A e \in table : IsEntry(e)
  PROVE  /\ IsEntry(f)
         /\ \E e \in table :
              /\ f.node = e.node /\ f.port = e.port /\ f.name = e.name /\ f.home = e.home
              /\ LET own == {r \in inputRemap : r.port = e.port /\ r.name = e.name} IN
                 f.bit = IF own = {} THEN e.home ELSE (CHOOSE r \in own : TRUE).bit
<1>1. PICK e \in table :
        f = LET own == {r \in inputRemap : r.port = e.port /\ r.name = e.name} IN
            [e EXCEPT !.bit = IF own = {} THEN e.home ELSE (CHOOSE r \in own : TRUE).bit]
  BY DEF Remapped
<1> DEFINE own == {r \in inputRemap : r.port = e.port /\ r.name = e.name}
           b == IF own = {} THEN e.home ELSE (CHOOSE r \in own : TRUE).bit
<1>2. f = [e EXCEPT !.bit = b]
  BY <1>1
<1> HIDE DEF b
<1>3. e = [node |-> e.node, port |-> e.port, name |-> e.name, home |-> e.home,
           bit |-> e.bit]
  BY DEF IsEntry
<1>4. f = [node |-> e.node, port |-> e.port, name |-> e.name, home |-> e.home, bit |-> b]
  BY <1>2, <1>3
<1> QED BY <1>4 DEF IsEntry, b

LEMMA RemappedType ==
  ASSUME TypeOK, \A e \in table : IsEntry(e), NEW f \in Remapped(table)
  PROVE  IsEntry(f) /\ IsTyped(f)
<1>1. PICK e \in table :
        /\ f.port = e.port /\ f.home = e.home
        /\ LET own == {r \in inputRemap : r.port = e.port /\ r.name = e.name} IN
           f.bit = IF own = {} THEN e.home ELSE (CHOOSE r \in own : TRUE).bit
  BY RemappedShape
<1>2. \A r \in inputRemap : r.bit \in Nat
  BY DEF TypeOK
<1>3. e.home \in Nat /\ e.port \in 1 .. MaxPorts
  BY DEF TypeOK
<1> QED BY <1>1, <1>2, <1>3, RemappedShape DEF IsTyped

-----------------------------------------------------------------------------
(* Type correctness.                                                       *)

\* Where the emulation thread may stand.
Places == [in: {"none", "boot", "device", "remap"},
           at: {"idle", "flags", "resolve", "bind", "apply", "dropRemap", "dropDevice"}]

LEMMA NothingType == Nothing \in [Physical -> Devices] /\ Idle \in Places
BY DEF Nothing, Devices, Idle, Places

LEMMA TypedInit == Init => TypedInv
<1> SUFFICES ASSUME Init PROVE TypedInv
  OBVIOUS
<1>1. 0 \in 0 .. MaxCalls
  BY PortAssumption
<1>2. TypeOK
  BY <1>1, NothingType DEF Init, TypeOK, Places
<1> QED BY <1>2 DEF Init, TypedInv, Sound

LEMMA ConnectTyped ==
  ASSUME TypedInv, NEW p \in Physical, NEW d \in Devices, ConnectDevice(p, d)
  PROVE  TypedInv'
<1>1. connected' \in [Physical -> Devices] /\ calls' \in 0 .. MaxCalls
  BY PortAssumption DEF TypedInv, TypeOK, ConnectDevice, MayCall
<1> QED BY <1>1 DEF TypedInv, TypeOK, ConnectDevice, flags, engine, Sound, Feeds

LEMMA MappingTyped ==
  ASSUME TypedInv, NEW port \in 1 .. MaxPorts, NEW name \in ButtonNames,
         NEW source \in ButtonNames, SetInputMapping(port, name, source)
  PROVE  TypedInv'
<1>1. IsButtons(Descriptor(staged, port))
  BY DescriptorType DEF SetInputMapping, TypedInv, TypeOK
<1>2. name \in STRING /\ Descriptor(staged, port)[source] \in Nat
  BY <1>1 DEF SetInputMapping, IsButtons
<1>3. /\ inputRemap' \subseteq [port: 1 .. MaxPorts, name: STRING, bit: Nat]
      /\ calls' \in 0 .. MaxCalls
  BY <1>2, PortAssumption DEF SetInputMapping, TypedInv, TypeOK, MayCall
<1> QED BY <1>3 DEF TypedInv, TypeOK, SetInputMapping, flags, engine, Sound, Feeds

LEMMA BindTyped ==
  ASSUME TypedInv, BindPorts
  PROVE  TypedInv'
<1>1. active \in Systems /\ staged \in Systems
  BY DEF TypedInv, BindPorts, Idle
<1>2. plugged' \in [Physical -> Devices]
  BY <1>1, PlugType DEF TypedInv, TypeOK, BindPorts
<1>3. \A e \in table' : IsEntry(e) /\ IsTyped(e)
  BY <1>1, HandlesType DEF TypedInv, BindPorts
<1>4. bindings' = {} /\ work' = [work EXCEPT !.at = "apply"] /\ work # Idle
  BY DEF BindPorts, Idle
<1>5. work' \in [in: {"none", "boot", "device", "remap"},
                 at: {"idle", "flags", "resolve", "bind", "apply", "dropRemap",
                      "dropDevice"}]
  BY <1>4 DEF TypedInv, TypeOK
<1>6. \A e \in table' : e.port \in 1 .. MaxPorts /\ e.bit \in Nat /\ e.home \in Nat
  BY <1>3 DEF IsTyped
<1>7. TypeOK'
  BY <1>2, <1>5, <1>6 DEF TypedInv, TypeOK, BindPorts, flags, registry, bridge, history
<1>8. /\ Sound(bindings)'
      /\ (loaded \/ work # Idle => staged \in Systems /\ active \in Systems)'
  BY <1>1, <1>4 DEF Sound, BindPorts
<1>9. (\A e \in table : IsEntry(e))'
  BY <1>3 DEF IsEntry
<1> QED BY <1>7, <1>8, <1>9 DEF TypedInv

LEMMA ApplyTyped ==
  ASSUME TypedInv, ApplyInputRemap
  PROVE  TypedInv'
<1>1. \A e \in table' : IsEntry(e) /\ IsTyped(e)
  BY RemappedType DEF TypedInv, ApplyInputRemap
<1>2. \A e \in table' : e.port \in 1 .. MaxPorts /\ e.bit \in Nat /\ e.home \in Nat
  BY <1>1 DEF IsTyped
<1>3. TypeOK'
  BY <1>2 DEF TypedInv, TypeOK, ApplyInputRemap, flags, registry, bridge, Idle
<1>4. (\A e \in table : IsEntry(e))'
  BY <1>1 DEF IsEntry
<1>5. /\ Sound(bindings)'
      /\ (loaded \/ work # Idle => staged \in Systems /\ active \in Systems)'
  BY DEF TypedInv, Sound, Feeds, ApplyInputRemap, Idle
<1> QED BY <1>3, <1>4, <1>5 DEF TypedInv

LEMMA TypedStep == TypedInv /\ [Next]_vars => TypedInv'
<1> SUFFICES ASSUME TypedInv, [Next]_vars PROVE TypedInv'
  OBVIOUS
<1> USE DEF TypedInv, TypeOK, Idle
<1>1. CASE UNCHANGED vars
  BY <1>1 DEF vars, registry, flags, engine, bridge, history, Sound, Feeds, IsEntry
<1>2. CASE Bridge
  <2>1. ASSUME NEW port \in 1 .. MaxPorts, ResetInputMapping(port) PROVE TypedInv'
    <3>1. calls' \in 0 .. MaxCalls
      BY <2>1, PortAssumption DEF ResetInputMapping, MayCall
    <3> QED BY <2>1, <3>1 DEF ResetInputMapping, flags, engine, Sound, Feeds, IsEntry
  <2>2. CASE RaiseFlag
    BY <2>2 DEF RaiseFlag, registry, history, engine, Sound, Feeds, IsEntry
  <2> QED BY <1>2, <2>1, <2>2, ConnectTyped, MappingTyped DEF Bridge
<1>3. CASE Loop
  <2>1. CASE TakeDeviceFlag
    <3>1. work' \in Places /\ work = Idle /\ loaded
      BY <2>1 DEF TakeDeviceFlag, MayWork, Places
    <3>2. \A e \in table' : e \in table
      BY <2>1 DEF TakeDeviceFlag
    <3> QED BY <2>1, <3>1, <3>2
            DEF TakeDeviceFlag, registry, bridge, history, Sound, Feeds, IsEntry, Places
  <2>2. CASE TakeRemapFlag
    BY <2>2 DEF TakeRemapFlag, registry, engine, bridge, history, Sound, Feeds, IsEntry
  <2>3. CASE Resolve
    <3>1. staged \in Systems
      BY <2>3 DEF Resolve
    <3>2. Sound(ResolveBindings(staged))
      BY <3>1, ResolvedWell
    <3>3. Sound(bindings)'
      BY <2>3, <3>2 DEF Resolve, Sound, Feeds
    <3> QED BY <2>3, <3>1, <3>3 DEF Resolve, registry, flags, bridge, history, IsEntry
  <2>4. CASE DropRemapFlag
    <3>1. work' \in Places /\ work # Idle
      BY <2>4 DEF DropRemapFlag, Places
    <3> QED BY <2>4, <3>1
            DEF DropRemapFlag, registry, engine, bridge, history, Sound, Feeds, IsEntry, Places
  <2>5. CASE DropDeviceFlag
    <3>1. work' \in Places /\ work # Idle
      BY <2>5, NothingType DEF DropDeviceFlag
    <3> QED BY <2>5, <3>1
            DEF DropDeviceFlag, registry, engine, bridge, history, Sound, Feeds, IsEntry, Places
  <2> QED BY <1>3, <2>1, <2>2, <2>3, <2>4, <2>5, BindTyped, ApplyTyped DEF Loop
<1>4. CASE \E s \in Systems : StageSystem(s)
  BY <1>4 DEF StageSystem, registry, flags, engine, bridge, history, Sound, Feeds, IsEntry
<1>5. CASE LoadRom
  <2>1. staged \in Systems
    BY <1>5 DEF LoadRom
  <2>2. Sound(ResolveBindings(staged))
    BY <2>1, ResolvedWell
  <2>3. Sound(bindings)'
    BY <1>5, <2>2 DEF LoadRom, Sound, Feeds
  <2> QED BY <1>5, <2>1, <2>3, NothingType DEF LoadRom, registry, flags, bridge, history
<1>6. CASE BootFails
  <2> QED BY <1>6, NothingType DEF BootFails, registry, flags, bridge, history, Sound, Places
<1>7. CASE Reset
  <2>1. TypeOK'
    BY <1>7, NothingType DEF Reset, bridge
  <2> QED BY <1>7, <2>1 DEF Reset, Sound, MayWork, bridge
<1> QED BY <1>1, <1>2, <1>3, <1>4, <1>5, <1>6, <1>7 DEF Next

\* Registrations, remaps, handles and places have their types: a handle is of
\* an existing player and carries bits of a button, whatever was registered
\* while it was bound.
THEOREM TypeCorrect == Spec => []TypeOK
<1>1. TypedInv => TypeOK
  BY DEF TypedInv
<1> QED BY <1>1, TypedInit, TypedStep, PTL DEF Spec

-----------------------------------------------------------------------------
(* No two controllers follow one player.                                   *)

\* A port is plugged with the device its binding names, if there is one.
LEMMA PlugOf ==
  ASSUME NEW s \in Systems, NEW bs, WellBound(s, bs), NEW b \in bs, b.port # 0,
         b.tap \/ Resolves(s, b.device)
  PROVE  Plug(s, bs)[b.port] = b.device
<1>1. b.port \in Physical /\ Catalog[s].ports # 0 /\ b.device # NoDevice
  BY DEF WellBound, IsMultitap, Resolves
<1>2. {c \in bs : c.port = b.port} = {b}
  BY DEF WellBound
<1> QED BY <1>1, <1>2 DEF Plug

\* Which button a port of a resolved binding reads from the engine.
LEMMA CachedNode ==
  ASSUME NEW s \in Systems, NEW bs, WellBound(s, bs), NEW b \in bs,
         b.first \in Nat, NEW c \in CachedBy(s, b, Plug(s, bs))
  PROVE  c = <<<<b.port, IF b.tap THEN c[2] - b.first + 1 ELSE 0, c[1][3]>>, c[2]>>
<1>1. CASE b.port = 0
  <2>1. c \in AllNodes(s, Plug(s, bs)) \X {1} /\ Catalog[s].ports = 0
    BY <1>1 DEF CachedBy, WellBound
  <2>2. PICK n : c = <<<<0, 0, n>>, 1>>
    BY <2>1 DEF AllNodes
  <2>3. ~b.tap
    BY <1>1 DEF WellBound
  <2> QED BY <2>2, <2>3, <1>1
<1>2. CASE b.port # 0 /\ b.tap
  <2>1. /\ Plug(s, bs)[b.port] = b.device /\ IsMultitap(s, b.device)
        /\ Catalog[s].ports # 0
    BY <1>2, PlugOf DEF WellBound
  <2>2. PICK m \in NodesAt(s, b.port, b.device) : c = <<m, b.first + m[2] - 1>>
    BY <1>2, <2>1 DEF CachedBy
  <2>3. PICK i, n : i \in 1 .. Catalog[s].block /\ m = <<b.port, i, n>>
    BY <2>1, <2>2 DEF NodesAt
  <2>4. c = <<<<b.port, i, n>>, b.first + i - 1>>
    BY <2>2, <2>3
  <2>5. i = c[2] - b.first + 1
    BY <2>3, <2>4, CatalogFacts
  <2> QED BY <1>2, <2>4, <2>5
<1>3. CASE b.port # 0 /\ ~b.tap
  <2>1. Resolves(s, b.device) /\ Catalog[s].ports # 0 /\ ~IsMultitap(s, b.device)
    BY <1>3 DEF CachedBy, WellBound
  <2>2. c \in NodesAt(s, b.port, b.device) \X {b.first}
    BY <1>3, <2>1, PlugOf DEF CachedBy
  <2>3. PICK n : c = <<<<b.port, 0, n>>, b.first>>
    BY <2>1, <2>2 DEF NodesAt
  <2> QED BY <1>3, <2>3
<1> QED BY <1>1, <1>2, <1>3

LEMMA HandlesApart ==
  ASSUME NEW s \in Systems, NEW bs, WellBound(s, bs), Sound(bs),
         NEW e \in Handles(s, bs, Plug(s, bs)), NEW f \in Handles(s, bs, Plug(s, bs)),
         e.port = f.port
  PROVE  e.node[1] = f.node[1] /\ e.node[2] = f.node[2]
<1>1. \A b \in bs : b.first \in Nat
  BY PortAssumption DEF Sound, Feeds
<1>2. PICK b, c : /\ b \in bs /\ c \in CachedBy(s, b, Plug(s, bs))
                  /\ e.node = c[1] /\ e.port = c[2]
                  /\ b.port # 0 => e.port \in Feeds(b)
  <2>1. PICK k \in Cached(s, bs, Plug(s, bs)) : e.node = k[1] /\ e.port = k[2]
    BY HandleShape
  <2> QED BY <2>1, CachedPort
<1>3. PICK d, g : /\ d \in bs /\ g \in CachedBy(s, d, Plug(s, bs))
                  /\ f.node = g[1] /\ f.port = g[2]
                  /\ d.port # 0 => f.port \in Feeds(d)
  <2>1. PICK k \in Cached(s, bs, Plug(s, bs)) : f.node = k[1] /\ f.port = k[2]
    BY HandleShape
  <2> QED BY <2>1, CachedPort
<1>4. b = d
  <2>1. CASE b.port = 0 \/ d.port = 0
    <3>1. Catalog[s].ports = 0
      BY <1>2, <1>3, <2>1 DEF WellBound
    <3>2. b.port = 0 /\ d.port = 0
      BY <1>2, <1>3, <3>1 DEF WellBound
    <3> QED BY <1>2, <1>3, <3>2 DEF WellBound
  <2>2. CASE b.port # 0 /\ d.port # 0
    BY <1>2, <1>3, <2>2 DEF WellBound
  <2> QED BY <2>1, <2>2
<1> DEFINE sub(l) == IF b.tap THEN l - b.first + 1 ELSE 0
<1>5. c = <<<<b.port, sub(c[2]), c[1][3]>>, c[2]>>
  BY <1>1, <1>2, CachedNode
<1>6. g = <<<<b.port, sub(g[2]), g[1][3]>>, g[2]>>
  BY <1>1, <1>3, <1>4, CachedNode
<1> HIDE DEF sub
<1>7. c[2] = g[2]
  BY <1>2, <1>3
<1>8. c[1][1] = g[1][1] /\ c[1][2] = g[1][2]
  BY <1>5, <1>6, <1>7
<1>9. e.node = c[1] /\ f.node = g[1]
  BY <1>2, <1>3
<1> QED BY <1>8, <1>9

LEMMA BoundInit == Init => BoundInv
BY DEF Init, BoundInv, PadsIndependent, Idle

LEMMA BoundStep ==
  ASSUME TypedInv, BoundInv, [Next]_vars
  PROVE  BoundInv'
<1> USE DEF BoundInv, PadsIndependent, Idle
<1>1. connected \in [Physical -> Devices]
  BY DEF TypedInv, TypeOK
<1>2. CASE UNCHANGED vars
  BY <1>2 DEF vars, registry, flags, engine, bridge, history, WellBound, Feeds, IsMultitap
<1>3. CASE Bridge
  BY <1>3 DEF Bridge, ConnectDevice, SetInputMapping, ResetInputMapping, RaiseFlag,
              registry, flags, engine, history, WellBound, Feeds
<1>4. CASE TakeDeviceFlag
  BY <1>4 DEF TakeDeviceFlag, MayWork, history, WellBound, Feeds
<1>5. CASE TakeRemapFlag
  BY <1>5 DEF TakeRemapFlag, engine, history
<1>6. CASE Resolve
  <2>1. staged \in Systems /\ active' = active /\ table' = table
        /\ staged' = staged /\ boundFor' = staged /\ bindings' = ResolveBindings(staged)
    BY <1>6 DEF Resolve, TypedInv
  <2>2. WellBound(staged, ResolveBindings(staged))
    BY <1>1, <2>1, ResolvedWell
  <2>3. (boundFor = active => WellBound(active, bindings))'
    BY <2>1, <2>2 DEF WellBound, Feeds
  <2>4. table = {} /\ work'.at # "resolve"
    BY <1>6 DEF Resolve, TypedInv, TypeOK
  <2> QED BY <2>1, <2>3, <2>4
<1>7. CASE BindPorts
  <2>1. boundFor' = boundFor /\ active' = active /\ work'.at \notin {"resolve", "bind"}
    BY <1>7 DEF BindPorts, history, TypedInv, TypeOK
  <2>2. ASSUME boundFor = active
        PROVE  PadsIndependent'
    <3>1. active \in Systems /\ Sound(bindings) /\ WellBound(active, bindings)
      BY <1>7, <2>2 DEF BindPorts, TypedInv
    <3>2. table' = Handles(active, bindings, Plug(active, bindings))
      BY <1>7 DEF BindPorts
    <3> QED BY <3>1, <3>2, HandlesApart
  <2> QED BY <2>1, <2>2
<1>8. CASE ApplyInputRemap
  <2>1. ASSUME NEW e \in table', NEW f \in table', e.port = f.port, boundFor = active
        PROVE  e.node[1] = f.node[1] /\ e.node[2] = f.node[2]
    <3>1. PICK g \in table : e.port = g.port /\ e.node = g.node
      BY <1>8, RemappedShape DEF ApplyInputRemap, TypedInv
    <3>2. PICK h \in table : f.port = h.port /\ f.node = h.node
      BY <1>8, RemappedShape DEF ApplyInputRemap, TypedInv
    <3>3. g.port = h.port => g.node[1] = h.node[1] /\ g.node[2] = h.node[2]
      BY <2>1, <3>1, <3>2
    <3> QED BY <2>1, <3>1, <3>2, <3>3
  <2>2. boundFor' = boundFor /\ active' = active /\ work'.at \notin {"resolve", "bind"}
    BY <1>8 DEF ApplyInputRemap, TypedInv, TypeOK
  <2> QED BY <2>1, <2>2
<1>9. CASE DropRemapFlag \/ DropDeviceFlag
  <2>1. work # Idle /\ work'.at \notin {"resolve", "bind"}
    BY <1>9 DEF DropRemapFlag, DropDeviceFlag, TypedInv, TypeOK
  <2> QED BY <1>9, <2>1 DEF DropRemapFlag, DropDeviceFlag, engine, history
<1>10. CASE \E s \in Systems : StageSystem(s)
  BY <1>10 DEF StageSystem, MayWork, engine, history, WellBound, Feeds
<1>11. CASE LoadRom
  <2>1. staged \in Systems
    BY <1>11 DEF LoadRom, TypedInv, TypeOK
  <2>2. WellBound(staged, ResolveBindings(staged))
    BY <1>1, <2>1, ResolvedWell
  <2>3. WellBound(active, bindings)'
    BY <1>11, <2>2 DEF LoadRom, WellBound, Feeds
  <2> QED BY <1>11, <2>3 DEF LoadRom
<1>12. CASE BootFails
  BY <1>12 DEF BootFails, history
<1>13. CASE Reset
  BY <1>13 DEF Reset, MayWork
<1> QED BY <1>2, <1>3, <1>4, <1>5, <1>6, <1>7, <1>8, <1>9, <1>10, <1>11, <1>12, <1>13
        DEF Next, Loop

\* A game whose bindings are its own never has two controllers on one player's
\* port, though devices are registered and taken away while a boot or a rebind
\* is under way, with or without the lock, and whatever was staged since.
THEOREM PadsStayApart == Spec => []PadsIndependent
<1>1. BoundInv => PadsIndependent
  BY DEF BoundInv
<1>2. TypedInv /\ BoundInv /\ [Next]_vars => BoundInv'
  BY BoundStep
<1> QED BY <1>1, <1>2, TypedInit, TypedStep, BoundInit, PTL DEF Spec

-----------------------------------------------------------------------------
(* What is bound is what is registered.                                    *)

\* Every cached button that may have a handle has one.
LEMMA HandleOf ==
  ASSUME NEW s, NEW bs, NEW pl, NEW c \in Cached(s, bs, pl), HasHandle(c[2], c[1][3])
  PROVE  \E e \in Handles(s, bs, pl) : e.node = c[1] /\ e.port = c[2]
<1> DEFINE e == [node |-> c[1], port |-> c[2], name |-> c[1][3],
                 home |-> Descriptor(staged, c[2])[c[1][3]],
                 bit  |-> Descriptor(staged, c[2])[c[1][3]]]
<1>1. e \in Handles(s, bs, pl)
  BY DEF Handles
<1>2. e.node = c[1] /\ e.port = c[2]
  OBVIOUS
<1> QED BY <1>1, <1>2

\* Built-in controls.
LEMMA BuiltInBound ==
  ASSUME NEW s \in Systems, Catalog[s].ports = 0, NEW pl, NEW c
  PROVE  c \in Cached(s, ResolveBindings(s), pl) <=> c \in Wired(s)
<1>1. Cached(s, ResolveBindings(s), pl) = CachedBy(s, BuiltIn, pl)
  BY ResolvedShape DEF Cached
<1>2. CachedBy(s, BuiltIn, pl) = AllNodes(s, pl) \X {1}
  BY DEF CachedBy, BuiltIn
<1>3. AllNodes(s, pl) = {<<0, 0, n>> : n \in DOMAIN Catalog[s].buttons}
  BY DEF AllNodes
<1>4. Wired(s) = {<<<<0, 0, n>>, 1>> : n \in DOMAIN Catalog[s].buttons}
  BY DEF Wired
<1>5. ASSUME c \in AllNodes(s, pl) \X {1} PROVE c \in Wired(s)
  <2>1. PICK n \in DOMAIN Catalog[s].buttons : c[1] = <<0, 0, n>>
    BY <1>3, <1>5
  <2>2. c = <<<<0, 0, n>>, 1>>
    BY <1>5, <2>1
  <2> QED BY <1>4, <2>2
<1>6. ASSUME c \in Wired(s) PROVE c \in AllNodes(s, pl) \X {1}
  BY <1>3, <1>4, <1>6
<1> QED BY <1>1, <1>2, <1>5, <1>6

\* Of a port the system has, a cached button with a handle is one its player
\* should read.
LEMMA CachedIsWired ==
  ASSUME NEW s \in Systems, Catalog[s].ports # 0, staged = s,
         connected \in [Physical -> Devices],
         NEW c \in Cached(s, ResolveBindings(s), Plug(s, ResolveBindings(s))),
         HasHandle(c[2], c[1][3])
  PROVE  c \in Wired(s)
<1> DEFINE bs == ResolveBindings(s)
<1>1. Sound(bs) /\ WellBound(s, bs)
  BY ResolvedWell
<1>2. PICK b \in bs : c \in CachedBy(s, b, Plug(s, bs)) /\ (b.port # 0 => c[2] \in Feeds(b))
  BY <1>1, CachedPort
<1>3. PICK p \in Physical : Reached(s, p) /\ b = BoundAt(s, p)
  BY ResolvedShape
<1>4. /\ b.port = p /\ b.first = FirstLogical(s, p)
      /\ b.tap <=> IsMultitap(s, Effective(s)[p])
  BY <1>3, BoundAtFields
<1>5. c[2] \in Logicals(s, p)
  BY <1>2, <1>3, <1>4, FeedsOf DEF Physical
<1>6. c = <<<<p, IF IsMultitap(s, Effective(s)[p])
                   THEN c[2] - FirstLogical(s, p) + 1 ELSE 0, c[1][3]>>, c[2]>>
  <2>1. b.first \in Nat
    BY <1>4, Firsts
  <2> QED BY <1>1, <1>2, <1>4, <2>1, CachedNode
<1>7. c \in WiredAt(s, p, c[2])
  BY <1>6 DEF WiredAt, HasHandle
<1> QED BY <1>5, <1>7 DEF Wired

\* A button a player should read is cached, and may have a handle.
LEMMA WiredIsCached ==
  ASSUME NEW s \in Systems, Catalog[s].ports # 0, staged = s,
         connected \in [Physical -> Devices], NEW w \in Wired(s)
  PROVE  /\ w \in Cached(s, ResolveBindings(s), Plug(s, ResolveBindings(s)))
         /\ HasHandle(w[2], w[1][3])
<1> DEFINE bs == ResolveBindings(s)
           D == Effective(s)
<1>1. PICK p \in Physical : \E l \in Logicals(s, p) : w \in WiredAt(s, p, l)
  BY DEF Wired
<1>2. PICK l \in Logicals(s, p) : w \in WiredAt(s, p, l)
  BY <1>1
<1> DEFINE sub == IF IsMultitap(s, D[p]) THEN l - FirstLogical(s, p) + 1 ELSE 0
<1>3. PICK n \in DOMAIN Descriptor(s, l) : HasDescriptor(s, l) /\ w = <<<<p, sub, n>>, l>>
  BY <1>2 DEF WiredAt
<1>4. w[2] = l /\ w[1] = <<p, sub, n>> /\ w[1][3] = n
  BY <1>3
<1>5. HasHandle(w[2], w[1][3])
  BY <1>3, <1>4 DEF HasHandle
<1>6. /\ l \in Nat /\ MaxPorts \in Nat /\ FirstLogical(s, p) \in Nat
      /\ PortBlock(s, D[p]) \in Nat /\ l <= MaxPorts
      /\ FirstLogical(s, p) <= l /\ l <= FirstLogical(s, p) + PortBlock(s, D[p]) - 1
  BY LogicalsRange, Firsts, Blocks, CatalogFacts
<1>7. Reached(s, p) /\ BoundAt(s, p) \in bs
  <2>1. Reached(s, p)
    BY <1>6 DEF Reached
  <2> QED BY <2>1, ResolvedShape
<1>8. Resolves(s, NameAt(s, D[p])) /\ Descriptor(s, l) = ButtonsOf(s, NameAt(s, D[p]))
  BY <1>2, <1>3, DeviceBehind DEF HasDescriptor, Descriptor
<1>9. D[p] \in Devices /\ D[p] # NoDevice
  BY <1>8, EffectiveType DEF NameAt, Resolves, IsMultitap
<1>10. PICK b \in bs :
         /\ b.port = p /\ b.port # 0 /\ b.device = D[p]
         /\ b.first = FirstLogical(s, p)
         /\ b.tap <=> IsMultitap(s, D[p])
         /\ <<l, NameAt(s, D[p])>> \in b.logical
  BY <1>2, <1>7, <1>9, BoundAtFields DEF Physical
<1>11. WellBound(s, bs)
  BY ResolvedWell
<1> HIDE DEF bs, D
<1>12. ASSUME b.tap \/ Resolves(s, b.device)
       PROVE  Plug(s, bs)[b.port] = D[p]
  BY <1>10, <1>11, <1>12, PlugOf
<1>13. w \in CachedBy(s, b, Plug(s, bs))
  <2>1. CASE IsMultitap(s, D[p])
    <3>1. Descriptor(s, l) = Catalog[s].buttons /\ NameAt(s, D[p]) = Pad
      BY <1>8, <1>9, <2>1, TapDevice DEF NameAt, ButtonsOf
    <3>2. sub \in 1 .. Catalog[s].block /\ b.first + sub - 1 = l /\ sub > 0
      BY <1>6, <1>10, <2>1, CatalogFacts DEF PortBlock
    <3>3. <<p, sub, n>> \in NodesAt(s, p, D[p])
      BY <1>3, <2>1, <3>1, <3>2 DEF NodesAt
    <3>4. PICK m \in NodesAt(s, p, D[p]) : w = <<m, l>> /\ m[2] = sub
      BY <1>3, <3>3
    <3> HIDE DEF sub
    <3>5. w = <<m, b.first + m[2] - 1>>
      BY <3>2, <3>4
    <3>6. <<b.first + m[2] - 1, Pad>> \in b.logical /\ m[2] > 0
      BY <1>10, <3>1, <3>2, <3>4
    <3>7. m \in NodesAt(s, b.port, Plug(s, bs)[b.port])
      BY <1>10, <1>12, <2>1, <3>4
    <3>8. Catalog[s].ports # 0
      OBVIOUS
    <3> QED BY <1>10, <2>1, <3>5, <3>6, <3>7, <3>8 DEF CachedBy
  <2>2. CASE ~IsMultitap(s, D[p])
    <3>1. NameAt(s, D[p]) = D[p] /\ l = FirstLogical(s, p)
      BY <1>2, <2>2, LogicalsSingle DEF NameAt, D
    <3>2. <<p, 0, n>> \in NodesAt(s, p, D[p])
      BY <1>3, <1>8, <2>2, <3>1 DEF NodesAt
    <3>3. <<p, 0, n>> \in NodesAt(s, b.port, Plug(s, bs)[b.port])
      BY <1>8, <1>10, <1>12, <3>1, <3>2
    <3>4. w = <<<<p, 0, n>>, b.first>>
      BY <1>3, <1>10, <2>2, <3>1
    <3>5. w \in NodesAt(s, b.port, Plug(s, bs)[b.port]) \X {b.first}
      BY <3>3, <3>4
    <3>6. ~b.tap /\ Resolves(s, b.device)
      BY <1>8, <1>10, <2>2, <3>1
    <3> QED BY <1>10, <3>5, <3>6 DEF CachedBy
  <2> QED BY <2>1, <2>2
<1> QED BY <1>5, <1>13 DEF Cached, bs

LEMMA BindWires ==
  ASSUME NEW s \in Systems, staged = s, connected \in [Physical -> Devices]
  PROVE  LET H == Handles(s, ResolveBindings(s), Plug(s, ResolveBindings(s))) IN
         /\ \A e \in H : /\ <<e.node, e.port>> \in Wired(s)
                         /\ e.name = e.node[3]
                         /\ e.home = Descriptor(s, e.port)[e.name]
         /\ \A w \in Wired(s) : \E e \in H : e.node = w[1] /\ e.port = w[2]
<1> DEFINE bs == ResolveBindings(s)
           pl == Plug(s, bs)
           H == Handles(s, bs, pl)
<1>1. ASSUME NEW c \in Cached(s, bs, pl), HasHandle(c[2], c[1][3])
      PROVE  c \in Wired(s) /\ c = <<c[1], c[2]>>
  <2>1. c \in Wired(s)
    BY <1>1, BuiltInBound, CachedIsWired
  <2>2. c = <<c[1], c[2]>>
    BY <2>1 DEF Wired, WiredAt
  <2> QED BY <2>1, <2>2
<1>2. ASSUME NEW w \in Wired(s)
      PROVE  w \in Cached(s, bs, pl) /\ HasHandle(w[2], w[1][3])
  <2>1. CASE Catalog[s].ports = 0
    <3>1. PICK n \in DOMAIN Catalog[s].buttons : w = <<<<0, 0, n>>, 1>>
      BY <2>1 DEF Wired
    <3>2. HasHandle(w[2], w[1][3])
      BY <2>1, <3>1, CatalogFacts DEF HasHandle, HasDescriptor, Descriptor
    <3> QED BY <2>1, <3>2, BuiltInBound
  <2>2. CASE Catalog[s].ports # 0
    BY <2>2, WiredIsCached
  <2> QED BY <2>1, <2>2
<1>3. ASSUME NEW e \in H
      PROVE  <<e.node, e.port>> \in Wired(s)
  <2>1. PICK c \in Cached(s, bs, pl) : e.node = c[1] /\ e.port = c[2]
    BY HandleShape
  <2>2. HasHandle(c[2], c[1][3])
    BY <2>1, HandleShape
  <2> QED BY <1>1, <2>1, <2>2
<1>4. \A e \in H : e.name = e.node[3] /\ e.home = Descriptor(s, e.port)[e.name]
  BY HandleShape
<1>5. \A w \in Wired(s) : \E e \in H : e.node = w[1] /\ e.port = w[2]
  BY <1>2, HandleOf
<1> QED BY <1>3, <1>4, <1>5

-----------------------------------------------------------------------------
(* A settled game reads what is registered.                                *)

\* What is wired and what a remap says depend on the registry and the system
\* that runs.
LEMMA SameRegistry ==
  ASSUME active' = active, connected' = connected, table' = table
  PROVE  /\ TableWired => TableWired'
         /\ inputRemap' = inputRemap /\ BitsCurrent => BitsCurrent'
<1>1. \A s : Wired(s)' = Wired(s)
  BY DEF Wired, WiredAt, HasDescriptor, Descriptor, DeviceAt, Effective,
              FirstLogical, Logicals
<1>2. \A s, l : Descriptor(s, l)' = Descriptor(s, l)
  BY DEF Descriptor, DeviceAt, Effective
<1> QED BY <1>1, <1>2 DEF TableWired, BitsCurrent, ReadAs

\* A rebind registers the handles of what is registered.
LEMMA BindStep ==
  ASSUME TypedInv, BoundInv, CurrentInv, BindPorts,
         boundFor = active, "device" \notin behind
  PROVE  TableWired'
<1> DEFINE H == Handles(active, ResolveBindings(active),
                        Plug(active, ResolveBindings(active)))
<1>1. /\ active \in Systems /\ staged = active /\ connected \in [Physical -> Devices]
      /\ bindings = ResolveBindings(active)
  BY DEF BindPorts, TypedInv, TypeOK, BoundInv, CurrentInv, Idle
<1>2. table' = H /\ active' = active /\ connected' = connected
  BY <1>1 DEF BindPorts, registry
<1>3. \A e \in H : /\ <<e.node, e.port>> \in Wired(active)
                   /\ e.name = e.node[3]
                   /\ e.home = Descriptor(active, e.port)[e.name]
  BY <1>1, BindWires
<1>4. \A w \in Wired(active) : \E e \in H : e.node = w[1] /\ e.port = w[2]
  BY <1>1, BindWires
<1>5. \A s : Wired(s)' = Wired(s)
  BY <1>2 DEF Wired, WiredAt, HasDescriptor, Descriptor, DeviceAt, Effective,
              FirstLogical, Logicals
<1>6. \A s, l : Descriptor(s, l)' = Descriptor(s, l)
  BY <1>2 DEF Descriptor, DeviceAt, Effective
<1> HIDE DEF H
<1> QED BY <1>2, <1>3, <1>4, <1>5, <1>6 DEF TableWired

\* Applying the remaps leaves the wiring and gives every entry its bit.
LEMMA ApplyStep ==
  ASSUME TypedInv, TableWired, ApplyInputRemap
  PROVE  TableWired' /\ BitsCurrent'
<1>1. /\ \A e \in table : IsEntry(e)
      /\ table' = Remapped(table) /\ active' = active
      /\ connected' = connected /\ inputRemap' = inputRemap
  BY DEF TypedInv, ApplyInputRemap, registry
<1>2. \A s : Wired(s)' = Wired(s)
  BY <1>1 DEF Wired, WiredAt, HasDescriptor, Descriptor, DeviceAt, Effective,
              FirstLogical, Logicals
<1>3. \A s, l : Descriptor(s, l)' = Descriptor(s, l)
  BY <1>1 DEF Descriptor, DeviceAt, Effective
<1>4. ASSUME NEW f \in table'
      PROVE  /\ <<f.node, f.port>> \in Wired(active) /\ f.name = f.node[3]
             /\ f.home = Descriptor(active, f.port)[f.name]
             /\ f.bit = ReadAs(active, f.port, f.name)
  <2>1. PICK e \in table :
          /\ f.node = e.node /\ f.port = e.port /\ f.name = e.name /\ f.home = e.home
          /\ LET own == {r \in inputRemap : r.port = e.port /\ r.name = e.name} IN
             f.bit = IF own = {} THEN e.home ELSE (CHOOSE r \in own : TRUE).bit
    BY <1>1, <1>4, RemappedShape
  <2>2. /\ <<e.node, e.port>> \in Wired(active) /\ e.name = e.node[3]
        /\ e.home = Descriptor(active, e.port)[e.name]
    BY DEF TableWired
  <2>3. f.bit = ReadAs(active, e.port, e.name)
    BY <2>1, <2>2 DEF ReadAs
  <2> QED BY <2>1, <2>2, <2>3
<1>5. ASSUME NEW w \in Wired(active)
      PROVE  \E f \in table' : f.node = w[1] /\ f.port = w[2]
  <2>1. PICK e \in table : e.node = w[1] /\ e.port = w[2]
    BY DEF TableWired
  <2>2. e = [node |-> e.node, port |-> e.port, name |-> e.name, home |-> e.home,
             bit |-> e.bit]
    BY <1>1 DEF IsEntry
  <2> DEFINE own == {r \in inputRemap : r.port = e.port /\ r.name = e.name}
             b == IF own = {} THEN e.home ELSE (CHOOSE r \in own : TRUE).bit
  <2>3. [e EXCEPT !.bit = b] \in Remapped(table)
    BY DEF Remapped
  <2> HIDE DEF b
  <2>4. [e EXCEPT !.bit = b].node = e.node /\ [e EXCEPT !.bit = b].port = e.port
    BY <2>2
  <2> QED BY <1>1, <2>1, <2>3, <2>4
<1>6. TableWired'
  BY <1>1, <1>2, <1>3, <1>4, <1>5 DEF TableWired
<1>7. \A l, n : ReadAs(active, l, n)' = ReadAs(active, l, n)
  BY <1>1, <1>3 DEF ReadAs
<1>8. BitsCurrent'
  BY <1>4, <1>7 DEF BitsCurrent
<1> QED BY <1>6, <1>8

LEMMA CurrentInit == Init => CurrentInv /\ LockInv
BY DEF Init, CurrentInv, LockInv, Idle

\* Steps that leave the table, the registry and the running system alone.
LEMMA KeepsCurrent ==
  ASSUME TypedInv, CurrentInv,
         active' = active, boundFor' = boundFor, table' = table,
         connected' = connected, bindings' = bindings,
         (behind' = behind /\ inputRemap' = inputRemap) \/ behind' # {},
         "device" \notin behind' => "device" \notin behind,
         work'.in = "boot" => ~loaded',
         work'.at = "bind" => work.at = "bind",
         work'.at \notin {"resolve", "bind"} /\ (loaded' \/ work' # Idle) =>
           work.at \notin {"resolve", "bind"} /\ (loaded \/ work # Idle),
         work'.at \notin {"resolve", "bind", "apply"} /\ (loaded' \/ work' # Idle) =>
           work.at \notin {"resolve", "bind", "apply"} /\ (loaded \/ work # Idle)
  PROVE  CurrentInv'
<1>1. \A s : ResolveBindings(s)' = ResolveBindings(s)
  BY DEF ResolveBindings, BoundAt, FirstLogical, Logicals, Effective
<1>2. /\ TableWired => TableWired'
      /\ inputRemap' = inputRemap /\ BitsCurrent => BitsCurrent'
  BY SameRegistry
<1> QED BY <1>1, <1>2 DEF CurrentInv, Idle

LEMMA CurrentStep ==
  ASSUME TypedInv, BoundInv, CurrentInv, [Next]_vars
  PROVE  CurrentInv'
<1>1. work \in Places /\ behind \subseteq {"device", "remap"}
  BY DEF TypedInv, TypeOK, Places
<1>2. CASE UNCHANGED vars
  <2>1. /\ active' = active /\ boundFor' = boundFor /\ table' = table
        /\ connected' = connected /\ bindings' = bindings /\ behind' = behind
        /\ inputRemap' = inputRemap /\ work' = work /\ loaded' = loaded
    BY <1>2 DEF vars, registry, engine, history
  <2>2. work.in = "boot" => ~loaded
    BY DEF CurrentInv
  <2> QED BY <2>1, <2>2, KeepsCurrent
<1>3. CASE Bridge
  <2>1. ASSUME NEW p \in Physical, NEW d \in Devices, ConnectDevice(p, d)
        PROVE  CurrentInv'
    <3>1. /\ "device" \in behind' /\ work' = work /\ loaded' = loaded
      BY <2>1 DEF ConnectDevice
    <3> QED BY <3>1 DEF CurrentInv
  <2>2. ASSUME NEW port, NEW name, NEW source,
               SetInputMapping(port, name, source) \/ ResetInputMapping(port)
        PROVE  CurrentInv'
    <3>1. /\ behind' = behind \cup {"remap"} /\ work' = work /\ loaded' = loaded
          /\ active' = active /\ connected' = connected /\ table' = table
          /\ bindings' = bindings /\ boundFor' = boundFor
      BY <2>2 DEF SetInputMapping, ResetInputMapping, engine
    <3>2. work.in = "boot" => ~loaded
      BY DEF CurrentInv
    <3> QED BY <3>1, <3>2, KeepsCurrent
  <2>3. CASE RaiseFlag
    <3>1. /\ behind' = behind /\ work' = work /\ loaded' = loaded
          /\ active' = active /\ connected' = connected /\ table' = table
          /\ bindings' = bindings /\ boundFor' = boundFor /\ inputRemap' = inputRemap
      BY <2>3 DEF RaiseFlag, registry, engine, history
    <3>2. work.in = "boot" => ~loaded
      BY DEF CurrentInv
    <3> QED BY <3>1, <3>2, KeepsCurrent
  <2> QED BY <1>3, <2>1, <2>2, <2>3 DEF Bridge
<1>4. CASE TakeDeviceFlag
  <2>1. /\ work = Idle /\ loaded /\ loaded' = loaded
        /\ active' = active /\ connected' = connected /\ bindings' = bindings
        /\ inputRemap' = inputRemap /\ behind' = behind /\ boundFor' = boundFor
    BY <1>4 DEF TakeDeviceFlag, MayWork, registry, history
  <2>2. CASE deviceDirty
    <3>1. work' = [in |-> "device", at |-> "resolve"]
      BY <1>4, <2>2 DEF TakeDeviceFlag
    <3> QED BY <3>1 DEF CurrentInv
  <2>3. CASE ~deviceDirty
    <3>1. work' = [in |-> "remap", at |-> "flags"] /\ table' = table
      BY <1>4, <2>3 DEF TakeDeviceFlag
    <3> QED BY <2>1, <3>1, KeepsCurrent DEF Idle
  <2> QED BY <2>2, <2>3
<1>5. CASE TakeRemapFlag
  <2>1. /\ work = [in |-> "remap", at |-> "flags"] /\ loaded' = loaded
        /\ active' = active /\ connected' = connected /\ bindings' = bindings
        /\ inputRemap' = inputRemap /\ behind' = behind /\ boundFor' = boundFor
        /\ table' = table
        /\ work' = [in |-> "remap", at |-> "apply"] \/ work' = Idle
    BY <1>5 DEF TakeRemapFlag, registry, engine, history
  <2> QED BY <2>1, KeepsCurrent DEF Idle
<1>6. CASE Resolve
  <2>1. /\ active' = active /\ connected' = connected /\ boundFor' = staged
        /\ bindings' = ResolveBindings(staged) /\ loaded' = loaded
        /\ work'.at = "bind" /\ work'.in = work.in
    BY <1>1, <1>6 DEF Resolve, registry, Places
  <2>2. \A s : ResolveBindings(s)' = ResolveBindings(s)
    BY <2>1 DEF ResolveBindings, BoundAt, FirstLogical, Logicals, Effective
  <2> QED BY <2>1, <2>2 DEF CurrentInv
<1>7. CASE BindPorts
  <2>1. boundFor = active /\ "device" \notin behind => TableWired'
    BY <1>7, BindStep
  <2>2. work'.at = "apply" /\ work'.in = work.in /\ loaded' = loaded
        /\ active' = active /\ boundFor' = boundFor /\ behind' = behind
    BY <1>1, <1>7 DEF BindPorts, history, Places
  <2> QED BY <2>1, <2>2 DEF CurrentInv
<1>8. CASE ApplyInputRemap
  <2>1. /\ work.at = "apply" /\ work # Idle /\ loaded' = loaded
        /\ active' = active /\ boundFor' = boundFor /\ behind' = behind \ {"remap"}
    BY <1>8 DEF ApplyInputRemap, Idle
  <2>2. boundFor = active /\ "device" \notin behind => TableWired
    BY <2>1 DEF CurrentInv
  <2>3. boundFor = active /\ "device" \notin behind => TableWired' /\ BitsCurrent'
    BY <1>8, <2>2, ApplyStep
  <2>4. work' = Idle \/ (work'.at = "dropRemap" /\ work'.in = work.in)
    BY <1>1, <1>8 DEF ApplyInputRemap, Places
  <2> QED BY <2>1, <2>3, <2>4 DEF CurrentInv, Idle
<1>9. CASE DropRemapFlag \/ DropDeviceFlag
  <2>1. /\ active' = active /\ connected' = connected /\ table' = table
        /\ inputRemap' = inputRemap /\ boundFor' = boundFor /\ behind' = behind
        /\ bindings' = bindings
        /\ work.at \in {"dropRemap", "dropDevice"} /\ work # Idle
    BY <1>9 DEF DropRemapFlag, DropDeviceFlag, registry, engine, history, Idle
  <2>2. work' = Idle \/ (work'.at = "dropDevice" /\ work'.in = work.in /\ loaded' = loaded)
    BY <1>1, <1>9 DEF DropRemapFlag, DropDeviceFlag, Places
  <2>3. work.in = "boot" => ~loaded
    BY DEF CurrentInv
  <2> QED BY <2>1, <2>2, <2>3, KeepsCurrent DEF Idle
<1>10. CASE \E s \in Systems : StageSystem(s)
  <2>1. /\ active' = active /\ boundFor' = boundFor /\ table' = table
        /\ connected' = connected /\ bindings' = bindings /\ behind' = behind
        /\ inputRemap' = inputRemap /\ work' = work /\ loaded' = loaded
    BY <1>10 DEF StageSystem, registry, engine, history
  <2>2. work.in = "boot" => ~loaded
    BY DEF CurrentInv
  <2> QED BY <2>1, <2>2, KeepsCurrent
<1>11. CASE LoadRom
  <2>1. /\ active' = staged /\ connected' = connected /\ ~loaded'
        /\ bindings' = ResolveBindings(staged) /\ work' = [in |-> "boot", at |-> "bind"]
    BY <1>11 DEF LoadRom, registry
  <2>2. \A s : ResolveBindings(s)' = ResolveBindings(s)
    BY <2>1 DEF ResolveBindings, BoundAt, FirstLogical, Logicals, Effective
  <2> QED BY <2>1, <2>2 DEF CurrentInv
<1>12. CASE BootFails
  <2>1. ~loaded' /\ work' = Idle
    BY <1>12 DEF BootFails, CurrentInv
  <2> QED BY <2>1 DEF CurrentInv, Idle
<1>13. CASE Reset
  <2>1. ~loaded' /\ work' = Idle
    BY <1>13 DEF Reset, MayWork
  <2> QED BY <2>1 DEF CurrentInv, Idle
<1> QED BY <1>2, <1>3, <1>4, <1>5, <1>6, <1>7, <1>8, <1>9, <1>10, <1>11, <1>12, <1>13
        DEF Next, Loop

LEMMA LockStep ==
  ASSUME TypedInv, LockInv, [Next]_vars
  PROVE  LockInv'
<1> USE DEF LockInv, Idle
<1>1. work \in Places /\ behind \subseteq {"device", "remap"}
  BY DEF TypedInv, TypeOK, Places
<1>2. CASE UNCHANGED vars
  BY <1>2 DEF vars, flags, bridge, history
<1>3. CASE Bridge
  BY <1>3 DEF Bridge, ConnectDevice, SetInputMapping, ResetInputMapping, RaiseFlag,
              MayCall, flags, history
<1>4. CASE TakeDeviceFlag
  BY <1>4 DEF TakeDeviceFlag, MayWork, bridge, history
<1>5. CASE TakeRemapFlag
  BY <1>5 DEF TakeRemapFlag, bridge, history
<1>6. CASE Resolve
  <2>1. work'.at = "bind" /\ work'.in = work.in
    BY <1>1, <1>6 DEF Resolve, Places
  <2> QED BY <1>6, <2>1 DEF Resolve, bridge, flags
<1>7. CASE BindPorts
  <2>1. work'.at = "apply" /\ work'.in = work.in
    BY <1>1, <1>7 DEF BindPorts, Places
  <2> QED BY <1>7, <2>1 DEF BindPorts, bridge, history, flags
<1>8. CASE ApplyInputRemap
  BY <1>8 DEF ApplyInputRemap, bridge, flags
<1>9. CASE DropRemapFlag \/ DropDeviceFlag
  <2>1. /\ work.at \in {"dropRemap", "dropDevice"} /\ work # Idle
        /\ behind' = behind /\ locked' = locked /\ call' = call
    BY <1>9 DEF DropRemapFlag, DropDeviceFlag, bridge, history
  <2>2. locked => call = "idle" /\ "device" \notin behind /\ "remap" \notin behind
    BY <2>1
  <2> QED BY <2>1, <2>2
<1>10. CASE \E s \in Systems : StageSystem(s)
  BY <1>10 DEF StageSystem, bridge, flags, history
<1>11. CASE LoadRom
  BY <1>11 DEF LoadRom, MayWork, bridge, flags
<1>12. CASE BootFails
  BY <1>12 DEF BootFails, bridge, flags, history
<1>13. CASE Reset
  BY <1>13 DEF Reset, MayWork, bridge
<1> QED BY <1>2, <1>3, <1>4, <1>5, <1>6, <1>7, <1>8, <1>9, <1>10, <1>11, <1>12, <1>13
        DEF Next, Loop

\* The table of a settled game that is not behind is the one the registry
\* describes.
LEMMA SettledTable ==
  ASSUME CurrentInv, Settled, boundFor = active, behind = {}
  PROVE  TableWired /\ AsRegistered
<1>1. TableWired /\ BitsCurrent
  BY DEF Settled, CurrentInv, Idle
<1>2. ASSUME NEW e \in table
      PROVE  \E w \in Wired(active) :
               <<e.node, e.port, e.bit>> = <<w[1], w[2], ReadAs(active, w[2], w[1][3])>>
  <2> DEFINE w == <<e.node, e.port>>
  <2>1. w \in Wired(active) /\ e.bit = ReadAs(active, e.port, e.node[3])
    BY <1>1 DEF TableWired, BitsCurrent
  <2> QED BY <2>1
<1>3. ASSUME NEW w \in Wired(active)
      PROVE  \E e \in table :
               <<e.node, e.port, e.bit>> = <<w[1], w[2], ReadAs(active, w[2], w[1][3])>>
  <2>1. PICK e \in table : e.node = w[1] /\ e.port = w[2]
    BY <1>1 DEF TableWired
  <2>2. e.bit = ReadAs(active, e.port, e.name) /\ e.name = e.node[3]
    BY <1>1 DEF TableWired, BitsCurrent
  <2> QED BY <2>1, <2>2
<1> QED BY <1>1, <1>2, <1>3 DEF AsRegistered

\* In both builds and whatever is staged over a running game, a settled game
\* reads the buttons of the devices that are registered, numbered and remapped
\* as the registrations say, unless it was last bound while another system was
\* staged or, without the lock, a change was missed.  With the lock none is.
THEOREM SettledIsCurrent == Spec => []TableCurrent
<1>1. TypedInv /\ CurrentInv /\ LockInv => TableCurrent
  <2> SUFFICES ASSUME TypedInv, CurrentInv, LockInv, Settled, boundFor = active,
                      locked \/ ~Missed
               PROVE  AsRegistered
    BY DEF TableCurrent
  <2>1. work.at = "idle" /\ call = "idle" /\ ~deviceDirty /\ ~inputRemapDirty
    BY DEF Settled, Idle
  <2>2. locked => "device" \notin behind /\ "remap" \notin behind
    BY <2>1 DEF LockInv
  <2>3. behind = {}
    BY <2>2 DEF Missed, TypedInv, TypeOK
  <2> QED BY <2>3, SettledTable
<1>2. TypedInv /\ BoundInv /\ [Next]_vars => BoundInv'
  BY BoundStep
<1>3. TypedInv /\ BoundInv /\ CurrentInv /\ [Next]_vars => CurrentInv'
  BY CurrentStep
<1>4. TypedInv /\ LockInv /\ [Next]_vars => LockInv'
  BY LockStep
<1> QED BY <1>1, <1>2, <1>3, <1>4, TypedInit, TypedStep, BoundInit, CurrentInit, PTL
        DEF Spec

\* The four loops that number logical ports agree on every registration, for
\* every catalog, and the players the caller is told to have buttons are those
\* the settled game reads.
THEOREM NumberingsAgree == Spec => []DescriptorsAgree
<1>1. TypedInv /\ CurrentInv => DescriptorsAgree
  <2> SUFFICES ASSUME TypedInv, CurrentInv, staged \in Systems, Catalog[staged].ports # 0
               PROVE  DescriptorsAgree
    BY DEF DescriptorsAgree, TypedInv, TypeOK
  <2>1. connected \in [Physical -> Devices]
    BY DEF TypedInv, TypeOK
  <2>2. ASSUME Settled, staged = active, boundFor = active, ~Missed
        PROVE  {e.port : e \in table} =
                 {j.port : j \in {k \in PortsJson(staged) : DOMAIN k.buttons # {}}}
    <3>1. TableWired
      BY <2>2, SettledTable DEF Missed
    <3>2. ASSUME NEW e \in table
          PROVE  \E j \in PortsJson(staged) : DOMAIN j.buttons # {} /\ j.port = e.port
      <4>1. <<e.node, e.port>> \in Wired(staged)
        BY <2>2, <3>1 DEF TableWired
      <4>2. PICK p \in Physical : \E m \in Logicals(staged, p) :
              <<e.node, e.port>> \in WiredAt(staged, p, m)
        BY <4>1 DEF Wired
      <4> PICK l \in Logicals(staged, p) : <<e.node, e.port>> \in WiredAt(staged, p, l)
        BY <4>2
      <4>3. e.port = l /\ HasDescriptor(staged, l) /\ DOMAIN Descriptor(staged, l) # {}
        BY <4>2 DEF WiredAt
      <4>4. PICK j \in ListedAt(staged, p) : j.port = l
        BY <2>1, ListedPorts
      <4>5. j.buttons = Descriptor(staged, l) /\ j \in PortsJson(staged)
        BY <2>1, <4>3, <4>4, ListedPorts DEF PortsJson
      <4> QED BY <4>3, <4>4, <4>5
    <3>3. ASSUME NEW j \in PortsJson(staged), DOMAIN j.buttons # {}
          PROVE  \E e \in table : e.port = j.port
      <4>1. PICK p \in Physical : j \in ListedAt(staged, p)
        BY DEF PortsJson
      <4>2. /\ j.port \in Logicals(staged, p) /\ HasDescriptor(staged, j.port)
            /\ j.buttons = Descriptor(staged, j.port)
        BY <2>1, <3>3, <4>1, ListedPorts
      <4>3. WiredAt(staged, p, j.port) # {}
        BY <3>3, <4>2 DEF WiredAt
      <4>4. PICK w : w \in WiredAt(staged, p, j.port)
        BY <4>3
      <4>5. w[2] = j.port /\ w \in Wired(active)
        BY <2>2, <4>2, <4>4 DEF WiredAt, Wired
      <4> QED BY <3>1, <4>5 DEF TableWired
    <3> QED BY <3>2, <3>3
  <2> QED BY <2>1, <2>2, LoopsAgree DEF DescriptorsAgree
<1>2. TypedInv /\ BoundInv /\ [Next]_vars => BoundInv'
  BY BoundStep
<1>3. TypedInv /\ BoundInv /\ CurrentInv /\ [Next]_vars => CurrentInv'
  BY CurrentStep
<1> QED BY <1>1, <1>2, <1>3, TypedInit, TypedStep, BoundInit, CurrentInit, PTL DEF Spec

=============================================================================
