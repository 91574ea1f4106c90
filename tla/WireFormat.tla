------------------------------ MODULE WireFormat ------------------------------
(* What a movie's numbers mean. gen-machines asks ares what a machine is made  *)
(* of, gen-config turns that into the table the guest binds its inputs by, the *)
(* gate holds both against the ares of the day, and bindInputs looks the paths *)
(* up in the machine it has just put together. ares, the developer, the gate   *)
(* and a movie each go their own way here, in any order.                       *)
EXTENDS Lists, FiniteSets, SequencesExt

CONSTANTS
    Specs,          \* the machines of machines.h, each with the trees ares may build for it
    Spelt,          \* how a name with a '#' or a '|' in it, a log key's signs, is spelt
    Split,          \* what a name with a '/' in it, a path's sign, is in parts
    Prefix,         \* a port's short name ("Controller Port 2" is P2)
    Keyboard,       \* the port that is a machine's own keyboard
    DefaultKeys,    \* the key of a control that has one, by the control's name
    DefaultAxes,    \* the axes a game controller's stick is bound to, by name
    MaxPorts        \* the ports a project numbers (8)

-----------------------------------------------------------------------------
\* A mutant of WireSafe: a control keeps the name it has.
AsNamed(name) == name

\* The signs a movie's log key is written with are spelt out.
WireSafe(name) == IF name \in DOMAIN Spelt THEN Spelt[name] ELSE name

\* What a name is in a path, which is one string with a '/' between its nodes:
\* one part, or as many as its own '/' signs make of it.
Parted(name) == IF name \in DOMAIN Split THEN Split[name] ELSE <<name>>

\* What is told apart by its name, as ares' paths and a log key tell it.
NamedApart(s) == \A i, j \in DOMAIN s : s[i].name = s[j].name => i = j
Controls(s) == IsList(s) /\ NamedApart(s) /\ \A i \in Range(s) : i.axis \in BOOLEAN
SpeltApart(s) == \A i, j \in Range(s) : WireSafe(i.name) = WireSafe(j.name) => i.name = j.name

\* A tree's siblings have names of their own.
ASSUME TreesAssumption ==
    \A s \in Specs : /\ IsList(s.devices) /\ IsInjective(s.devices)
                    /\ IsList(s.order) /\ IsInjective(s.order)
                    /\ s.tape \in BOOLEAN
                    /\ \A t \in s.trees :
                          /\ Controls(t.console)
                          /\ IsList(t.ports) /\ NamedApart(t.ports)
                          /\ \A p \in Range(t.ports) :
                                /\ IsList(p.supported) /\ IsInjective(p.supported)
                                /\ \A d \in Range(p.supported) : Controls(t.inputs[d])

\* What is between two '/' signs has none, and only one name is made of the same
\* parts. Ports and devices have names of one part, and no port is called as the
\* console's controls are, or as the tape's transport.
ASSUME PartsAssumption ==
    /\ \A n \in DOMAIN Split :
          /\ IsList(Split[n]) /\ Len(Split[n]) > 1 /\ Range(Split[n]) \intersect DOMAIN Split = {}
          /\ \A m \in DOMAIN Split : Split[m] = Split[n] => m = n
    /\ \A s \in Specs : \A t \in s.trees : \A p \in Range(t.ports) :
          /\ p.name \notin DOMAIN Split \union {"Controls", "@tape"}
          /\ Range(p.supported) \intersect DOMAIN Split = {}

\* A port's short name is no other's, no spelling is another control's name or
\* has a sign in it, and no control is called as the tape's transport.
ASSUME NamesAssumption ==
    /\ \A n \in DOMAIN Spelt : Spelt[n] \notin DOMAIN Spelt /\ n \notin {"Tape Play", "Tape Stop"}
    /\ \A s \in Specs : \A t \in s.trees :
          /\ SpeltApart(t.console)
          /\ \A i \in Range(t.console) : WireSafe(i.name) \notin {"Tape Play", "Tape Stop"}
          /\ \A p, q \in {o \in Range(t.ports) : o.supported # <<>>} :
                /\ Prefix[p.name] = Prefix[q.name] => p = q
                /\ \A d \in Range(p.supported) : SpeltApart(t.inputs[d])

\* A machine played on a keyboard has that and nothing else.
ASSUME TypedAssumption ==
    \A s \in Specs : s.typed # {} =>
        /\ s.devices = <<>>
        /\ ({"play", "stop"} \union {Last(Split[n]) : n \in DOMAIN Split}) \intersect s.typed = {}
        /\ \A t \in s.trees :
              t.console = <<>> /\ \E p \in Range(t.ports) : {q \in Range(t.ports) : q.supported # <<>>} = {p}

\* What is known of a machine that was never described.
Unbuilt == [loads |-> FALSE]

VARIABLES
    spec,       \* the machine at hand
    ares,       \* the tree ares builds for it today
    json,       \* machines.json: ares' account of it, as committed
    inc,        \* machines.inc: the table, as committed
    verdict,    \* the gate's, on the account and the table as they are
    machine,    \* a machine put together from the table, or Unbuilt
    movie       \* what a movie was recorded on, or Unbuilt

vars == <<spec, ares, json, inc, verdict, machine, movie>>

-----------------------------------------------------------------------------
\* A control of a tree: the path that says where it is, by its parts, its name,
\* and its kind. The console's own come first; a device's are there while it is
\* connected.
Control(path, input) == [path |-> path \o Parted(input.name), name |-> input.name, axis |-> input.axis]

Walk(tree, plugged) ==
    [i \in 1 .. Len(tree.console) |-> Control(<<"Controls">>, tree.console[i])]
    \o FlattenSeq([k \in 1 .. Len(tree.ports) |->
           LET p == tree.ports[k] IN
           FlattenSeq([d \in 1 .. Len(p.supported) |->
               IF <<p.name, p.supported[d]>> \in plugged
               THEN [i \in 1 .. Len(tree.inputs[p.supported[d]]) |->
                        Control(<<p.name, p.supported[d]>>, tree.inputs[p.supported[d]][i])]
               ELSE <<>>])])

Paths(controls) == {controls[i].path : i \in 1 .. Len(controls)}

\* The devices of a port the core offers: what the spec asks for, in its own
\* order, of what ares supports there; or the port's first choice.
Offered(port) ==
    IF spec.devices = <<>> THEN <<Head(port.supported)>>
    ELSE Only(spec.devices, Range(port.supported))

\* What a device adds to the console, connected and alone.
Added(tree, port, device) ==
    LET controls == Walk(tree, {<<port.name, device>>})
    IN  Only(controls, {c \in Range(controls) : c.path \notin Paths(Walk(tree, {}))})

\* gen-machines: ares' account of the machine. A media slot supports nothing,
\* and a port none of whose devices are offered is not in the account.
Describe(tree) ==
    [console |-> Walk(tree, {}),
     ports |-> LET offering == {p \in Range(tree.ports) : p.supported # <<>> /\ Offered(p) # <<>>}
                   controllers == Only(tree.ports, offering)
               IN  [k \in 1 .. Len(controllers) |->
                      LET p == controllers[k] IN
                      [name |-> p.name,
                       devices |-> [d \in 1 .. Len(Offered(p)) |->
                          [name |-> Offered(p)[d], inputs |-> Added(tree, p, Offered(p)[d])]]]]]

\* It can be asked only where every BIOS the machine starts from is at hand.
Account(provided) == IF spec.firmware \subseteq provided THEN Describe(ares) ELSE Unbuilt

-----------------------------------------------------------------------------
\* A keyboard as it is printed, and after it the keys the list does not name.
InReadingOrder(inputs) ==
    FlattenSeq([k \in 1 .. Len(spec.order) |-> Only(inputs, {i \in Range(inputs) : i.name = spec.order[k]})])
    \o Only(inputs, {i \in Range(inputs) : i.name \notin Range(spec.order)})

\* A row of the table: the leaf is what is after the path's last '/'.
Row(prefix, c) ==
    [name |-> Append(prefix, WireSafe(c.name)), path |-> c.path, leaf |-> Last(c.path), axis |-> c.axis]

\* A port's rows, under its short name, and the device's when there are several.
PortRows(port) ==
    FlattenSeq([d \in 1 .. Len(port.devices) |->
        LET dev == port.devices[d]
            inputs == InReadingOrder(dev.inputs)
            prefix == IF Len(port.devices) > 1 THEN <<Prefix[port.name], dev.name>>
                                               ELSE <<Prefix[port.name]>>
        IN  [i \in 1 .. Len(inputs) |-> Row(prefix, inputs[i])]])

Transport == <<[name |-> <<"Tape Play">>, path |-> <<"@tape", "play">>, leaf |-> "play", axis |-> FALSE],
               [name |-> <<"Tape Stop">>, path |-> <<"@tape", "stop">>, leaf |-> "stop", axis |-> FALSE]>>

\* A mutant of Declare: a stick's axes are among the buttons.
DeclareMixed(account) ==
    LET rows == [i \in 1 .. Len(account.console) |-> Row(<<>>, account.console[i])]
                \o FlattenSeq([k \in 1 .. Len(account.ports) |-> PortRows(account.ports[k])])
                \o (IF spec.tape THEN Transport ELSE <<>>)
    IN  [buttons |-> rows, axes |-> Only(rows, {r \in Range(rows) : r.axis})]

\* The order that is the wire format: the console's, each port's, the tape's last.
Declare(account) ==
    LET rows == [i \in 1 .. Len(account.console) |-> Row(<<>>, account.console[i])]
                \o FlattenSeq([k \in 1 .. Len(account.ports) |-> PortRows(account.ports[k])])
                \o (IF spec.tape THEN Transport ELSE <<>>)
    IN  [buttons |-> Only(rows, {r \in Range(rows) : ~r.axis}),
         axes    |-> Only(rows, {r \in Range(rows) : r.axis})]

\* machines.inc: a machine that was not built has no table.
RenderInc(account) == IF account = Unbuilt THEN Unbuilt ELSE Declare(account)

\* The port a first player's keys belong to, by its short name.
FirstPort(account) ==
    LET numbered == Only(account.ports, {p \in Range(account.ports) : p.name # Keyboard})
    IN  Prefix[IF numbered # <<>> THEN Head(numbered).name ELSE Head(account.ports).name]

\* A mutant of Theirs: every player's pad is on the first one's keys.
Anybodys(account, row) == row.leaf \in DOMAIN DefaultKeys

\* Which buttons the default keys are for.
Theirs(account, row) ==
    /\ row.leaf \in DOMAIN DefaultKeys
    /\ account.ports # <<>> => row.name[1] = FirstPort(account)

\* default_keybinds.json, as the button at an index and its key: the first
\* button that wants a key has it. A machine that is a keyboard is typed on.
RenderKeybinds(account) ==
    LET buttons == Declare(account).buttons
        theirs  == {i \in 1 .. Len(buttons) : Theirs(account, buttons[i])}
        first   == {i \in theirs : \A j \in theirs : j < i => DefaultKeys[buttons[j].leaf] # DefaultKeys[buttons[i].leaf]}
        typed   == {i \in 1 .. Len(buttons) : buttons[i].leaf \in spec.typed}
    IN  IF spec.typed # {} THEN {<<i, buttons[i].leaf>> : i \in typed}
        ELSE {<<i, DefaultKeys[buttons[i].leaf]>> : i \in first}

\* The axes its stick drives, as the axis at an index and the name: the first
\* port's, or the console's where there are no ports.
RenderAxes(account) ==
    LET axes   == Declare(account).axes
        theirs == {i \in 1 .. Len(axes) :
                     /\ axes[i].leaf \in DefaultAxes
                     /\ account.ports # <<>> => axes[i].name[1] = FirstPort(account)}
    IN  IF spec.typed # {} THEN {}
        ELSE {<<i, axes[i].leaf>> :
                 i \in {k \in theirs : \A j \in theirs : j < k => axes[j].leaf # axes[k].leaf}}

-----------------------------------------------------------------------------
\* A mutant of CheckAgainst: only how much there is of a machine is compared.
CheckAgainstCounts(fresh) ==
    IF fresh = Unbuilt THEN "skipped"
    ELSE IF json # Unbuilt /\ Len(json.console) = Len(fresh.console)
            /\ Len(json.ports) = Len(fresh.ports) THEN "matches"
    ELSE "wrong"

\* Does what ares says now match what was committed? A machine whose BIOS the
\* run did not have is not looked at.
CheckAgainst(fresh) == IF fresh = Unbuilt THEN "skipped"
                       ELSE IF fresh = json THEN "matches" ELSE "wrong"

\* A newer ares: the machine's tree is another, or the same.
Update ==
    /\ ares' \in spec.trees
    /\ verdict' = "none"
    /\ machine' = Unbuilt
    /\ UNCHANGED <<spec, json, inc, movie>>

\* gen-machines and gen-config, run by hand with the BIOSes one has.
Regenerate(provided) ==
    /\ json' = Account(provided)
    /\ inc' = RenderInc(Account(provided))
    /\ verdict' = "none"
    /\ machine' = Unbuilt
    /\ UNCHANGED <<spec, ares, movie>>

\* The table edited where it lies: the first two buttons change places.
Edit ==
    /\ inc # Unbuilt /\ Len(inc.buttons) >= 2
    /\ inc' = [inc EXCEPT !.buttons[1] = inc.buttons[2], !.buttons[2] = inc.buttons[1]]
    /\ verdict' = "none"
    /\ machine' = Unbuilt
    /\ UNCHANGED <<spec, ares, json, movie>>

\* gen-config --check --against, as the gate runs it.
Check(provided) ==
    /\ verdict' = IF inc # RenderInc(json) THEN "wrong" ELSE CheckAgainst(Account(provided))
    /\ UNCHANGED <<spec, ares, json, inc, machine, movie>>

\* What may be in the ports of a machine that is built: the keyboard in its
\* own, in each that is numbered a device it supports or nothing.
Connected(tree) ==
    LET numbered == Only(tree.ports, {p \in Range(tree.ports) : p.supported # <<>> /\ p.name # Keyboard})
        at(n) == {k \in 1 .. Len(numbered) : k <= MaxPorts /\ numbered[k].name = n}
        devices(p) == IF p.name = Keyboard THEN {{<<p.name, Head(p.supported)>>}}
                      ELSE {{}} \union (IF at(p.name) = {} THEN {}
                                        ELSE {{<<p.name, d>>} : d \in Range(p.supported)})
        ports == {p \in Range(tree.ports) : p.supported # <<>>}
    IN  {UNION {f[p] : p \in ports} :
            f \in {g \in [ports -> UNION {devices(p) : p \in ports}] : \A p \in ports : g[p] \in devices(p)}}

\* A mutant of Find: a control is looked up by the leaf alone.
FindByName(controls, row) ==
    LET found == {i \in 1 .. Len(controls) : controls[i].name = row.leaf /\ controls[i].axis = row.axis}
    IN  IF row \in Range(Transport) THEN row.path
        ELSE IF found = {} THEN <<>>
        ELSE controls[CHOOSE i \in found : \A j \in found : i <= j].path

\* find() goes down from the root by one part of the path at a time, to a node
\* of the row's kind that has the last part for its name; or it finds none. A
\* node with a '/' in its name has no part for its name, and is never found. A
\* transport is no node.
Find(controls, row) ==
    IF \/ row \in Range(Transport)
       \/ \E i \in 1 .. Len(controls) : /\ controls[i].path = row.path /\ controls[i].axis = row.axis
                                        /\ controls[i].name \notin DOMAIN Split
    THEN row.path ELSE <<>>

\* bindInputs, once everything is connected: what each index drives. A machine
\* that has no table has no inputs.
BindInputs(plugged) ==
    LET controls == Walk(ares, plugged)
        bound(rows) == [i \in 1 .. Len(rows) |-> Find(controls, rows[i])]
    IN  IF inc = Unbuilt THEN [buttons |-> <<>>, axes |-> <<>>]
        ELSE [buttons |-> bound(inc.buttons), axes |-> bound(inc.axes)]

Assemble(plugged) ==
    /\ plugged \in Connected(ares)
    /\ machine' = [plugged |-> plugged, bound |-> BindInputs(plugged)]
    /\ UNCHANGED <<spec, ares, json, inc, verdict, movie>>

\* A movie is recorded on a package the gate passed with the machine built.
Record ==
    /\ machine # Unbuilt /\ verdict = "matches"
    /\ movie' = [inc |-> inc, machine |-> machine]
    /\ UNCHANGED <<spec, ares, json, inc, verdict, machine>>

Init ==
    /\ spec \in Specs
    /\ ares \in spec.trees
    /\ json = Describe(ares)
    /\ inc = RenderInc(json)
    /\ verdict = "none"
    /\ machine = Unbuilt
    /\ movie = Unbuilt

Next ==
    \/ Update
    \/ \E provided \in SUBSET spec.firmware : Regenerate(provided) \/ Check(provided)
    \/ Edit
    \/ \E plugged \in Connected(ares) : Assemble(plugged)
    \/ Record

Spec == Init /\ [][Next]_vars

-----------------------------------------------------------------------------
\* Every variable has its type.
TypeOK ==
    /\ spec \in Specs /\ ares \in spec.trees
    /\ json = Unbuilt \/ \E t \in spec.trees : json = Describe(t)
    /\ inc = Unbuilt \/ \A r \in Range(inc.buttons) : ~r.axis
    /\ verdict \in {"none", "matches", "skipped", "wrong"}
    /\ machine # Unbuilt => machine.plugged \subseteq UNION Connected(ares)

\* The devices the core offers in the ports of ares' tree.
OfferedIn(tree) ==
    UNION {{<<p.name, d>> : d \in Range(Offered(p))} : p \in {q \in Range(tree.ports) : q.supported # <<>>}}

\* On a package the gate has passed with the machine built, every control of
\* the console and of the devices offered is driven by exactly one index, of
\* its own kind: none is out of a player's reach and none answers to two. Only
\* a control with a '/' in its name, as three keys of an MSX have, has an index
\* that drives nothing: what find() is given is another's path, or nobody's.
EveryControlIsReached ==
    machine # Unbuilt /\ verdict = "matches" /\ machine.plugged \subseteq OfferedIn(ares) =>
        \A c \in Range(Walk(ares, machine.plugged)) :
            LET bound == IF c.axis THEN machine.bound.axes ELSE machine.bound.buttons
            IN  Cardinality({i \in 1 .. Len(bound) : bound[i] = c.path}) =
                    IF c.name \in DOMAIN Split THEN 0 ELSE 1

\* "A newer ares that renames or reorders a button cannot quietly renumber
\* somebody's movie": while the table is the one a movie was recorded by and
\* the gate, having built the machine, passes, every index drives on the same
\* devices what it drove in the recording.
NeverQuietlyRenumbered ==
    machine # Unbuilt /\ movie # Unbuilt /\ verdict = "matches"
    /\ inc = movie.inc /\ machine.plugged = movie.machine.plugged =>
        machine.bound = movie.machine.bound

\* A table the gate has passed names every control apart from every other, in
\* names a movie's log key can be read back from (wire_safe).
EveryNameCanBeCarried ==
    verdict = "matches" =>
        LET rows == inc.buttons \o inc.axes
        IN  \A i, j \in 1 .. Len(rows) :
                /\ rows[i].name = rows[j].name => i = j
                /\ rows[i].name[Len(rows[i].name)] \notin DOMAIN Spelt

\* "Only what a first player touches", and no key for two buttons, nor a stick
\* for two axes: a pad in another port never answers to the first one's.
KeysAreOnePlayers ==
    json # Unbuilt =>
        \A bound \in {<<RenderKeybinds(json), Declare(json).buttons>>, <<RenderAxes(json), Declare(json).axes>>} :
            LET binds == bound[1]
                rows  == bound[2]
            IN  /\ \A b, c \in binds : b[2] = c[2] => b = c
                /\ \A b \in binds : Len(rows[b[1]].name) > 1 => Prefix[rows[b[1]].path[1]] = FirstPort(json)

\* "A console's own buttons, and the first port's": a control of the console
\* that has a default key, and shares it with no other, is on it.
ConsoleHasItsKeys ==
    json # Unbuilt =>
        \A i \in 1 .. Len(Declare(json).buttons) :
            LET row == Declare(json).buttons[i] IN
            Len(row.name) = 1 /\ row.leaf \in DOMAIN DefaultKeys =>
                \E b \in RenderKeybinds(json) : b[2] = DefaultKeys[row.leaf] /\ b[1] <= i
=============================================================================
