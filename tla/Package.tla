-------------------------------- MODULE Package --------------------------------
(* What the package asks a project for: the console BIOSes its machine starts  *)
(* from, one of a BIOS's forms where it has several, and the settings ares     *)
(* has on the machine. gen-machines and gen-config write it, on one computer   *)
(* after another, each with the BIOS files its owner has; a project answers,   *)
(* and the guest writes the answers back into the machine.                     *)
EXTENDS Integers, Sequences, FiniteSets, SequencesExt, Lists

CONSTANTS
    Bioses,         \* the BIOSes, in the order machines.json first asks for them
    Asks,           \* a machine's BIOSes, by the machine
    Forms,          \* a BIOS's forms (a region's, a card), by the BIOS
    Plain,          \* a BIOS without a form: the file gen-machines builds with
    FileName,       \* what the file of a BIOS and a form is called
    Dumps,          \* the BIOS files one computer has or another, as <<BIOS, form>>
    Offers,         \* what ares lets be set on a machine: [name, path, options], the
                    \* first of the options being what it is
    Ident,          \* a setting's name as an identifier
    Refused

VARIABLES
    built,          \* the machines machines.json says were built
    offered,        \* the machines the package offers
    firmware,       \* the BIOSes it asks for, one entry after another
    choices,        \* the settings that choose a form, by the BIOS; <<>> where there is none
    settings,       \* what is written of ares' settings: the package's and the guest's
    project,        \* a machine, and the values it has for setting keys
    nodes           \* the setting nodes of the machine that runs; <<>> where none does

\* A machine starts from BIOSes of the list. A form is no other form, nor is its
\* file called as another's: FIRMWARE_VARIANTS is written so (gen-config).
ASSUME BiosesAssumption ==
    /\ IsList(Bioses) /\ IsInjective(Bioses)
    /\ \A c \in DOMAIN Asks : Asks[c] \subseteq Range(Bioses)
    /\ \A id \in Range(Bioses) :
          /\ IsList(Forms[id]) /\ IsInjective(Forms[id]) /\ Plain \notin Range(Forms[id])
          /\ \A f, g \in Range(Forms[id]) : FileName[id][f] = FileName[id][g] => f = g

\* ares calls no two settings of a machine alike, and lists what each is among
\* what it may be.
ASSUME OffersAssumption ==
    \A c \in DOMAIN Asks :
        /\ \A s \in Range(Offers[c]) : IsList(s.options) /\ s.options # <<>>
        /\ \A s, t \in Range(Offers[c]) : Ident[s.name] = Ident[t.name] => s = t

packageVars == <<built, offered, firmware, choices, settings, project, nodes>>

Consoles == DOMAIN Asks
WhoAsk(id) == {c \in Consoles : id \in Asks[c]}

\* The condition of an entry that is asked for whatever form is chosen.
Always == Plain

-----------------------------------------------------------------------------
\* gen-machines: a machine is built where every BIOS it starts from is at hand.
BuiltWith(files) == {c \in Consoles : \A id \in Asks[c] : <<id, Plain>> \in files}

\* A mutant of Known: an entry is known again by its BIOS alone.
KnownById(already, id, name) == Only(already, {e \in Range(already) : e.id = id})

\* What the package already asked for under a name: the last such entry.
Known(already, id, name) ==
    LET same == Only(already, {e \in Range(already) : e.id = id /\ e.name = name})
    IN  IF same = <<>> THEN <<>> ELSE <<Last(same)>>

\* declare(): the entry of a file at hand, or the one there was, or none. It
\* is asked for on every machine that wants the BIOS, when a form is chosen or
\* whatever is.
Declared(already, files, id, form, is) ==
    IF <<id, form>> \in files
    THEN <<[id |-> id, name |-> FileName[id][form], on |-> WhoAsk(id), is |-> is]>>
    ELSE Known(already, id, FileName[id][form])

\* Where one form is at hand there is nothing to choose.
Condition(files, id, form) ==
    IF Cardinality({f \in Range(Forms[id]) : <<id, f>> \in files}) > 1 THEN form ELSE Always

DeclaredForms(already, files, id) ==
    FlattenSeq([k \in 1 .. Len(Forms[id]) |->
        Declared(already, files, id, Forms[id][k], Condition(files, id, Forms[id][k]))])

\* A mutant of Unprovided: a BIOS nobody has is left out without a word.
UnprovidedQuietly(id) == FALSE

\* A BIOS that a machine was built with, that is not at hand and was not asked for yet.
Unprovided(id) == WhoAsk(id) \intersect built # {}

\* A BIOS' entries: its forms', or the plain file's where there are none.
Entries(already, files, id) ==
    LET forms == DeclaredForms(already, files, id)
    IN  IF forms # <<>> THEN forms ELSE Declared(already, files, id, Plain, Always)

\* render_firmware: every BIOS' entries in turn, or nothing is written at all;
\* what the package asks for already is asked for as it was where no file is at hand.
RenderFirmware(already, files) ==
    LET entries == [k \in 1 .. Len(Bioses) |-> Entries(already, files, Bioses[k])]
    IN  IF \E k \in 1 .. Len(Bioses) : entries[k] = <<>> /\ Unprovided(Bioses[k]) THEN Refused
        ELSE FlattenSeq(entries)

\* firmware_variant_settings: the forms asked for conditionally, in their own
\* order, if there are two or more.
VariantSettings(entries) ==
    [id \in Range(Bioses) |->
        LET asked == Only(Forms[id], {f \in Range(Forms[id]) : \E e \in Range(entries) : e.id = id /\ e.is = f})
        IN  IF Len(asked) < 2 THEN <<>> ELSE asked]

\* A mutant of SettingKey: a setting is known by its own name.
SettingKeyOfName(c, name) == <<Ident[name]>>

\* setting_key: a setting of one machine is no other machine's.
SettingKey(c, name) == <<c, Ident[name]>>

\* What the package shows and what the guest's table says, of the machines built.
AresSettings ==
    UNION {{[on |-> c, key |-> SettingKey(c, s.name), path |-> s.path, options |-> s.options] :
               s \in Range(Offers[c])} : c \in built}

-----------------------------------------------------------------------------
\* gen-machines, on a computer with some of the files.
DescribeMachines(files) ==
    /\ built' = BuiltWith(files)
    /\ nodes' = <<>>
    /\ UNCHANGED <<offered, firmware, choices, settings, project>>

\* gen-config, on this computer or another: all it writes or nothing.
GenerateConfig(files) ==
    /\ RenderFirmware(firmware, files) # Refused
    /\ firmware' = RenderFirmware(firmware, files)
    /\ choices' = VariantSettings(firmware')
    /\ offered' = built
    /\ settings' = AresSettings
    /\ nodes' = <<>>
    /\ UNCHANGED <<built, project>>

\* A project is given another machine, and keeps the values it has.
ChooseMachine(c) ==
    /\ c \in offered
    /\ project' = [project EXCEPT !.machine = c]
    /\ nodes' = <<>>
    /\ UNCHANGED <<built, offered, firmware, choices, settings>>

\* A setting the package shows on the machine is given a value it offers.
SetSetting(s, value) ==
    /\ s \in settings /\ s.on = project.machine
    /\ value \in Range(s.options)
    /\ project' = [project EXCEPT !.values = {v \in @ : v.key # s.key} \union {[key |-> s.key, value |-> value]}]
    /\ nodes' = <<>>
    /\ UNCHANGED <<built, offered, firmware, choices, settings>>

\* Init, then applySettings: every setting of the machine's table of which the
\* project says a value is written to its node, and the rest stay as ares has them.
ApplySettings ==
    /\ project.machine \in offered
    /\ nodes' = [s \in {t \in settings : t.on = project.machine} |->
                    IF \E v \in project.values : v.key = s.key
                    THEN (CHOOSE v \in project.values : v.key = s.key).value
                    ELSE Head(s.options)]
    /\ UNCHANGED <<built, offered, firmware, choices, settings, project>>

PackageInit ==
    /\ \E files \in Dumps : built = BuiltWith(files)
    /\ offered = {}
    /\ firmware = <<>>
    /\ choices = [id \in Range(Bioses) |-> <<>>]
    /\ settings = {}
    /\ project = [machine |-> Refused, values |-> {}]
    /\ nodes = <<>>

PackageNext ==
    \/ \E files \in Dumps : DescribeMachines(files) \/ GenerateConfig(files)
    \/ \E c \in offered : ChooseMachine(c)
    \/ \E s \in settings : \E value \in Range(s.options) : SetSetting(s, value)
    \/ ApplySettings

PackageSpec == PackageInit /\ [][PackageNext]_packageVars

-----------------------------------------------------------------------------
\* The forms of a BIOS a project may choose.
Choosable(id) == IF choices[id] = <<>> THEN {Always} ELSE Range(choices[id])

\* Every variable has its type.
PackageTypeOK ==
    /\ offered \subseteq Consoles /\ built \subseteq Consoles
    /\ \A e \in Range(firmware) : e.id \in Range(Bioses) /\ e.is \in {Always} \union Range(Forms[e.id])
    /\ \A id \in Range(Bioses) : Len(choices[id]) # 1 /\ Range(choices[id]) \subseteq Range(Forms[id])
    /\ project.machine \in Consoles \union {Refused}

\* No machine is offered that asks for nothing where it starts from a BIOS,
\* whatever form is chosen and whoever generated the package with what: "asking
\* for nothing and failing to load with nothing to say about it".
NoneAsksForNothing ==
    \A c \in offered : \A id \in Asks[c] : \A f \in Choosable(id) :
        \E k \in 1 .. Len(firmware) :
            firmware[k].id = id /\ c \in firmware[k].on /\ firmware[k].is \in {Always, f}

\* A runner without a BIOS, the one that holds the package against what is
\* committed, finds what any computer generated: a file not at hand is neither
\* forgotten nor asked for otherwise, in whatever order the computers came.
RunnersFindTheSame ==
    built = offered =>
        /\ RenderFirmware(firmware, {}) = firmware
        /\ VariantSettings(RenderFirmware(firmware, {})) = choices

\* "A name that could mean two things is a name that will one day mean the
\* wrong one": a machine's nodes hold only values that are offered there, and
\* a value given on one machine is found again there alone.
NodesHoldTheirOwn == \A s \in DOMAIN nodes : nodes[s] \in Range(s.options)

\* "Variants are separate entries with the SAME id and disjoint conditions":
\* a project is asked for one file of each BIOS and no other.
FormsAreDisjoint ==
    \A c \in offered : \A id \in Asks[c] : \A f \in Choosable(id) :
        Cardinality({k \in 1 .. Len(firmware) :
            firmware[k].id = id /\ c \in firmware[k].on /\ firmware[k].is \in {Always, f}}) = 1
=============================================================================
