------------------------------- MODULE Memories -------------------------------
(* The machine's memory as a memory tool and the gate's digest see it. A       *)
(* Nintendo 64 publishes it twice: as blocks, ares' own storage with the bytes *)
(* of each word in the host's order, and as the buses ares' debugger gives     *)
(* every machine, which read the console's order.                              *)
EXTENDS Integers, Sequences, SequencesExt, Lists

CONSTANTS
    Machines,       \* n64, the blocks and the buses ares has, in its order
    StoreSize,      \* the bytes of each store; 0 where a cartridge has none
    Octets,         \* the bytes told apart
    WordSize,       \* the bytes of a word (4)
    MaxDomains,     \* the blocks there is room for (8)
    MaxChunk,       \* the bytes one ReadBus hands out (64 KiB)
    Nowhere         \* a pointer that is null

ASSUME SizesAssumption ==
    /\ MaxDomains \in Nat \ {0} /\ MaxChunk \in Nat
    /\ Octets # {} /\ \A s \in DOMAIN StoreSize : StoreSize[s] \in Nat

\* Every memory is listed once among the blocks and once among the buses.
Apart(memories) ==
    /\ IsList(memories)
    /\ \A i, j \in 1 .. Len(memories) :
          memories[i].name = memories[j].name \/ memories[i].store = memories[j].store => i = j

\* "Only the Nintendo 64 publishes blocks", and "every Nintendo 64 block has a
\* bus: the same name, or the cartridge's memories as Cartridge SRAM", and so on;
\* RDRAM is there always.
ASSUME MachinesAssumption ==
    \A m \in Machines :
       /\ Apart(m.blocks) /\ Apart(m.buses)
       /\ \A b \in Range(m.blocks) \union Range(m.buses) : b.store \in DOMAIN StoreSize
       /\ ~m.n64 => m.blocks = <<>>
       /\ m.n64 =>
             /\ m.blocks # <<>> /\ StoreSize[m.blocks[1].store] > 0
             /\ \A d \in Range(m.blocks) : StoreSize[d.store] > 0 =>
                   /\ \E b \in Range(m.buses) : b.store = d.store
                   /\ \A b \in Range(m.buses) :
                         b.store = d.store <=> b.name = d.name \/ b.name = "Cartridge " \o d.name

VARIABLES
    made,           \* the machine
    g_domains,      \* the blocks it publishes
    g_buses,        \* and the buses
    stores,         \* every store's bytes, in the order they lie in
    s_busChunk,     \* ReadBus' buffer, which no state carries
    answer          \* what the last ReadBus gave: which bytes, and the bus then,
                    \* or Nowhere

memoriesVars == <<made, g_domains, g_buses, stores, s_busChunk, answer>>

-----------------------------------------------------------------------------
\* A block without a store is not published, and there is room for so many.
Publish(blocks) ==
    LET stored == Only(blocks, {b \in Range(blocks) : StoreSize[b.store] > 0})
    IN  SubSeq(stored, 1, Min({MaxDomains, Len(stored)}))

\* A mutant of PublishDomains: the cartridge's blocks are left out.
PublishDomainsOfConsole(m) ==
    IF m.n64 THEN Publish(Only(m.blocks, {b \in Range(m.blocks) : b.name \notin {"SRAM", "Flash"}})) ELSE <<>>

\* Only a Nintendo 64's memory is blocks.
PublishDomains(m) == IF m.n64 THEN Publish(m.blocks) ELSE <<>>

\* A mutant of SameMemory: the cartridge's memories are not known again.
SameName(bus, domain) == bus.name = domain.name

\* The bus and the block of one memory: one name, but for the cartridge's.
SameMemory(bus, domain) == bus.name = domain.name \/ bus.name = "Cartridge " \o domain.name

\* The place of a bus by the first block that is the same memory.
Rank(domains, bus) ==
    LET same == {i \in 1 .. Len(domains) : SameMemory(bus, domains[i])}
    IN  IF same = {} THEN Len(domains) + 1 ELSE CHOOSE i \in same : \A j \in same : i <= j

\* The buses in the order of the blocks, those of no block after them, each
\* rank's in ares' own order.
PublishBuses(m, domains) ==
    FlattenSeq([r \in 1 .. Len(domains) + 1 |->
                  Only(m.buses, {b \in Range(m.buses) : Rank(domains, b) = r})])

MemoriesInit ==
    /\ made \in Machines
    /\ g_domains = PublishDomains(made)
    /\ g_buses = PublishBuses(made, g_domains)
    /\ stores = [s \in DOMAIN StoreSize |-> [i \in 1 .. StoreSize[s] |-> CHOOSE b \in Octets : TRUE]]
    /\ s_busChunk = <<>>
    /\ answer = Nowhere

-----------------------------------------------------------------------------
\* Where the byte at an address of a bus lies in the store.
Place(address) == (address \div WordSize) * WordSize + (WordSize - 1 - (address % WordSize)) + 1

HasBus(bus) == bus \in 1 .. Len(g_buses)
BusSize(bus) == StoreSize[g_buses[bus].store]

\* PeekBus: a byte in the console's order, 0 for a bus there is not.
PeekBus(bus, address) == IF HasBus(bus) THEN stores[g_buses[bus].store][Place(address)] ELSE 0

PokeBus(bus, address, value) ==
    /\ stores' = IF HasBus(bus) THEN [stores EXCEPT ![g_buses[bus].store][Place(address)] = value] ELSE stores
    /\ UNCHANGED <<made, g_domains, g_buses, s_busChunk, answer>>

\* A mutant of Piece: the last bytes asked for are the buffer's, not the bus's.
PieceOfWords(bus, address, len) ==
    [k \in 1 .. len |-> IF k > (len \div WordSize) * WordSize /\ k <= Len(s_busChunk) THEN s_busChunk[k]
                        ELSE PeekBus(bus, address + k - 1)]

\* The bytes of a bus from an address on, as busRead puts them into the buffer.
Piece(bus, address, len) == [k \in 1 .. len |-> PeekBus(bus, address + k - 1)]

\* ReadBus: a piece of a bus, of so much at the most, or nothing.
ReadBus(bus, address, len) ==
    /\ IF len <= 0 \/ len > MaxChunk \/ ~HasBus(bus)
       THEN answer' = Nowhere /\ UNCHANGED s_busChunk
       ELSE /\ s_busChunk' = Piece(bus, address, len) \o SubSeq(s_busChunk, len + 1, Len(s_busChunk))
            /\ answer' = [bus |-> bus, address |-> address, len |-> len, of |-> stores[g_buses[bus].store]]
    /\ UNCHANGED <<made, g_domains, g_buses, stores>>

\* The game writes to its memory.
RunFrame(store, place, value) ==
    /\ stores' = [stores EXCEPT ![store][place] = value]
    /\ UNCHANGED <<made, g_domains, g_buses, s_busChunk, answer>>

MemoriesNext ==
    \/ \E bus \in 1 .. Len(g_buses) + 1 : \E a \in 0 .. (IF HasBus(bus) THEN BusSize(bus) - 1 ELSE 0) :
          \/ \E v \in Octets : PokeBus(bus, a, v)
          \/ \E len \in 0 .. (IF HasBus(bus) THEN BusSize(bus) - a ELSE 1) : ReadBus(bus, a, len)
    \/ \E s \in DOMAIN StoreSize : \E p \in 1 .. StoreSize[s], v \in Octets : RunFrame(s, p, v)

MemoriesSpec == MemoriesInit /\ [][MemoriesNext]_memoriesVars

-----------------------------------------------------------------------------
\* GetMemoryDomainHidden: a block that has a bus.
Hidden(i) == \E b \in 1 .. Len(g_buses) : SameMemory(g_buses[b], g_domains[i])

\* The memories a tool lists: the blocks not hidden, then the buses.
Listed == Only(g_domains, {g_domains[i] : i \in {j \in 1 .. Len(g_domains) : ~Hidden(j)}}) \o g_buses

\* What gate_memory_digest goes through: the blocks, or else the buses.
Digested == IF Len(g_domains) > 0 THEN Range(g_domains) ELSE Range(g_buses)

MemoriesTypeOK ==
    /\ made \in Machines
    /\ Len(g_domains) <= MaxDomains /\ Range(g_buses) = Range(made.buses)
    /\ \A s \in DOMAIN StoreSize : stores[s] \in [1 .. StoreSize[s] -> Octets]
    /\ IsList(s_busChunk) /\ Len(s_busChunk) <= MaxChunk

\* A memory tool is shown every memory under one name, and a Nintendo 64's
\* RDRAM first: "one memory, two orders" are never both in the list.
ListedOnce ==
    /\ \A i, j \in 1 .. Len(Listed) : Listed[i].name = Listed[j].name \/ Listed[i].store = Listed[j].store => i = j
    /\ made.n64 => Listed[1].store = made.blocks[1].store

\* What ReadBus handed out is, byte for byte, what PeekBus would have given
\* then, whatever an earlier piece left in the buffer and the game wrote since.
ReadIsPeek ==
    answer # Nowhere =>
        \A k \in 1 .. answer.len : s_busChunk[k] = answer.of[Place(answer.address + k - 1)]

\* What gate_check_memories asks of a machine (chimera#288), at any moment.
MemoriesAgree == ListedOnce /\ ReadIsPeek

\* Every memory the machine has is in the digest two runs are compared by, so
\* none can differ between them unseen.
NothingIsLeftOut ==
    \A b \in Range(made.blocks) \union Range(made.buses) :
        StoreSize[b.store] > 0 => \E d \in Digested : d.store = b.store
=============================================================================
