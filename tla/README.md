# Dark Circuit in TLA+

Dark Circuit is a library of synchronous RTL (SystemVerilog) and the CPUs built
from it, with the software that runs on them and the server through which a
debugger reaches a simulated one. This directory models the parts in which
several actors meet: caches and what they are put together with, the mesh of
routers, the interrupt controller, the remote JTAG probe, and bare-metal
programs with the debugger that serves their I/O. TLC checks the models on small
instances; TLAPS proves, for every size, the safety of all of them: the
direct-mapped and the skewed cache, the cache arbiter, the atomic unit, the buffers,
the mesh, the interrupt controller, the remote probe and the bare-metal programs. No
invariant or action property that a passing run checks is left without a theorem.

Paths below are under `src/`. `cache/` is `src/rtl/lib/block/cache/`, `block/` is
`src/rtl/lib/block/`.

Contents: [Inventory](#inventory) · [How the models are made](#how-the-models-are-made)
· [Modules](#modules) · [Runs](#runs) · [Bounds](#bounds) · [Fairness](#fairness)
· [Findings](#findings) · [Proofs](#proofs) · [Not modelled](#not-modelled) · [Plan](#plan)

## Inventory

Nearly every block has a `behave` and a `struct` version with the same contract;
`src/kb/rtl/**/*.yaml` records why each is as it is, `DC_ASSERT` lines in the
source say what it relies on. Every block in the table is one clock domain; the
simulation and the software are sequential programs with an actor outside.

| Component | State | Operations | What is hard | What makes it correct | Module |
|---|---|---|---|---|---|
| `cache/cache_control`: control shared by three caches | request looked up or held, replay, miss served, uncached read served | take a request, hit, miss, refill, store through, atomic, no-cache and bypass access, answer | a request is taken while the refill or the store before it is being written; memory may stall for any time while the CPU changes its mind | requests look as if done in order, one answer per load, devices touched once | CacheControl |
| `cache/direct_cache` and its valid, tag, data RAMs | RAMs, their outputs, forwarding register | read with the request, refill, merge a store, drop a line, invalidate | read-first RAMs: what they show is one write old | a hit shows what memory has; no stale line | DirectCache |
| `cache/skewed_cache` | the same per way, `recent` bits, victim chosen | each way indexes a line its own way | "same set" means another line in each way | a line is in one way at most; no stale copy | SkewedCache |
| `cache/set_assoc_cache`, `cache/cache_replacement` | the same per way, LRU word per set | victim from an LRU word | the LRU word is read with the request and may be older than the last touch | as above, and the victim is the oldest | planned |
| `cache/insn_data_cache_arbiter` | a buffer per side, hold, last side, queue of owners | choose a side, hold, send, route the answer | priority, full queue and the other side change under a presented request; answers carry no side | answers to the side that asked, each side in order, request held, no starvation | InsnDataCacheArbiter |
| `block/atomic/atomic_unit` | IDLE/READ/WAIT/WRITE, operand, reads in flight | pass, take an atomic, read, modify, write | reads in flight when the atomic comes; counter up and down at once | atomics are atomic, answers in order, the unit ends | AtomicUnit |
| `block/flow_through_buffer`, `block/skid_buffer`, `block/fifo` | an item or two; pointers with a wrap bit | valid/ready handshakes | stall in the clock an item comes; wrap | a bounded queue | FlowThroughBuffer, SkidBuffer, Fifo, BufferChain |
| `lib/sim/sim_latency_ram` | RAM, reads not answered | take, answer late | latency | in-order answers | LatencyMemory |
| `block/noc/*`: routers, virtual channels, allocators, links, mesh | VC state, credits, input buffers, arbiters' order | route, allocate a VC, win the switch, send a flit, return a credit | credits under way on a link; VC freed and given at once; packets waiting for each other | no overflow or lost slot, packets whole and in order, no deadlock, no starvation | RoundRobinArbiter, NocRouter, NocMesh |
| `design/mig3`: 5-stage RISC-V core (fetch, decode, control, LSU, CSR, LR/SC, divider) | pipeline registers, CSRs, reservation | stall, forward, redirect, trap, interrupt | all of them in one clock; a redirect while fetch has a read in flight | the same results as one instruction at a time | planned |
| `block/plic/*`, `block/reg_port_target` | gateway state, pending, enables, claim | request, claim, complete | claim, completion and a new request in one clock | none lost, none twice | Plic |
| `block/req_demux`, `block/addr_decode` | queue of targets | route a request, route the answer | targets of different latency | answers in order of requests | planned |
| `block/round_robin_arbiter` | the last winner | grant, move on | order moves only with used grants | a waiting requester wins in N-1 grants | RoundRobinArbiter |
| `block/matrix_lru_arbiter`, `bit_matrix_lru`, `age_matrix` | order of the requesters | grant, touch | as above | the oldest is found | planned |
| `block/jtag_core_dbg`: test access port | FSM, TMS history, IR, IDCODE, BYPASS, TDO | edges of TCK | five TMS ones must reset from any state; TDO changes on the falling edge | an IEEE 1149.1 port | JtagTap |
| `block/jtag_core_dbg/sim/cpp`: bitbang server (`OocdRemoteBitbang`), `SimDpiJtag`; `old2020` clock of the simulation | pins, sockets, quit, clock | accept, read a command, set pins, answer, close, abort | the simulation stands still while it waits for a client; the client may be silent, quit or die at any byte | each command once, in order; every question answered; only a lost client stops the simulator | RemoteBitbang |
| `sw/riscv/semihosting`: I/O of bare-metal programs through the debugger | registers at the halt, host files, terminal | open, close, read, write, seek, length, exit, ... | the host's answer is how many bytes did *not* come; the core is halted while the host works | a caller can tell from a result what the host did, and an error did nothing; output in order | Semihosting |
| `sw/riscv/bench`, `sw/riscv/coremark`: `crt0.S`, `main`, C library, CoreMark port | memory, runs, cycle counter read at start and stop | run a benchmark again and again, print, exit | a 32-bit counter wraps during the run; loops at string ends and overlap limits | exit status of the first run that failed; the line printed is true | BenchLibrary, CoreMarkPort, BareMetal |
| `block/credit_barrier` | credit | take credit, release | credit larger than missing | nothing is taken after release | planned |

The rest (branch predictors, arithmetic, cells and gates, bus packages,
generated decode tables, most of `old2020`, tools) is listed under
[Not modelled](#not-modelled).

How the modelled parts are put together in the design:

```
            +-- instruction cache --+
 mig3 CPU --|                       |-- InsnDataCacheArbiter -- AtomicUnit -- memory, devices
            +-- data cache ---------+
                CacheControl inside     FlowThroughBuffer x2, Fifo inside

             sources -- Plic -- external interrupts, register port of the cores

 program (crt0, main, benchmark) -- EBREAK --> halted core <-- debugger -- host files, terminal
                                                  |
 OpenOCD == TCP ==> OocdRemoteBitbang -- pins --> JtagTap          (in the simulator)

 node -- NocRouter == NocLinkWire == NocRouter -- node     (NocMesh, XY routes)
```

Every line of the first drawing is the same request channel: valid/ready request,
answers in order without ready. So one abstract module, **LatencyMemory**, is
both the environment below a component and, seen from above, the abstract
specification a component has to refine.

## How the models are made

* **One step is one clock edge.** `Clock(i)` gives every register its next value
  from the registers and the inputs `i` of the clock; wires are operators named
  as in the source. `Next == \E i \in Inputs : Clock(i)`: any input pattern,
  including requests that are offered, withdrawn and changed, memory that stalls
  and answers whenever it likes. So the "actions" of a component are the enabling
  conditions of its clock (hit, refill, replay, ...), not disjuncts of `Next`:
  in RTL they happen together, and that is where the hazards are.
* **Contract at the inputs.** Only what the interface says: memory answers only
  a read it has, is ready only with a slot free (`SimLatencyRAM`); `invalidate`
  comes while no load miss is served (`direct_cache.sv`, header comment, from
  FENCE.I waiting for the caches); an address is used cached or uncached, never both.
* **Data is abstract.** A line is a function from a few bytes to a few values;
  byte strobes matter (merging), alignment and widths do not. The operation of
  an atomic (`Alu2` and its lane selection) is the constant function `AtomicOp`.
* **Devices show accesses.** Reading a device's byte changes it (`ReadEffect`),
  so a repeated, lost or widened access is visible in `mem`.
* **Reset-less registers** hold anything of their type in `Init`; the MC modules
  start from one content, since valid bits hide it. The proofs take any.
* **`READ_ONLY` caches** are the same modules with no store and no atomic among
  `Requests`; the forwarding registers then never become valid.
* **`behave` and `struct`** are one model where their registers are the same.
  Where they differ (the Fifo's flags) an invariant relates both formulas.

Where the code is a program, not a circuit, a step is what it does between two points
at which the other actor can see or change something:

* **Remote probe.** One thread runs the simulation and, inside a tick, the server; its
  place is `pc`. The TCP client runs beside it. The stream is ordered and lossless and has
  room for `Window` commands and `ReplyRoom` answers. The client drives TCK as OpenOCD does,
  keeps no more questions open than the socket has room for answers, and may be silent,
  quit or vanish at any moment; one that vanishes before `accept()` makes it fail, which stops the simulator.
  Errors that no client causes (no file descriptor left, say) are not modelled. A variable read before it is written (a session that ends
  with `read() == 0`) holds any command.
* **Semihosting.** A call packs its block (a record of the operation and its arguments)
  and halts the core; the debugger reads the block, does the operation on its files and
  resumes the core. Debugger and files are external, after the ARM specification the
  header names and `TbMig3Debugger`; a read may get fewer bytes than asked for, a write behind the end of
  a file fills the gap with zeros.
* **The bare-metal program** chooses its calls, and their legal arguments, freely. CoreMark's
  own `main` is external: it calls its port as the port's interface has it.
* **NoC nodes** are external: senders and receivers keep to the credits as
  `tb_noc_mesh.sv` drives the local ports. The mesh starts at node (0, 0), ports at its
  edges are tied off.
* **PLIC handlers** are external and, this is assumed, complete legally: only a source that no other handler has.
  The word they write may be longer than an id: the register keeps `IDW` bits of it, so it may name a source
  by any word that ends in its id, and a word whose low bits are no source completes nothing. A completion of a source not enabled for the context is allowed, and ignored, as in the
  code: the source stays in service. A source may ask at any time; what is a request (an edge or a level while it
  is idle or just completed) is the abstract service's to say, from the lines alone. Accesses that change no register (reads but
  claims, partial strobes) are all `"other"`.

## Modules

| Module | Source | What it is |
|---|---|---|
| LatencyMemory | `rtl/lib/sim/sim_latency_ram.sv`; atomics and devices from how the caches use them | Memory with in-order answers of any latency; also the abstract specification `MemorySpec` |
| CacheControl | `cache/cache_control` | Wires and registers of the control; no `Next` of its own, the ways supply `hit`, `hit_line`, `conflict` |
| CacheControl_proofs | | What the control does under any ways: the part of the proofs both caches share |
| DirectCache, DirectCache_proofs | `cache/direct_cache`, RAMs | CacheControl and one way: `ValidRam`, `TagRam`, `DataRam`, `Forward`; properties, refinement mapping, fairness; proofs |
| SkewedCache, SkewedCache_proofs | `cache/skewed_cache` | CacheControl and two ways: per-way index, forwarding, `recent` and the victim; proofs |
| BoundedQueue | | Abstract: what a buffer promises |
| FlowThroughBuffer, SkidBuffer, Fifo | `block/...` | One buffer each; used alone by the arbiter and in BufferChain |
| BufferChain, BufferChain_proofs | a harness for the three: each block is in the repository, this chain is not | sender → flow → fifo → skid → receiver; its proofs |
| SharedMemory | | Abstract: one memory, two sides, each answered in its own order |
| InsnDataCacheArbiter | `cache/insn_data_cache_arbiter` | INSTANCEs two FlowThroughBuffers and a Fifo, in front of LatencyMemory; its definitions that AtomicUnit has too are called `Arb...` |
| AtomicUnit | `block/atomic/atomic_unit` | The state machine in front of a LatencyMemory without atomics |
| MemoryPath_proofs | | Proofs of what stands between the caches and memory: AtomicUnit and the arbiter |
| RoundRobinArbiter | `block/round_robin_arbiter` | Its grant and its register, used three times in a router |
| NocRouter | `block/noc`: router, input unit, `noc_virt_ch_in`, `noc_virt_ch_out`, VC and switch allocators, XY route | One router, as the next value of a record of its registers |
| NocMesh | `noc_mesh`, `noc_link_wire`; nodes from the mesh's test bench | Routers, links, senders and receivers, a clock for all |
| PacketService | | Abstract: what comes out is a packet offered, whole, at its destination, once (`SafeSpec`), and each one does (`Spec`) |
| NocMeshProps, NocMesh_proofs | | Credits, VCs, turns at the arbiters, the refinement; proofs |
| Plic | `block/plic/*`, `block/reg_port_target` | Gateways, targets, claims, registers, port |
| InterruptService | | Abstract: what handlers of a source are promised |
| PlicProps | | The invariant, the refinement |
| JtagTap | `block/jtag_core_dbg`: FSM, instruction register, data registers | The test access port as a function of its registers and an edge |
| RemoteBitbang | `block/jtag_core_dbg/sim/cpp`, `SimDpiJtag`, `old2020` `verilator_tick`; TCP and client external | Simulation, server, client |
| JtagProbe | | Abstract: an IEEE 1149.1 port that executes the client's commands in order; its states come from the standard's two like columns, not from the code's table |
| RemoteBitbangProps, RemoteBitbang_proofs | | Properties, the refinement; proofs |
| Semihosting | `sw/riscv/semihosting`; debugger and files external | A call, the halt, the host's work, what the function makes of the result |
| BenchLibrary | `sw/riscv/bench/bench.c` | `memcpy`, `memset`, `strlen`, `strcpy`, `strcmp` as functions of a memory |
| CoreMarkPort | `sw/riscv/coremark/core_portme.c` | Time from the cycle counter, the line by long division in one word |
| BareMetal, BareMetalProps | `crt0.S`, `bench.c` `main`, the above together | The program with its debugger; properties |
| Software_proofs | | Proofs of what software stands on: the interrupt controller, semihosting, the C library, CoreMark's port |
| MC* | | Constants, small request sets and views for TLC |

**Reading CacheControl.** `look`/`looked` are `look_q` and the `look_*` registers;
`replay`, `waiting`, `wait_nocache`, `unc_waiting` keep their names. `Accept`, `Held`,
`Served`, `Answered`, `Refill`, `Drop`, `RamRd`, `MissTaken` are the wires of the
same name; `ControlStep` is the `always_ff`. A request's `path` is `"cached"`,
`"nocache"` (looked up, but sent as it is, fills nothing) or `"bypass"`
(`req_uncached_dbg_bypass`: straight to memory when the cache is idle).

**Refinement mappings.** A cache refines LatencyMemory by doing a request when
it is *taken into the lookup*, although memory does it later: `ArchMem` is
`mem` with the looked-up request already done, `Owed` is `pending` with the
looked-up load's answer already in it. A stall, a replay or a hit is then a
stutter or an answer. AtomicUnit does the atomic when it takes it: `ArchMem`
applies it in each of its states, `Owed` has the old value. The arbiter refines
SharedMemory: what waits in a buffer is `wait`, and each read in memory is owed to its
owner in the Fifo (`OwedReads`). The mesh refines PacketService with its own variables: what the routers and
links hold is hidden. Plic refines InterruptService: a source is `pending`, `served`
(active, not pending) or `idle`, and who has it is what the handlers claimed, the answer
on its way included. RemoteBitbang refines JtagProbe: the bytes in the socket are the commands
still to do, the answers sent and the one being sent those given, and the scan
register is the one of the code's four that is in the path.

## Runs

| Run | Properties | Shows |
|---|---|---|
| direct_cache | TypeOK, Coherent, HitIsCurrent, RefinesMemory, RequestHeld | The direct-mapped cache with every kind of request, device accesses and invalidates: lines never stale, hits current through forwarding and replay, a stalled request unchanged, and to the CPU one memory in order |
| direct_cache_live | LoadsAnswered | Every load taken is answered while memory is fair |
| skewed_cache | TypeOK, Coherent, SingleCopy, RefinesMemory | Two ways with different indexes: one copy of a line, never stale, one memory in order |
| buffer_chain | TypeOK, FlagsAgree, IsQueue, Drains | The three buffers in a chain are one bounded queue and drain; the Fifo's flags of both versions agree |
| arbiter | ArbTypeOK, RefinesSharedMemory, RequestHeld, NoStarvation | Any `prio` in any clock, the queue of owners full and empty: answers go to their side, requests stay put. Once `prio` stays none, round robin lets neither side wait for good, also when only reads are blocked |
| atomic_unit | TypeOK, RefinesAtomicMemory, AtomicEnds | Atomics are atomic, in order with reads in flight; the unit always comes back to IDLE |
| noc | TypeOK, CreditsConserved, VcHeldByOnePacket, TurnsComeCloser, DeliversPackets | A full mesh with stalling nodes: no slot lost or used twice, packets whole, nobody skipped at an arbiter, every packet arrives once at its destination |
| plic | PlicInv, ServesRequests | Claims, completions, requests and changes of registers in one clock: a claim gets a pending source, a request goes to one handler, once, and none is dropped, also when it comes with a completion |
| remote_bitbang | TypeOK, AbortsOnlyWhenLost, FourOnesReachReset, ServesProbe, AnswerComes | The client sees a standard test access port, each question gets its answer, only a client that vanished aborts the simulator |
| remote_bitbang_lost | InactiveWithoutCommand (violated) | See [Findings](#findings) |
| bare_metal | TypeOK, ExitTellsFirstFailure, TerminalInOrder, ResultLineIsTrue, LibraryIsC, ResultsTellTheHost, ProgramEnds | The exit status is that of the first run that failed, output is complete and in order, CoreMark's line is true in 32 bits, a caller can tell from a result of read, write or open what happened on the host, and an error changed nothing there, the program ends |
| bare_metal_read | ReadReturnsBytesRead (violated) | See [Findings](#findings) |

For each property PROJECT.json has a mutant: a plausible bug in the code (a
forwarding register that is not kept while the request is held, a drop or a
replay left out, an answer routed by the current request, an off-by-one in a
flag, ...) that makes TLC find the property violated. Mutant operators stand
next to the definition they change, marked `\* Mutant of ...`.

`TypeOK` of a module also carries the registers' relations that the source
asserts, where they are cheap to state: AtomicUnit's counter equals the reads
in memory, the arbiter's Fifo has one entry per read (`a_answer_expected`).

## Bounds

* **direct_cache**: 2 sets × 2 tags = 4 lines, one of them a device, one byte of
  two values, one read in memory. Eviction, conflict in the same set, a request
  to another set, forwarding, replay and every path happen; a write-through
  cache with one lookup and one miss has at most two requests inside, so a third
  set or tag is a permutation of these. `MaxPending = 1` since the cache waits
  for each read's answer. The proofs have none of these bounds.
* **direct_cache_live**: 1 set, one value: liveness does not depend on data.
* **skewed_cache**: 1 index bit and 1 tag bit: a line's index in way 1 is
  skewed by its tag, so candidates cross between the ways. One value written
  by stores and another by atomics.
* **buffer_chain**: Depth 2, so both pointers pass their wrap bit; 2 items, so
  that order shows; capacity 5. The proofs take any depth and items.
* **arbiter**: queue of owners of 2 and a memory that has 3 slots, so the queue
  fills first and reads are blocked while writes go; one line which the data
  cache writes and both read, so the value answered tells when a read was done.
  `NoStarvation` needs which sides wait, and the view keeps it; without the view the run gives the same (6,524 states).
  The proofs take any depth, policy and memory.
* **atomic_unit**: `PendingLimit` 2 (`PENDING_WIDTH` 1) and 2 reads in flight, the counter's limit;
  one line of two words, an atomic on either (merging); the operation is an
  exclusive or, so doing it twice or on an old value shows.
* **noc**: 2 × 2 routers, 2 VCs of 2 flits, links of 1 register, in two plans. In `Ring` every
  node sends three flits (more than a buffer holds) on each VC to the opposite corner, so every VC of a circle of
  links is held at once: without the XY order this is the deadlock. In `HotSpot` packets of one
  to four flits meet at one node, also over their own router. Senders and receivers
  may let `MaxStalls` = 2 clocks pass; everything else is forced, so states are few (3,249).
  The proofs take any mesh, number of VCs, depth, link and set of packets.
* **plic**: a level and an edge source, two contexts, priorities to 2. `Setups` limits the
  register writes to those that make a source higher, equal, disabled or masked. Completion words are 1 to 5 with ids of two
  bits: 3 and 4 name no source, 5 names source 1 by its low bits (113,016 states).
  A third source or context adds no new pair of events in a clock. The proofs have no bounds.
* **remote_bitbang**: two sessions of together 10 bytes: enough to walk from power-up through a
  scan register and out again, or to reset; a tick in every clock (`TckPeriod` 1: between ticks
  nothing but the clock moves); registers of 2 bits; 2 commands under way, room for 1 answer, so the client must
  wait for the server; one command from an unwritten variable. The simulation starts in PAUSE-IR, the
  state farthest from reset; for FourOnesReachReset this is the hard start. About 666,000 states.
* **bare_metal**: a word of 2^18 and `Mega` = 10^4 in place of 2^32 and 10^6: the same order of the two
  limits, so the long division overflows where the code's would, and start times make
  the counter wrap. 4 calls, 2 runs, files of 3 bytes, reads of 0, 1 and 3 (no byte asked for, all that is there, a part), memory of 4 addresses with characters
  0, 1 and 255 (`strcmp` compares unsigned). Run times are below the counter's period, as the port
  needs. About 253,000 states. The proofs have none of these bounds.

**VIEW.** The large runs identify states that differ in registers no wire looks
at: a looked-up request without `look`, the content of a line not valid, an
answer already given (`LiveState` in the MC modules). Two such states have the
same successors up to the view, and invariants and action properties read the
hidden registers only behind their valid bits. TLC checks action properties on
every step, also one to a state already seen.

## Fairness

The code gives no fairness to a CPU or to a sender: it may stop, and it may also
offer and withdraw requests for ever. So nothing here forces the requester.
What is assumed is only the environment's progress: *memory*, again and again,
takes what is offered and answers what it owes (`SimLatencyRAM`'s latency and
stalls are finite), and the *receiver* of a buffer chain is ready again and again.

* **noc**: `WF_clk(Tick)`, the clock goes on. That nodes take what comes and send
  what they can is in the bound of `stalls`: they hold back a finite number of times.
* **remote_bitbang**: the thread of the simulation goes on (`SimChangeClk`, `Server`; it has
  no other work), and the client takes answers that have arrived. The client owes nothing else.
* **bare_metal**: the core runs (`Program`), and the debugger serves a halted core (`Host`), which it
  polls for. A benchmark's calls are bounded, as a benchmark ends.
* **plic** has no liveness: claims are the software's business.

A plain `WF` of "a clock with memory ready" would be too much: such a clock is
always possible as soon as the CPU *could* offer something, and the fairness
would then make it do so. The conditions are therefore of the form

    WF_vars((ENABLED <<MemoryDoes({None})>>_vars) /\ MemoryDoes(Requests \cup {None}))

a clock in which memory moves is due only while one *without* a new request
would change something, and any clock in which memory moves, whatever is
offered in it, discharges it. AtomicUnit separates taking and answering.

## Findings

**A client that closes its socket without a quit** (run remote_bitbang_lost). `read()` then gives 0;
`OocdRemoteBitbang.cpp` leaves its loop (line 168) with the comment "We do NOT wait here, but we also do
NOT change `tck`, so JTAG is inactive", and goes on to `switch (command)` (line 178) with
`command` never written (line 147). It may set the pins, clock the port, answer, or quit: the run shows
TCK moving with no command sent. A return there would do what the comment says. The model takes any command
from the unwritten variable, so all other properties of remote_bitbang are shown with this happening.

**A read of which a part comes** (run bare_metal_read). The host answers READ with the bytes it did *not* read.
`semihost_read` makes -5 of `len` (nothing came) and `len` of 0 (all came), and gives any other answer back as it
is (`riscv_semihosting.c:234-240`). Its comment says "@retval read number of bytes read on success" (line 221).
The run shows 3 bytes asked for, one read, and the result 2; `len - ret` would do what the comment says. A caller
who knows the code still can tell what came: this is what ResultsTellTheHost says, of the code's own results.

Read in the code, without a run:

* A read of no bytes gives -5, from a good handle too, since 0 is `len` (`riscv_semihosting.c:234`). A failed write
  gives the number of bytes not written, which is positive, where the comment has "@retval -errno negative error code on
  failure" (line 257). ResultsTellTheHost takes both as they are: -5 says that no byte came, and any result of a write
  but 0 that no byte went.
* "We'll try again the next call" (`OocdRemoteBitbang.cpp:157`) stands in a loop that tries at once and
  holds the simulation until a byte comes.
* "by long division in 32 bits ...: n * 10^6 fits for n up to 4000" (`core_portme.c:99`): `r *= 10` (line 115)
  also has to fit, so the digits after the point may be wrong for a run of more than 429,496,730
  cycles. ResultLineIsTrue assumes both limits.

## Proofs

What a run shows on a small instance, the theorem shows for every value of the constants:
every set of lines, devices, bytes, values, tags, sets and requests, every `MaxPending`, `PendingLimit`, `AtomicOp`
and `ReadEffect`, every depth of the Fifo; every mesh, number of VCs, depth, delay and set of packets;
every number of sources, contexts and priorities; every width of the port's registers, window,
reply room and number of sessions; every word, counter period, memory, string, file and run of a program.

| Module | Theorem | Statement |
|---|---|---|
| DirectCache_proofs | TypeCorrect | `Spec => []TypeOK` |
| | CacheCoherent | `Spec => []Coherent` |
| | HitsAreCurrent | `Spec => []HitIsCurrent` |
| | RequestsAreHeld | `Spec => RequestHeld` |
| | CacheRefinesMemory | `Spec => RefinesMemory` |
| SkewedCache_proofs | TypeCorrect | `Spec => []TypeOK` |
| | CacheCoherent | `Spec => []Coherent` |
| | LineInOneWay | `Spec => []SingleCopy` |
| | CacheRefinesMemory | `Spec => RefinesMemory` |
| MemoryPath_proofs | TypeCorrect | `Spec => []TypeOK` of AtomicUnit |
| | UnitRefinesAtomicMemory | `Spec => RefinesAtomicMemory` |
| | ArbiterTypeCorrect | `ArbSpec => []ArbTypeOK` |
| | ArbiterHoldsRequests | `ArbSpec => RequestHeld` |
| | ArbiterSharesMemory | `ArbSpec => RefinesSharedMemory` |
| BufferChain_proofs | TypeCorrect | `Spec => []TypeOK` |
| | FlagsAreRight | `Spec => []FlagsAgree` |
| | ChainIsQueue | `Spec => IsQueue` |
| NocMesh_proofs | TypeCorrect | `Spec => []TypeOK` |
| | CreditsAreConserved | `Spec => []CreditsConserved` |
| | VcsAreHeldByOnePacket | `Spec => []VcHeldByOnePacket` |
| | NobodyLosesATurn | `Spec => TurnsComeCloser` |
| | MeshDeliversSafely | `Spec => Service!SafeSpec`: the safety of DeliversPackets |
| | ArbitersStayOK | `Spec => []ArbitersOK` |
| | RouteLeadsHome | an XY route stays in the mesh, comes closer with each hop, never turns from y to x |
| Software_proofs | PlicStaysSound | `PlicSpec => []PlicInv` |
| | PlicServes | `PlicSpec => ServesRequests` |
| | ProgramTypes | `Spec => []TypeOK` of BareMetalProps |
| | ExitIsFirstFailure | `Spec => []ExitTellsFirstFailure` |
| | TerminalShowsAll | `Spec => []TerminalInOrder` |
| | ResultsAreTrue | `Spec => ResultsTellTheHost` |
| | LibraryIsStandard | `Spec => []LibraryIsC` |
| | LineIsTrue | `Spec => []ResultLineIsTrue` |
| RemoteBitbang_proofs | TypeCorrect | `Spec => []TypeOK` |
| | FourOnesFindThePort | `Spec => []FourOnesReachReset` |
| | OnlyLostClientsAbort | `Spec => []AbortsOnlyWhenLost` |
| | TheServerIsAProbe | `Spec => ServesProbe` |

The assumptions are the constants' ones, named where they are declared
(`MemoryAssumption`, `MemRequestsAssumption`, `RequestsAssumption`, `DirectAssumption`, `SkewedAssumption`,
`ArbiterAssumption`, `AtomicAssumption`, `BufferAssumption`, `NocAssumption`, `MeshAssumption`, `PlicAssumption`,
`TapAssumption`, `BitbangAssumption`, `SemihostingAssumption`, `FieldAssumption`, `LibraryAssumption`, `PortAssumption`,
`BareMetalAssumption`); TLC evaluates them in every run. They say no more than what a
parameter is: `MeshAssumption`, say, that packets have a place to start and to go, that two of one sender on
one VC have different ids, and that `None` is no flit; `BareMetalAssumption` that a path is a string, a status an `int`,
a length an `int` that is not negative, that the length of data is a `long`, and that CoreMark's run is shorter than a period of the cycle counter (the
port has one 32-bit difference: of a longer run it cannot know).

**The caches' control.** `Coherent` is not inductive: a store merges the *looked-up* line into the RAM, so
a stale lookup makes a stale line one clock later. The inductive invariant says
what each stage holds. CacheControl_proofs has the part of the control, whatever the ways are:

    ControlInv == ControlTypeOK /\ OneAtATime /\ OwedWhileWaiting /\ FillIsCurrent

* `OneAtATime`: at most one of lookup, miss served and uncached read is under
  way, and a replay is a lookup's;
* `OwedWhileWaiting`: memory owes exactly the answer that is waited for, so an
  answer is never taken for another request's;
* `FillIsCurrent`: the line about to be filled is what memory has now, since
  nothing reaches memory while a miss is served.

The refinement is there too, under the hypothesis that a hit shows memory's line: a clock is split into what
it takes (nothing, a lookup, a bypass) and what it answers (nothing,
a hit, a miss, an uncached read); each pair maps to one step of LatencyMemory or a stutter.

**DirectCache.** `IInv` is `TypeOK`, `ControlInv`, `Coherent` and

* `LookIsCurrent`: RAM outputs or the forwarded line, if they hit, are memory's line;
* `LookIsComplete`: if the RAM has a valid line in the looked-up set, the outputs
  show it (but in a replay): no line was filled behind the lookup's back.

The proof has one lemma for each part over a clock, split by what the clock does
(refill, store, drop, invalidate, accept, hold, replay); `RequestHeld` follows from
what a stalled clock leaves unchanged.

**SkewedCache.** The same per way, and two parts more: `SingleCopy`, and `FillIsNew`, that the line on its way
into the cache is in neither way. They need each other: a line is only filled after a lookup that saw
both ways (`LookIsComplete`), and nothing else is filled before it comes. A way's index is the line's own crossed with
bits of the tag; lemma `CrossedTwice`, that crossing twice gives the line back, is what makes "this index
and this tag" and "this line" the same in either way.

**AtomicUnit.** `TypeOK`, which carries the meaning of the counter (reads in memory
but the atomic's own), is inductive with one addition, `HeldIsAtomic`. It gives
that nothing is in memory when an atomic is taken and that no answer comes in
READ and WRITE. The refinement then has one case per state; the case that
matters is memory taking the read: from there on the requester's memory is made from
the *answer* instead of from `mem`, and lemma `ReadThenWrite` shows the two equal, for
a device's line as well, whose bytes the read changes.

**The cache arbiter.** `ArbInv` adds to the types that a full buffer holds a request, that every entry
between the queue's pointers is a side (`OwnersHold`), and `HoldIsWaiting`: the request held is what its side has waiting and,
if a read, the queue has room for it. So the queue never takes a side when it is full nor gives one when
it is empty, though neither the hold nor the answer looks at its flags. For the refinement the side that is
done is the one memory takes from, and the answer goes to the head of the queue, which is the
oldest read of its side. The queue's own steps are BufferChain_proofs' lemmas about the Fifo, instantiated.

**BufferChain.** `FlagsAgree` needs the two pointers' ranges, and the queue needs `RingHolds`: every entry
between the pointers holds an item, and not the unknown content before a write. `RingClock` follows the pointers
through a clock: the slot written lies behind the last item and is no item's, the others keep theirs. Each buffer is
then a queue between its channels, stated as `Moves(q, x, y, r)`: q followed by what enters is what leaves followed by r
(`FlowMoves`, `RingMoves`, `SkidMoves`). The chain follows since concatenation is associative (`TwoQueues`, twice):
what leaves one buffer is what enters the next in that clock. That its depth is a power of two is not used.

**NocMesh**, in four steps, each on the one before:

* *Arbiters.* Their properties need of the state only that their registers are in range
  (`ArbitersOK`, inductive), since a grant is a function of the requests and the register. Lemma
  `GrantIs` says which requester wins, `TurnCloser` that `Rank`, the number of requesters
  before one, falls with each grant of another; `PickIsGrant` takes it through
  the two stages of switch allocation. `RouteLeadsHome` is a case for each direction.
* *Credits.* `MeshInv` has the types of routers, links and nodes, `CreditsConserved`, and that ports at the edge are idle.
  Neither types nor credits stand alone: a buffer stays within its depth because credits are conserved,
  and a credit is never counted twice because a flit is sent with one only. For a link and a VC, a clock moves a slot from
  one place of the sum to the next.
* *Packets.* `VcHeldByOnePacket` follows from `PacketsInv`, which says that there is a function G that tells for
  each place (output, register of a link) *what comes next* behind it: a head, or flit k of a packet. Every flit is what was
  due, in buffers, on links and where a VC of a router passes on to the next. G is no variable of the model: the proof gives
  the G of the next state (what a place shows after the flit that passed it).
* *Arrival.* `WayInv` adds that an input VC's route is that of the packet at its front, that what came out at a node so far
  is the part of its packet before what is due, and a function W of where the tail of each packet *is*: with its sender, in one
  buffer, in one register, or out. A tail in one place at a time is a packet that comes out once. With it every clock is a
  `Deliver` of PacketService.

**Plic.** `PlicInv` is inductive as it stands, and its parts need each other: that the claim
register of a context is a *pending* source when a claim can be taken rests on `hold`, which keeps
claims off in the clock in which the registers may still show the source just claimed;
that nobody else has the source rests on it being active since. `BestIsEligible` shows that
the `CHOOSE` of the highest priority has a value (no eligible source beats all others in an empty set only).
The refinement maps a clock to one step of the service in which any number of sources ask,
one is claimed and one is completed. The service counts a request from the source's line and the line it saw last
(`LinesSeen`: a gateway's last line is that of the clock before), so it is the gateway that has to keep up: one that is
idle, or is completed in this clock, may not let a line that asks pass.

**The remote probe.**

* `TypeInv` is the types with `OnesLead`: where the controller may be when TMS was 1 on the
  last one, two, three or four rising edges. FourOnesReachReset is its last line; each line follows from
  the one before over the FSM's table, whatever state the port powers up in.
* `RoomOK`: a client that has not vanished is owed no more than the socket has room for. A question adds one
  under the client's own bound, the server only moves what is owed from a command to an answer. So the server never finds
  the socket full, which is its only way to abort.
* `ServedOK`: when a command is read, the port's wires are the pins the last command set, and TDO shows the front bit
  of the register in the scan path. With it each step of the server is one command of JtagProbe or a stutter. JtagProbe has the
  standard's two like columns of states; `FsmMoves` shows the code's table equal to it, state by state, and `TapMoves` takes the
  registers through both edges.

**The bare-metal programs.** The benchmark does what it likes; each property has an invariant of its own:

* *Exit.* `RunsOK` counts the runs and says that all but the last ended with 0, and where the program is when the last did not;
  `ExitOK` says what the host has been asked. An `int` and a register hold the same statuses, so the host's status is 0
  only if the program's is (`StatusField`).
* *Terminal.* `TextOK`: what the program asked to show is what the terminal shows, then the text of the call not
  served yet, then what `_write` still has to send. Each step moves text from one of the three to the one before
  (`Shows` ties a request to its text; `StrLenIs` is `semihost_strlen`; `LineIs` that CoreMark's line is a string).
* *Results.* `CallOK` is what the functions may ask for, `FilesOK` that an open file exists, `AnswerOK` that until
  the function returns, what it *will* return tells of the files as they are. The host's steps make it true, one lemma each for
  read, write and open; it stays true since nothing else touches the files before the return. `HandlesMap` says which handle is of
  which file, so that a read's position names the bytes that came, and `ErrorsChangeNothing` follows the host's operations
  that fail: none touches files or positions. The code's `len`, part and -5 are apart because no more than `len` bytes come.
* *Library.* Each loop is followed to its end: `CopiedIs` and `MemsetIs` say what the memory is after i rounds, `StringIs` that the string
  at an address has one end, `StrcpyIs` that the loop ends with the copied 0 and not earlier, `StrcmpIs` that the order at the
  first difference is the order of the strings.
* *CoreMark's line.* `TimeOfRun`: the difference of the readings modulo the period is the time of the run. `PutUintIs`: the recursion of
  `put_uint` gives the decimal digits (`TenIs`, `SizeIs`, `DecimalIs`). `DivisionIs`: three steps of the long division
  give the first three digits after the point, if ten times a remainder fits. `LineOK` keeps the line at the
  end of the output until the next run.

The induction over data these need (loops, digits) is done with sets, which the provers can take: a set of numbers has a least one
(`LeastIs`, from the library's theorem on finite sets), so a set that has 0 and with each number the next has them all (`Counting`).
That a recursive function *exists* is shown with it for each definition (`CopiedIs`, `PutUintRecurses`, `TenIs`).

**Only model-checked:** liveness, that is LoadsAnswered, Drains, NoStarvation, AtomicEnds, AnswerComes, ProgramEnds, and
the arrival in DeliversPackets. Fairness and ENABLED are out of the prover's reach.

## Not modelled

* Widths, alignment, sizes of accesses; the store's data lanes. Combinational
  data, covered by the repository's tests and by comparing `behave` with `struct`.
* The latencies and readiness that `SimLatencyRAM` draws: any are allowed. The
  order of its answers is by construction of the model.
* `Alu2` and lane selection inside AtomicUnit: `AtomicOp` is any function.
* The statistic outputs and `DC_ASSERT`s as such; several asserts are properties.
* Branch predictors (BTB, gshare, return address stack): hints only, a wrong one
  is corrected by the pipeline.
* Adders, multipliers, ALUs, encoders, `numeric/`, `ai/`: combinational.
* `lib/cell`, `lib/gate`, `lib/part`, `lib/macro`: below the clock-edge level.
* `lib/bus` (types), `lib/riscv` (generated), `design/mig1`, `mig2` (earlier mig3), `tools`.
* `block/jtag_core_dbg`: the debug register behind the test access port and its crossing to the core's
  clock. Its instruction shifts no bit in JtagTap.
* NoC: the other routes and links of the library, and the network interface of a node
  (not in the repository).
* Software: the benchmarks themselves and the `main` of CoreMark (external); `time_in_secs`, used only by a
  report that is not printed; the linker scripts.
* `old2020`: the assembler (`as.cpp`) and the srec converter (`srec.cpp`) are single passes over a
  text, for tests to check; the other blocks are superseded. Its bitbang server is the one modelled.
* Power-up before reset, and reset again later.

## Plan

Done, in this order: LatencyMemory; CacheControl, DirectCache; SkewedCache; the buffers; the
arbiter; AtomicUnit; the remote probe; the bare-metal software; NocRouter and NocMesh; Plic.
All have their safety proved. Next:

1. **SetAssocCache** with CacheReplacement: the LRU word with its forwarding,
   against an abstract recency order per set; coherence as in SkewedCache, with `ControlInv` as it is.
2. **Mig3**: fetch (a redirect with a read in flight) and pipeline control,
   refining a machine that does one instruction at a time.
3. **ReqDemux**, **MatrixLruArbiter**, **CreditBarrier**.
4. Composition: two caches, arbiter and AtomicUnit over one memory, refining
   SharedMemory with atomics. Each part's refinement is proved; what is missing is that the
   environment each assumes is what the next one promises.
