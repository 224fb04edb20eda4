# skbtracer in TLA+

skbtracer attaches one of five kprobe programs to every kernel function that
takes an `sk_buff`, filters the packets that pass, and prints a line for each.
This directory holds models of its parts, TLC configurations that check them on
small instances, and proofs that TLAPS checks for every instance.
Paths below are relative to the repository.

## The system

| Part | Source | State | Operations |
|---|---|---|---|
| Kprobe programs | `src/bpf/skbtracer.bpf.c`, `skbtracer.h` | `cfg` (read-only), the ring buffer `events` | `kprobe_skb`: `filter`, reserve, `set_output`, submit |
| Event loop | `src/trace/trace.cpp` | `exiting`, `rb`, `output_cb` | `run`, `stop`, `register_output_callback` |
| Probes | `src/trace/trace.cpp` | `prog_mapping_list`, `link_mapping_list` | `attach_skb_func`, `detach_skb_func`, `~TraceMgr` |
| Filter compilation | `src/pcap2bpf/pcap2bpf.cpp` | what is allocated | `compile_cbpf_filter`, `compile_ebpf_filter`, `make_constant_filter` |
| Filter conversion | `src/pcap2bpf/bpf_convert.c` | none | `bpf_convert_filter` |
| Filter injection | `src/trace/trace.cpp`, `pcap2bpf.cpp` | the two filters, the instructions of each program | `prepare_pcap_filters`, `custom_prepare_load_skbtracer_prog`, `inject_ebpf_filter` |
| Function database | `src/symdb/symdb.cpp` | `btf_list`, `skb_func_list`, `ksyms` | `init`, `get_skb_func_list`, `get_skb_func_param_pos`, lookups |
| Startup and end | `src/app/main.cpp`, `src/utils/utils.cpp` | `attached_count`, resource limits | `main`, `sig_handler`, `enforce_infinite_rlimit` |
| Options | `src/cfg/options.cpp` | `Options::args`, the process's netns | `parse_args`, `resolve_netns_and_ifname` |
| Lines | `src/output/output.cpp`, `tuple_output.cpp` | `start_ts` | `print_entry`, `format_tuple` |
| Times | `src/output/time_output.cpp` | the offset between the clocks | `get_boot_realtime_ns`, `format_time` |
| Names | `src/output/dev_cache.cpp` | two caches, the tracer's netns | `resolve_comm`, `resolve_dev_name`, `register_ifname` |

How they interact. `main` reads the options, for which it may go to another
network namespace and come back, sets limits, installs the signal handlers, asks
the database for functions, has the filters compiled, converted and injected
while libbpf loads the programs, attaches probes, and calls `run`. From then on
three kinds of actors run at once: the programs on every CPU, which write the ring buffer; the
loop, which reads it and calls the output; and signals, which set `exiting` from
inside any instruction of the main thread. Names are asked of the system when a
line is printed, later than the event. After `main` the destructor of the static
`TraceMgr` takes the probes down.

What is hard:

- *Concurrency.* CPUs reserve, fill and submit in any order; the times they read
  are not in the order of the buffer; wake-ups are sent only to a reader that
  has caught up; a signal can come between the test of `exiting` and the wait.
- *Reused memory.* The kernel does not clear a reserved record.
- *Rewriting code.* Every relative call that crosses an injected filter has to
  be corrected, twice per program; a classic jump has to be turned into one or
  two eBPF jumps over blocks of different lengths.
- *Machine arithmetic.* Sign extension, wrap-around of offsets, division by zero,
  registers that a call destroys.
- *Partial failure.* One link type that does not compile, one function that
  cannot be attached, one injection that fails; a namespace that can be entered
  and not left, a limit that could not be set.
- *A system that changes.* Paths of namespaces, interfaces, processes and the wall
  clock become something else between the calls that look at them.
- *Values that mean nothing.* 0 stands for no filter, no protocol, no interface,
  and is a value that each of them can have.

`PROJECT.json` lists the hazards with their lines and the properties that cover
them.

## Modules

| Module | What it is |
|---|---|
| `Packet` | Decision and record of one packet: pure operators |
| `Capture` | Programs on all CPUs, ring buffer, event loop, stop |
| `TraceLog` | Abstract specification: a bounded first-in first-out log |
| `CaptureProofs` | Proofs about `Capture`, and that it implements `TraceLog` |
| `FilterInject`, `FilterInjectProofs` | Injection of both filters into one program, and proofs |
| `FilterConvert` | `bpf_convert_filter` as a function from classic to eBPF programs |
| `FilterRun`, `FilterRunProofs` | A converted program on a packet, next to the classic program, and proofs that they agree |
| `FilterCompile`, `FilterCompileProofs` | From the expression to both filters, with every failure, and proofs |
| `Startup`, `StartupProofs` | `main` with symbol database, attachment, signals and the destructor, and proofs |
| `Options`, `OptionsProofs` | The command line, network namespaces and interfaces, and proofs |
| `Tuple`, `TupleProofs` | One packet from its bytes to the tuple column, and proofs |
| `Names` | The caches of names while the system changes |
| `WallClock` | Wall-clock times of lines |
| `OutputProofs` | Proofs about `Names` and `WallClock` |
| `MC...` | Instances for TLC |

`Capture` extends `Packet` and instantiates `TraceLog`; `FilterRun` extends
`FilterConvert`. `FilterInject` takes a filter as a length and a label, which is
all that the injection sees; what is inside is `FilterConvert`'s business.
`Startup` ends where `Capture` begins: its phase `run` is the call of
`TraceMgr::run`. It begins where `Options` ends: `Options` is `parse_args`, and
its last step the passing of the values to the programs. `FilterCompile`
instantiates `FilterInject` and is shown to be its first step. `Tuple` and
`Options` instantiate `Packet`: the first computes what `Packet` takes for given,
how deep a packet can be read; the second takes the decision of the programs from
it. `Names` and `WallClock` stand beside `Capture`, whose `PrintEntry` is one
step: lines are printed by one thread and the rest of the system cannot tell.

In several modules an operator whose comment begins with *Fault* stands before
another with the same parameters. It is that operator with a plausible mistake, is used
by nothing, and shows which mistakes the properties notice.

### Packet and Capture

A packet is the fields the code branches on or copies: whether it has a MAC
header, the verdict of the filter on it, the namespaces of device and socket,
mark, interface, IP version, how many headers can be read, and opaque values
for addresses, ports and flags. `0` is the code's own value for "nothing".
A packet does not change while a program looks at it, and the programs read it
twice (`filter`, `set_output`) with that assumption in the model.

Each CPU has a program counter: `idle`, `reserve` (the filter accepted),
`fill`, `submit`. Steps of different CPUs interleave between reservation,
filling and submission. Filling is one step: the memory is the program's own
until it is submitted, and nothing in it is read by others. The one thing it
shares, the clock, is read in it. `Stale` is the content of reserved memory;
a field that a path forgets to write stays `Stale` up to the printed line.

The ring buffer is the sequence of all reservations, `consPos` how many the
reader has given back. `ready` is epoll's ready list: `ring_buffer__new` looks
at the map once, a submission sets it only if the reader has caught up,
`epoll_wait` looks again and takes a map without records off the list. These
rules, and that `ring_buffer__poll` drains in order, stops at a busy record and
releases a record after the callback returned, belong to the kernel and libbpf
and are marked external. One
simplification: libbpf stores its position after each record, as the model does.

The loop's steps are `Check` (`while (!p->exiting)`), `EnterPoll`, waiting,
`HandleEvent` (the callback and `print_entry`), `ReleaseRecord`, `PollReturns`,
and its errors. `Signal` sets `exiting` at any point and interrupts a wait.

### FilterInject

The state is the program as libbpf hands it over, `func_info`, the index of the
loop, the running `offset` and the filters. Instructions carry what the code
looks at (`call`, `imm`) and, for the properties, which instruction of which
function they are and which function a call was compiled for. Positions are
counted from 0, as in the code.

Assumed of libbpf and the compiler, in `WellFormed`: calls are resolved, bodies
are whole, nothing calls instruction 0, `func_info` is sorted, and each stub is
there once and has exactly `STUB_ORIG_LEN` instructions. The last is what the
constant in `trace.cpp` says; nothing in the code verifies it.

### FilterConvert and FilterRun

`Convert` builds the eBPF program block by block as `bpf_convert_filter` does;
`Addrs` is its first pass and `Offset2` the jump offset of the second.
`Converts` has the checks that make it fail, including that of the first pass
(`Offset1`), in which the addresses of later blocks are still 0. A classic
jump is forward, as libpcap makes it; `ja` with a negative offset is left out.

`FilterRun` executes the result on a machine with registers, widths of 32
and 64 bits and a frame kept byte by byte; `Undef` is what the verifier forbids
to read. The reference is the classic machine as the kernel defines it (a shift
by X uses the low bits of X; an indexed load does not wrap). It moves one
instruction whenever the eBPF program reaches a block. Words are scaled: half a byte has
`NibbleBits` bits. In the run it is 1, so that a byte has 4 values, a word of 4
bytes 256 and a double word 65536; the proofs are for any number, the real 4
among them. Every place where the code depends on a
width (sign of an immediate, `jslt` on offsets, byte order, `0xf`) is expressed in
these terms.

What a classic program is like is the assumption `ProgramsAssumption`, which is
the kernel's own check of such programs (`bpf_check_classic`): known operations
with operands in range, no constant divisor 0, a `ret` at the end, and no word of
the scratch memory loaded that some way to the load has not stored
(`StoredBefore`). libpcap makes its programs for that check, and nothing else
in `src/` hands a program to `bpf_convert_filter`, which itself checks only
that it knows the instruction and, as `Converts` does, where jumps lead. (The
tests do, `tests/test_pcap2bpf.cpp:327` and `:363` for example, with programs that
`ProgramsAssumption` admits.)
That a load reads only what was stored
matters here and nowhere else: the converted program would read its frame
uninitialised, and the verifier would refuse it (`Verifiable`).

### FilterCompile

`kind` is the link type being compiled, `held` counts what is allocated and
`err` is the pair of results. Each call that can fail is an action with both
outcomes; which of them depend on the expression is libpcap's business. An empty
expression is empty for both link types. `FI` is `FilterInject` with the
variables that the compilation does not touch fixed; the steps before `Combine`
stutter there. `new` throws, so the test for `nullptr` behind it
(`pcap2bpf.cpp:43`) is dead code and has no step.

### Startup

`phase` is where `main` is, and from `done` on where the destructor is. `trace`
is the static `TraceMgr`, which a signal handler may be the first to construct;
`held` is what it holds of handler, skeleton and reader. `Kernel` says of each
name which functions have it, each with its module and its parameters, and whether
`available_filter_functions` lists the name; of several functions of one name
the last one that is found stays in `skb_func_list`, whichever that is
(`FindSkbFuncs`). `Loaded` gives the number of fields of
each module's line in `/proc/modules`; `Regexes` the sets of functions that
`--filter-func` may select; `Budgets` how many probes the limit of open files
leaves room for, whatever `setrlimit` returned. A pattern that is no regular
expression, a constructor that throws, a signal inside the constructor and one
after `delete p` have their steps. An exception that nothing catches ends the
process without destructors (`Abort`).

A signal inside the constructor enters `getInstance` again on the thread that is
in it. The standard leaves that undefined; libstdc++ waits for the initialisation
to end, which is its own: the request is lost and the process hangs. The
constructor may be running in `main` or in the handler of the other of the two
signals, so this can come at any time before `main` has the instance. `asked`
keeps in which state of `trace` each signal came, and `EarlyStopKept` says what
becomes of every request: the process ends, unless a signal came to
`constructing`, and then it may hang. Nothing in the repository
says that a signal always ends the program, so this is a statement of the
property and not a disagreement with a document.

`probes` is what the kernel has, `links` what the program knows of it; that they
stay equal is a property and no definition.

### Options

`parse_args` takes one option after another, then `resolve_netns_and_ifname`
goes call by call: open and stat of the namespace, open and stat of the process's
own, `setns`, `if_nametoindex`, `setns` back, close. Each call may fail. A file
is a device, an inode and the namespace it opens, if any. Between any two steps a
path may come to mean another file (`PathChanges`) and an interface may get
another index or vanish (`IfChanges`).

A number is a sign, a magnitude and whether something follows it; `strtoul`'s
negation and the two widths are explicit, scaled to `U32` and `ULong`. The
options that only choose columns, `-f` and the pcap expression are one option,
`other`; `-h` and what `getopt` or the check of `-t` refuse are `wrong`.

`opened` and `had` are history: which file `-n` was found to mean, and every
index that an interface had. The properties speak of these, since what is true
when the program starts to trace need no longer be what was true when it looked.

### Tuple

Offsets are in units of four bytes, the size of a tag and a divisor of every
header length. A frame is a packet in its memory. It has a sequence of tags, the
first four bits of the units in which a version is looked for, and perhaps an IP
header at a unit. `end` is where the packet's buffer ends (`skb->tail`), `reach`
where readable memory ends: `bpf_probe_read_kernel` fails behind `reach` and
knows nothing of `end`. A field read from a place that does not hold the
packet's own has the value in `other`, which the property tells from the
packet's; a tag read behind the end may be any tag. The loop of `get_l3_header_offset`,
each read, and `format_tuple` are steps. `AgreesWithPacket` compares the result with
`Packet!SetTuple`, given what memory holds.

The code never compares a read with the end of the packet, and tells IP by its
version alone (`skbtracer.bpf.c:193`), never by the protocol. So it prints bytes
that are not the packet's addresses, protocol or ports in these cases, all of them in the model:

- a packet that is cut off (or whose headers are not in its linear part), with
  readable memory behind it: the rest of the headers is taken from there, and
  the search advances over tags that are not there;
- a payload that is not IP and begins with 4 or 6: an LLC frame (0x42, as the
  spanning tree protocol has), an MPLS label, the third tag of a frame;
- a later fragment: its payload is shown as ports.

`TupleTrue` says that these are all the cases: every field that the packet holds is
shown as it holds it, whatever is behind its end, and where all tags are there a line is
printed only if what follows them begins with 4 or 6. `IpSeen` is the other
direction: a packet with its whole headers is shown.

The frames are those received: `network_header` is behind the Ethernet header, and
`protocol` is what stands there. `FramesAssumption` says the rest, and limits
the theorems: `tags` are at most two, as many as the code looks for (a third is
part of the payload, which is then not IP), the packet's own bytes can be read, and an IP
header has a version of 4 or 6 and at least its 20 or its 40 bytes.

### Names

The caches are sets of pairs, so that it is a property that they are functions.
`Number` stands for a pid or index shown where a name should be. Reading a comm
file is two steps, `OpenComm` and `ReadComm`, between which the process may end.
The lookup of an interface is one step: `if_indextoname` finds the name, finds none,
or fails for want of a socket (`failedIf` remembers of which interface); either way a
failure is not cached. Pids and indexes are reused:
`ProcChanges` and `IfChanges` give any name to any of them. `hadProc` and `hadIf` are
the history the properties speak of. The functions that empty the caches are
called by tests only.

### WallClock

Two clocks go at the same rate; `SetClock` moves one. `get_boot_realtime_ns` is
two steps, and `gap` measures the time between. Division and remainder are those
of C++ (`Quot`, `Rem`), which round to 0. `SetClock` keeps the wall clock later
than the boot by at least `MaxMono`, as Linux keeps it after the boot.

## Runs

| Run | Instance | Shows |
|---|---|---|
| `capture` | 2 CPUs, 4 kinds of packet, buffer of 2, 3 reservations | `TypeOK`, `PrintedTruthfully`, `PrintedAgreesWithFilter`, `TimesOrderedPerCpu`, `BusyIsOwned`, `ImplementsTraceLog` |
| `capture_live` | 2 CPUs, 1 packet, fairness | `Delivered`, `StopObserved` |
| `filter_inject` | both stubs and up to 2 more subprograms in every order, filters of 2, 7, 9 | `CallsResolved`, `BodiesWhole`, `FiltersInstalled` |
| `filter_run` | 873 programs, 5 packets | `Simulates`, `VerdictRight`, `ReadsInPacket`, `Verifiable` |
| `startup` | 10 functions, one name with two of them, 2 modules, 3 selections, 3 limits, signals | `TypeOK`, `ArgumentRight`, `AttachedAll`, `NothingLeft`, `DependentsFirst`, `EarlyStopKept` |
| `options` | 52 command lines, 2 namespaces, a path, 2 names, 2 changes, words of 2 and 4 bits | `HomeAgain`, `NoFdLeft`, `IfindexOfTarget`, `FiltersAsAsked` |
| `filter_compile` | both link types, filters of 2, 7, 9 | `NothingLeaks`, `PreparesFilters` |
| `tuple` | 5 stacks of tags, 6 kinds of payload, 4 protocols, 19 lengths, 3 ends of memory, 3 contents of other bytes | `AgreesWithPacket`, `TupleTrue`, `IpSeen` |
| `names` | 2 pids, 2 namespaces with 2 indexes, 2 names of each kind, 2 changes | `ProcNameHeld`, `OneNamePerPid`, `IfaceNameHeld`, `OneNamePerIface`, `IfaceNamed` |
| `wall_clock` | 3 events in 5 ticks, clock set twice, seconds of 4 ticks and milliseconds of 2 | `DifferencesKept`, `RightIfSteady` |
| `startup_all` | as `startup`, no selection | `TracesAllSkbFuncs` is violated |
| `tuple_column` | whole frames with TCP or a hop-by-hop header | `ShownAsHelpSays` is violated |

Bounds. `MaxEvents = 3` with `Capacity = 2` lets the buffer fill up, lose an
event, be freed and be used again, with two records busy at once in
either order; `ReserveFails` treats the bound as a full buffer, which the code
handles alike. A third CPU adds no order of two records that two CPUs do not
have. The four kinds of packet are TCP, ICMPv6 that belongs to the traced namespace
only by its socket, one of another namespace and one with another mark; what
becomes of every other header is `tuple`'s business, and of every other filter
`options`'s. The stub of length 7 is shorter than, as long as and longer than the
three filter lengths, and 2 is that of the constant filter. The programs of
`filter_run` put each instruction on operands below, at and above half a word,
each jump on all pairs of offsets from 0 to 2, and each load on offsets inside,
at the end of, and beyond the packet and the word. Two changes of the system are
enough to replace a file or interface and to put the old one back; a third finds
nothing new to come between, since each property relates one lookup to one use,
or two lines. In `options` words of 2 bits have numbers below, at and beyond their
end with and without a sign, and 4 bits are wide enough that a negated number
can come out small. The frames of `tuple` end after each unit up to the end
of the longest (two tags, an IPv6 header and a TCP header need 17), and memory
with them, 2 units further, within most headers, or 20, behind all of them; the
other bytes look like TCP, are of an unknown protocol with a header length below 5, or are zero. In
`wall_clock` events fall into every part of a second and a millisecond, before
the first reading, between both and later. `CHECK_DEADLOCK` is off where
the modelled activity ends by itself (a loop that returned, a filter that
exited, a process that ended).

Fairness. In `Capture` each CPU's program is weakly fair, since the verifier
admits only programs that end and the kernel does not preempt them for ever, and
so is the loop, a thread the scheduler runs and whose wait has a
timeout of 100 ms. Packets, signals, interruptions and errors are not fair: they
may never come. `StopObserved` uses that events are finitely many: while
programs write faster than lines are printed, `ring_buffer__poll` does not
return and `exiting` is not tested. In `Startup` the main thread is weakly
fair, through `main` and the destructor, except that `run` may wait for a signal
for ever. The other modules state safety only: they are sequences of calls that end.

What a reader of the trace may rely on, then: lines are in the order of
reservation, each once, none invented; a line shows one event and nothing of
another, and what the packet has of its headers as it has it (what it does not
have may be filled with bytes from behind it); lines of one CPU are ordered in time, but lines of different CPUs need
not be; events may be missing anywhere, without notice; the last ones may be
missing after a signal, which ends the program unless it comes while the
`TraceMgr` is being constructed. A name is one that the pid or interface has had; wall-clock
times keep their distances, and are right as long as nobody sets the clock.

### Disagreements

`startup_all`: the help text says that without `--filter-func` all kernel skb
functions are traced (`src/cfg/options.cpp:20`, `src/app/main.cpp:50`), but
`load_all_kmod_btfs` matches the whole of each line of `/proc/modules` with a
pattern for two fields, and those lines have at least six. No function of a
kernel module is ever found.

`tuple_column`: the help text (`src/cfg/options.cpp:25`) lists `tcpflags` among
what `-T` prints; they are read into the record and printed nowhere. And
`format_tuple` takes protocol 0 for an empty tuple, while it is also the number
of the hop-by-hop header with which an IPv6 packet may begin: such a packet
shows as `-`.

More things met on the way that no run counts as a violation, since no document,
comment or test says otherwise of the program:

- A signal that interrupts the constructor of `TraceMgr` is lost and leaves the process
  hanging (`trace.h:9`); see `Startup`.
- Lines show other bytes than the packet's where the packet ends early or is not
  IP; see `Tuple`.
- `-m 0` and `-n inode:0` are accepted and filter nothing. `FiltersAsAsked` takes
  0 to ask for nothing, as the programs do.
- The test of VLAN detection (`tests/test_trace.cpp:167`) demands that the offset
  stays in a buffer too short for a tag ("Must not advance beyond available
  buffer"). It tests a copy of the function, with a comparison with the length
  that the one in the program does not have (`skbtracer.bpf.c:43-45`): there the
  offset advances, whether or not the read failed. If it did not fail, the line may
  come from behind the end of the packet: the first of the cases in `Tuple`.
- Of several kernel functions of one name the last one found decides which
  register is read (`symdb.cpp:169`); the kernel decides which of them is
  probed. `ArgumentRight` is about one of them. And a register is a position
  among the parameters: a struct passed by value before the packet, which takes two
  registers, is not in the model.
- The search takes `skb->protocol` for the protocol at `network_header`. When the
  kernel itself inserts a tag into a frame that it sends, `protocol` is the tag's
  and `network_header` is behind it; the tuple of such a frame is then read 4
  bytes into the IP header. How the kernel leaves such a frame is not in this
  repository, and the frames of `tuple` are received ones.

## Proofs

All theorems hold for every value of the constants that satisfies the named
assumptions (`SkbsAssumption`, `CfgAssumption`, `StaleAssumption`,
`CapacityAssumption`, `MaxEventsAssumption`, `NoSkbAssumption`; in
`FilterInject` `KindAssumption`, `StubLenAssumption`, `LensAssumption`,
`SizeModAssumption`, `ObjectsAssumption`; in `FilterConvert` `SizesAssumption`; in
`FilterRun` `BitsAssumption`, `MemoryAssumption`, `PacketsAssumption`,
`ProgramsAssumption`; in `FilterCompile` `LensAssumption`; in
`Startup` `KernelAssumption`, `ChoicesAssumption`; in `Options`
`CommandLinesAssumption`, `WidthsAssumption`, `FilesAssumption`,
`InterfacesAssumption`; in `Tuple` `FramesAssumption`; in `Names`
`NamesAssumption`; in `WallClock` `ClocksAssumption`). TLC evaluates each of them
in the run of its module. Some of them say more than a type:

- `FilesAssumption`: two files with the same device and inode are one, on which the
  comparison of `resolve_ifname_in_netns` relies, and inodes of namespaces are
  positive numbers of 32 bits, as the kernel allots them.
- `WidthsAssumption`: an `unsigned long` is as wide as `uint32_t` or a multiple of it.
- `KernelAssumption`: there are finitely many names of functions.
- `ClocksAssumption`: the wall clock is later than the boot.
- `BitsAssumption`: the bitwise operations, which are constants, take words to
  words, and `0xf` cuts out the low half of a byte. Nothing else is used of them: both
  machines apply the same operation.
- `PacketsAssumption`: a packet has at most 2^31 bytes (the head of an `sk_buff`
  is far smaller). `emit_packet_load` relies on it when it compares
  offsets as signed numbers.
- `MemoryAssumption`: there is scratch memory (`BPF_MEMWORDS`), and packet and frame
  lie where adding an offset to their addresses does not wrap 64 bits.
- `ProgramsAssumption` and `FramesAssumption` are described with their modules.

The proofs:

- `CaptureProofs`: the safety properties of run `capture`. None is inductive by
  itself: that a printed line is true depends on the record having been true
  when it was submitted. `IInv` adds who owns a busy record (`Ownership`),
  that a filled record is exactly what `FillEvent` writes over stale memory and
  its packet passed the filter (`Contents`), that a CPU reserves again only after
  it submitted and so fills with a later time (`CpuOrder`), that the printed
  lines are the submitted beginning of the ring (`Lines`), and what their shown
  times are (`Times`). Theorem `Invariance` has one lemma per action;
  `TypeCorrect`, `Truthful`, `AgreesWithFilter`, `TimesOrdered` and `NoOrphan`
  follow from it. `Refinement` is `Spec => ImplementsTraceLog`: a reservation is
  an `Accept`, a submission a `Complete`, a printed line an `Emit`; every other
  step stutters. It uses `IInv`, for example to know that a printed record is not
  busy.
- `FilterInjectProofs`: `CallsSurvive`, `BodiesSurvive`, `FiltersArrive`, for
  every program that libbpf can hand over, any number of functions and stubs,
  any lengths. `InjectedAt` says what an injection puts at each position;
  `ResolvedKept` and `WholeKept` compare each instruction with its target or
  neighbour by where both lie relative to the cut. The invariant adds where
  the stubs not yet replaced are: at their old position plus `offset`.
- `FilterRunProofs`: all properties of run `filter_run`, for every classic program
  that meets `ProgramsAssumption`, every packet, and words of every size:
  `bpf_convert_filter` is right (next section).
- `FilterCompileProofs`: `NothingLeaks`, and that the compilation implements
  `FilterInject!PrepareFilters`. What is held is a function of the next call and
  of the error so far (`Held`), which each action preserves and which is empty
  where the property asks; `Compiled` says that a link type that is done without
  an error has its filter, from which `Combine` is `PrepareFilters`.
- `StartupProofs`: all safety properties of run `startup`. `LinksInv` says that the
  probes in place are those in the list and that each function requested is
  attached, still to do, or cannot be attached; `InstanceInv` what the instance
  holds at each phase, whoever constructed it. `ParamPosFirst` shows that
  the position chosen is the first, by well-founded order on the numbers.
- `OptionsProofs`: the four properties of run `options`. `Place` says where
  the process is at each call, `Fds` what is open, `Index` what the index is
  worth. The heart is that both the id and the lookup come from the one open
  file, so that no change of a path can part them. `FiltersTrue` compares what the
  programs are given with an independent reading of the whole command line.
  Its invariant `AsRead` is that of a loop: the arguments are those of the options
  already read, of which the last of each kind counts. Arithmetic enters once, for a
  negated number: taken from a multiple of 2^32 it is itself or refused.
- `TupleProofs`: the three properties of run `tuple`, for frames of every length,
  cut anywhere, with any bytes behind. The invariant follows the search: the protocol at
  hand is that behind the tags passed so far, as long as these are in the packet,
  so that a search in the packet ends behind its tags; once it has left the packet
  nothing is claimed of what it finds.
- `OutputProofs`: the five properties of run `names` and both of `wall_clock`. What
  was shown is still in the caches, the caches are functions of their keys, and an
  entry was once true. A line shows the offset
  plus its event's time, cut to a millisecond (`Cut`, from the lemma
  `CutToMillis` on truncating division), and while nobody sets the clock the
  offset is right but for the gap (`Steady`).

### That bpf_convert_filter is right

`Simulates` speaks of the moments at which a block begins, and is not inductive:
inside a block the registers hold halves of results. The invariant `IInv` of
`FilterRunProofs` therefore has an assertion for every position of every kind of
block, in terms of the classic machine `ref`, which waits at the instruction that
the block was made from: for example, behind the first comparison of a packet load
R2 holds the offset and it is not negative, behind the two loads R4 and R5 hold the
packet's bounds, and at the call R1 to R3 are the arguments of a read that lies in
the packet. It is what one would write next to the
instructions in `bpf_convert.c`.

1. *Where things are.* `Convert` is one function over all positions. From the
   lengths of the blocks the lemmas derive that the blocks lie one after the other,
   that each position belongs to one block, and what instruction is there
   (`Located`, `ConvertBlock`), jumps with their final offsets: a jump that leaves
   its block arrives at the first instruction of the block it was compiled for.
2. *What instructions do.* Lemmas on arithmetic: sign extension and cutting undo
   each other, 2^n is positive, a number is made of its bytes and a number
   turned around twice is itself, what is stored in the frame is loaded again
   and leaves the other words alone, 64-bit addition of addresses does not wrap.
3. *Blocks.* For each kind of block, one lemma for each of its instructions: the assertion
   at this position and the step give the assertion at the next one, or, where the
   block ends, the assertion at the beginning of another block with `ref` one step
   further. Packet loads come first, since loads and `MshBlock` share them; a
   jump has four shapes, with and without a negative constant.
4. *All steps.* `Inductive` puts the prologue and all blocks together. The classic
   machine's own steps preserve `RefInv`: its words are words, and the scratch
   words that `StoredBefore` promises are defined.
5. *What follows.* At every position the assertion says that the next instruction
   reads nothing undefined (`AlwaysSafe`), that a call reads within the packet, and
   that the answer at an exit is that of the classic program.

There is no induction over programs in it: each step concerns one block, and that the steps
add up is the induction that TLAPS has built in for invariants. Facts about all
numbers (that addresses grow, that powers are positive, that a stored word is
a scratch word) are shown with the well-foundedness of `<` applied to the set of
counterexamples (`Least`).

### What is only model-checked

`Delivered`, `StopObserved` and `EarlyStopKept`: liveness under fairness, which needs
`ENABLED`. Every safety property that a run of this project checks without finding a
violation is also stated by a theorem.

## Not modelled

Text: columns, calendar times, the regular expressions, the reading of digits.
libpcap, libbpf's loading and CO-RE, the verifier beyond uninitialised reads and
leaving the program. Frames with more than two tags, which the code does not
look for either, other than as payload; frames that are sent with a tag
inserted; what IPv6 extension headers hold (each is a protocol to the code). A
packet that changes between two reads of it.
Length, MTU and protocol of a record. The lookups of symbols, which change no
state. `detach_skb_func` and the functions that empty caches: nothing in `src/`
calls them but tests, and a model of them would have states the program cannot
be in. Events without a namespace (`netns` 0) in `Names`. A namespace that dies
after its descriptor was closed, whose inode number another one may get.

## Plan

1. `Packet`, `Capture`, `TraceLog` and their proofs (done): the core.
2. `FilterInject` with proofs, `FilterConvert`, `FilterRun`, `Startup` (done).
3. `Options`, `Names`, `WallClock`, `FilterCompile` with proofs, `Tuple`, and the
   limits and the destructor in `Startup` with its proofs (done).
4. The converted filters, the tuple column and the reading of the command line
   proved for every program, frame and command line (done).
5. Left: the composition of `Startup` with `Capture`, so that a stop request is
   followed from the handler into the loop in one behaviour; a composition of
   `FilterCompile` with `FilterConvert`, which takes the length of the converted
   program instead of a free one.
