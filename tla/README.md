# TLA+ models of the p4bricks linker

These modules model the run-time linker of p4bricks: `Linker::add_p4objects`
and everything it calls. The linker merges the compiled objects (`P4Objects`)
of several P4 programs into one running artifact. Its parts, under
`src/src/bm_sim/linker/` and `src/include/bm/bm_linker/`, are:

- `LinkerUIDTableGeneric<T>` (`linker_commons.h`). A two-index table:
  - forward: `p4_name.object` → linker value + link state;
  - reverse: linker value → set of (p4_name, object, state).

  The linker keeps three of these: header types, header ids and parse states.
- `HeaderTypeUIDTable` / `HeaderUIDTable` (`link_headers.cpp`).
  - Header types are mapped to canonical types by their field-width signature.
  - Header ids are mapped to merged header ids. A merged id is either taken
    over from a matching running state or freshly allocated
    (`link_new_header_id`, `get_new_header_id`).
- `P4ObjectsLinkerExt` (`p4objects_linker_ext.cpp`). A per-program view: the
  header id → header type map and a BFS/Kahn topological order of the parse
  states.
- `LinkParsers` (`link_parsers.cpp`). The parser merge:
  - `map_ordered_parser_states` tries to match each running state with the
    unmatched states of the new program (`can_link_parser_states`: ops, then
    select key). It then copies unmatched running states and inserts
    unmatched new ones.
  - `merge_parser_states_switch_cases` recursively merges the transitions,
    starting from the two init states.
- `Linker` (`linker.cpp`). Drives the above for one program. It then
  publishes the merged objects as the new running view and rebuilds the
  running `P4ObjectsLinkerExt` from them.

- The `simple_linker` target (`src/targets/simple_linker/`). `LinkerSwitch`
  owns one `Linker`:
  - at start-up it adds the command-line program as `"p4.1"`;
  - `add_config` (the thrift `p4_program_config_add`) adds a program;
  - `SimpleLinker`'s receive, pipeline and transmit threads move packets
    through two bounded `bm::Queue`s.

Interaction: one `add_p4objects` call reads the running view (the previous
merge) and the three tables, and writes all of them. Nothing locks the
`Linker`: the thrift handler (`LinkerSwitch_server.cpp:42`) calls
`add_config` on whichever server thread serves the request, so two calls can
run at once on the same tables, the same running view and the same
`linked_parse_state` map of `LinkParsers`.

## Modules

| module | models | state / actions |
|---|---|---|
| `UidTable` | `LinkerUIDTableGeneric` | Operators over a table value `[fwd, rev]`: `InsertLink`, `UpdateLink`, `LinkStateOf`, `IsLinked`, `LinkOf`, `LinkerUids`. The reverse set is a function keyed by (p4_name, val), because `LinkValueState` compares and hashes on those two fields only. |
| `UidTableSpec` | the same class, driven by arbitrary callers | Variables `table` and `lastCode`. Actions `Insert` and `Update` over small sets of programs, values, link values and states. |
| `ProgramView` | `P4ObjectsLinkerExt` | A program is a `P4Objects` record (`types`, `headerIds`, `headerTypes`, `states`, `parsers`). `ExtView` is `init_extended_objects`: the view (`types`, `hdrs`, `states`, `init`) the linker reads, built with `HeaderIdTypeMap` (`init_header_id_to_header_type_map`) and `ExpandedParser` (`expand_all_sub_parser_calls`, which takes the first parser and expands no sub-parser calls). `InDegrees` and `KahnLoop`/`TopologicalOrder` translate `bfs_topological_ordering_of_parser_states`, including the `unsigned` decrement (`DecDegree`, modulo 2^DegreeWidth). Also `Reachable`. |
| `Linker` | `Linker::add_p4objects` + `LinkParsers` + `HeaderUIDTable` + type registration | See below. |
| `PacketChannel` | what the `SimpleLinker` data path promises | Abstract `arrived`, `q`, `out`, `gone` with `Arrive`, `Send` (the oldest packet in flight) and `Drop` (any packet in flight), weakly fair `Leave`. `LinkerSwitch` maps its buffers onto `q` (`InFlight`: output buffer, pipeline, input buffer) and checks `ImplementsChannel`. |
| `LinkRegistry` | spec 4.1, the link-table contract | Abstract `links` (object → value + state) with `Insert` and `Update`. `UidTableSpec` maps its forward index onto `links` and checks `ImplementsRegistry`. |
| `LinkerSwitch` | `LinkerSwitch`, its thrift handler, `SimpleLinker` | Extends `Linker`. `BootLink`/`BootDone` (`init_objects_`), `ConfigAdd`/`ConfigAddBad`/`ConfigReply` (`add_config` and the handler), `Receive`, `PipelinePop`, `PipelinePush`, `Transmit` (the packet threads). Linker steps, all on one thread `Conn` (one controller connection), interleave with the packet threads. |
| `MC_LinkerSwitch` | model values for TLC | The boot program (ProgA renamed `"p4.1"`), ProgB as the controller's config, two packets. |
| `MC_Linker` | model values for TLC | Eight small Ethernet programs, as `P4Objects` records whose headers are named by their ids (`NamedById`) (IPv4, ARP, IPv6, VLAN, MPLS, TCP, an EtherIP back edge, a header extracted in two states) and the program sets of the runs. |

`Linker` runs `add_p4objects` on each thread of the constant set `Threads`.

- State shared by all threads: the three tables, `typeObjs`/`typeId`,
  `running`, `lps` (the member `linked_parse_state`, name → object) and
  `heap` (the `ParseStateExt` objects, by address).
- State of each call, a function over `Threads`: `pc`, `prog`, `order`,
  `rp`/`rpOrder` (the running view the call started from), the loop
  positions, `initExt`, the recursion stack, `call`, `ret`, `result`.
- A frame holds object addresses, as the code holds pointers. When another
  thread clears `linked_parse_state`, a call keeps updating the objects it
  already holds. `ClearedHeap` drops only the objects no call holds any
  more; the code leaks them, and address reuse among unreachable objects is
  not observable.
- A lookup of a name missing from the map gives NULL (`Lookup`), as
  `operator[]` gives `nullptr`; entering the merge with it is a crash
  (`parse_state_ext->` at link_parsers.cpp:254).
- Each action is one atomic step. The model interleaves whole steps of
  different calls, not the inside of one `unordered_map` operation; those
  finer races are undefined behaviour the model does not enumerate. The
  running view a call snapshots at entry (`rp_ordered_states`, a reference
  into an object another call may release) is taken to stay readable.
- A crash (`crash # NULL`) ends the process: no thread steps after it.

`pc[t]` follows thread t's call:

- `AddP4Objects(P)`:
  - type registration (`init_type_mapping`, `RegisterTypes`): each type's
    signature (`HeaderTypeUid`, the bit widths joined by `-`, a
    variable-length field giving `VL_max_header_bytes`) is inserted in the
    type table, and each SUCCESS insert stores a new canonical object
    `[id, def]` under the signature in `typeObjs`, numbered by `typeId`;
  - `init_extended_objects` (`TopologicalOrder`);
  - the entry to `link_parser`.
- `"match"`: `map_ordered_parser_states`.
  - `i` and `j` are its two loop positions and `linked` its
    `parse_state_linked` vector.
  - Actions: `MatchFound`, `MatchFailed`, `MatchCrash`, `CopyRunningState`,
    `InsertNewState`, then `MergeInitStates` (the init state chosen at line 45).
- `"cases"`: `merge_parser_states_switch_cases`.
  - The recursion is an explicit stack of frames (`EnterMerge`,
    `MergeNewCase`, `MergeRunningCase`, `AfterCall`, `FinishMerge`).
  - Each frame is `(ps, rp, ext, idx, rpMap, key, child)`.
  - `call` is the pending call and `ret` the value returned last.
  - The running state's remaining cases come from an `unordered_map`, so
    their order is a nondeterministic choice (`\E k`).
- `PublishMerged`: the rest of `add_p4objects`, which builds the header maps
  (`MergedObjects`) and replaces the running view. It does this whatever
  `link_parser` returned, as the code does.
- `"crashed"` is terminal. It models:
  - a null dereference (`rp_header_type->get_name()` on an id with no type);
  - re-entering a merge already on the stack. The code recurses until the
    stack overflows, because the merged flag is set only at line 343.

What is abstracted:

- A header type is its sequence of field widths and its VL byte bound;
  field names are not kept, as the signature ignores them.
- Only exact-match switch cases and `extract` ops are represented. The code
  links only those and only logs the others.
- Parse state ids are not modelled.

## Runs

All `MC_Linker` cfgs set `LinkerName = "Linker"`, `DegreeWidth = 16` and
`CHECK_DEADLOCK FALSE`. Once `MaxAdds` adds are made, or after a crash, the
system rightly stops.

| run | cfg | expect | shows |
|---|---|---|---|
| uid_table | `UidTableSpec.cfg` | pass | `IndicesAgree`: after any calls the two indices agree, link states included (the TABLE_INCONSISTENT returns are unreachable). |
| uid_table (refinement) | `UidTableSpec.cfg` | pass | `ImplementsRegistry`: the table's forward index, as seen by callers, implements `LinkRegistry` (refuse a mapped object, update only a matching link). |
| link_good | `MC_Linker.cfg` | pass | Up to 3 adds of {IPv4, ARP, IPv4+IPv6} programs, in any order and with repeats. Header ids keep one type (`HeaderLinksTyped`), no merged id stands for two headers of one program (`OneHeaderPerId`, the class comment of `LinkerUIDTableGeneric`, which `insert_p4objects_link` does not enforce), every extract resolves (`ExtractsResolvable`), a STATE_LINKED publish keeps both parsers (`LinkPreservesParsers`), every header id's type is published in the merged view (`HeaderTypesPublished`), the merge is never entered with a null `ParseStateExt` when one thread adds (`NoNullStateExt`), and every add returns (`AddReturns`). |
| link_faults | `MC_Linker_faults.cfg` | pass | Two threads, two adds, with a back edge to start, an MPLS self-loop and a doubly extracted header: ids stay typed and one header per program (`OneHeaderPerId`) and every add returns or the process dies (`AddReturns`), including when one call crashes on the other's cleared map. |
| link_overflow | `MC_Linker_overflow.cfg` | violation | `NoCrash`: a back edge to start makes the merge recurse forever (link_parsers.cpp:343). |
| link_selfloop | `MC_Linker_selfloop.cfg` | violation | `FirstAddLinks`: states on a cycle that avoids start are dropped from the Kahn order (p4objects_linker_ext.cpp:153-154), so even the first program fails to link. |
| link_rollback | `MC_Linker_rollback.cfg` | violation | `FailedAddKeepsRunning`: a failed link is published anyway (linker.cpp:57). |
| link_dangling | `MC_Linker_dangling.cfg` | violation | `ExtractsResolvable`: `link_new_header_id` rewrites its hint before an insert that fails, and the extract gets an id no header has (link_headers.cpp:189). |
| link_race | `MC_Linker_race.cfg` | violation | `NoNullStateExt`: two threads add programs at once; the second call's `linked_parse_state.clear()` (link_parsers.cpp:30) empties the map after the first call filled it, and the first merges its init state through a null `ParseStateExt`. |
| link_lost_transition | `MC_Linker_losttransition.cfg` | violation | `LinkPreservesParsers`: a matched running state first reached through a new, non-colliding case is merged with `rp = nullptr` and loses its own transitions (link_parsers.cpp:316). |
| link_type_objects | `MC_Linker_typeobj.cfg` | violation | `CanonicalTypeStable`: a second program declaring a known header type replaces its canonical object with a new one under a new id (link_headers.cpp:49), against spec 4.2. |
| switch | `MC_LinkerSwitch.cfg` | pass | Boot, a controller add and two packets, interleaved with the linker steps: queues stay within capacity (`SwitchTypeOK`), every received packet is eventually sent or dropped (`EveryPacketLeaves`), and the data path implements `PacketChannel` (`ImplementsChannel`): packets are sent in arrival order, only the pipeline drops, nothing is duplicated or lost, and a packet in flight keeps leaving. |
| switch_acked | `MC_LinkerSwitch_acked.cfg` | violation | `AckedProgramServed`: `add_config` acknowledges a program, but the pipeline still parses its packets with the boot program's own objects (linker_switch.cpp:63, 128). |

Every property of a pass run has a mutant in `PROJECT.json`. The mutant is an
operator in the module that changes one mapped definition the way a plausible
bug would, for example:

- a dropped hint check in `FreshHeaderId`;
- a forward-only update in `UpdateLink`;
- a case not added after a recursive call;
- a stuck candidate index.

TLC finds each property violated under its mutant.

## Bounds, fairness

- `Threads = {t1}` except in link_faults and link_race, which use two
  threads and `MaxAdds = 2`: one add on each thread is all an interleaving
  of two calls needs, and link_faults then takes under two minutes.
- `MaxAdds` is 3 for link_good. That is enough for:
  - every ordered pair of programs;
  - a program added on top of a two-program merge;
  - a program re-added.

  The violation runs use the fewest adds that show their behaviour (1 or 2).
- In-degrees are `unsigned` (32 bits) in the code. TLC's integers cannot hold
  2^32, so `DegreeWidth = 16`. This is sound here:
  - degrees stay below 10;
  - the only wrap is 0 − 1, and what matters about it is that the result is
    a large non-zero value, which holds for any width.
- `Linker` fairness: `WF_vars(LinkStep(t))` for every thread t, and nothing else.
  - Once started, `add_p4objects` runs to completion on its thread without
    waiting on anything, so its steps are weakly fair.
  - New adds are requests from the control plane and are not assumed to
    happen.
- `LinkerSwitch`: `InCap = 2` and `OutCap = 1` stand in for 1024 and 128.
  With two packets both the full input buffer and the full output buffer
  are reached, which is where the blocking waits matter. `MaxAdds = 3`
  allows the boot add and two controller adds. A third packet multiplies
  the state space without a new ordering case.
- `LinkerSwitch` fairness: the linker steps, `BootDone`, `ConfigReply` and
  the pipeline and transmit threads are weakly fair. Each is a thread that
  runs whenever it is not blocked on a queue. Packet arrivals and
  controller requests are not fair: they come from outside.
- `UidTableSpec` uses 2 programs, 2 values, 2 link values and 2 states. That
  is enough for every branch of `insert`/`update`, and for two programs
  sharing one linker value.

## Not modelled

- Concurrent controller requests in `LinkerSwitch`. The composition uses
  one controller connection (`Conn`); concurrency of `add_p4objects` itself
  is checked in `Linker` alone (link_faults, link_race).
- The key-rewrite behaviour at link_parsers.cpp:224 (an inserted state's
  select key keeps the program's local header id) is in the model and is
  covered by `LinkPreservesParsers`, but it no longer has a violation run
  of its own.
- JSON parsing in `add_config` and `init_objects_` (I/O): abstracted to
  success (`ConfigAdd`) or failure (`ConfigAddBad`).
- `delete_config`, `load_new_config`, `swap_configs`, `remove_config` and
  `mt_get_num_entries`: they return a constant and change no state.
- The P4 ingress/egress tables: the egress decision is a choice between
  the drop port and a forwarding port.
- Header types with variable-length fields in the runs. `HeaderTypeUid`
  computes their signature as the code does, but spec section 1 lists such
  headers as rejected inputs. The collision of a byte bound with a bit
  width (link_headers.cpp:129) is a hazard without a property.
- Sub-parsers, masked switch cases and non-extract parser ops. `expand_all_sub_parser_calls` expands nothing in this code; it returns the first parser, which `ExpandedParser` models.
- The dangling `rp_ordered_states` reference (link_parsers.cpp:41) when another thread's publish resets the running view (linker.cpp:77). Reading freed memory is undefined; the model keeps the released view readable, and the race on `linked_parse_state` (link_race) is reached first.
- The variable-length signature collision (link_headers.cpp:126): a hazard without a property, since spec section 1 rejects variable-length inputs.
- `pkt_id` in `SimpleLinker` (simple_linker.cpp:48): it only labels trace output, so the packets are model values.
- `linker_switch.h`: declarations and commented-out pass-throughs.
- Trace macros (logging).

## Plan for later sittings

- Programs with two extracts per state, to reach the iterator bugs at
  link_parsers.cpp:384 and 422.
- A state keyed on a header that it does not extract, which reaches the
  `end()` dereference at link_parsers.cpp:464.
- A pair of states whose key width differs (link_parsers.cpp:482).
- An abstract "merged parser = union of parsers" specification, with
  `Linker` shown to refine it on the programs it links (the link table
  refines `LinkRegistry`, the packet path refines `PacketChannel`).
- Each of the first three items is a violation run; the project is at its
  limit of twelve runs, so one must replace a weaker one.
