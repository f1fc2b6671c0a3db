---------------------------- MODULE ProgramView ----------------------------
(***************************************************************************)
(* P4ObjectsLinkerExt (src/bm_sim/linker/p4objects_linker_ext.cpp): the   *)
(* per-program view the parser linker reads, built by                     *)
(* init_extended_objects from a P4Objects, a record                        *)
(*   [name        : the name the objects are submitted under,              *)
(*    types       : header type name -> [fields : Seq(width or VL), vlMax],*)
(*    headerIds   : header name -> header id (header_ids_map),             *)
(*    headerTypes : header name -> header type name (header_to_type_map), *)
(*    states      : parse state name ->                                    *)
(*                    [ops : Seq([kind, hdr]),                             *)
(*                     key : Seq([hdr, off, bw]), cases : Seq([key, next])],*)
(*    parsers     : parser name -> name of its init state].                *)
(* The view (ExtView) is                                                   *)
(*   [name, types, hdrs : header id -> header type name, states, init].    *)
(* ops keeps the kind of each parser op (only "extract" is linked;        *)
(* anything else is "unsupported").  Only exact-match switch cases are    *)
(* represented.  A header type keeps its fields' bit widths in order (VL  *)
(* for a variable-length field) and VL_max_header_bytes.                  *)
(***************************************************************************)
EXTENDS Integers, Sequences, FiniteSets, SequencesExt, Functions

CONSTANT DegreeWidth   \* bit width of the `unsigned` in-degree counters

(***************************************************************************)
(* HeaderTypeUIDTable::get_header_type_uid_from_field_seq: each field's   *)
(* bit width followed by "-"; a variable-length field contributes          *)
(* VL_max_header_bytes, a number of bytes, instead.                        *)
(***************************************************************************)
\* The width recorded for a variable-length field (it has no fixed width).
VL == -1

HeaderTypeUid(ht) ==
  FoldLeft(LAMBDA uid, f :
             uid \o ToString(IF f = VL THEN ht.vlMax ELSE f) \o "-",
           "", ht.fields)

\* next_state of each switch case of state s, in parser_switch order.
Neighbours(P, s) ==
  [x \in 1..Len(P.states[s].cases) |-> P.states[s].cases[x].next]

\* --name_degree_state_map[state] on an unsigned: 0 wraps to the maximum.
DecDegree(d) == (d - 1) % (2 ^ DegreeWidth)

\* ++name_degree_state_map[s_name] over every case of every parse state.
InDegrees(P) ==
  [s \in DOMAIN P.states |->
     FoldFunction(+, 0,
       [t \in DOMAIN P.states |->
          Cardinality({x \in 1..Len(P.states[t].cases) :
                         P.states[t].cases[x].next = s})])]

(***************************************************************************)
(* The queue loop of bfs_topological_ordering_of_parser_states: pop the   *)
(* front, append it to the order, decrement the in-degree of each        *)
(* neighbour and enqueue those that reach 0.  The init state is enqueued *)
(* first whatever its in-degree, so a back edge to it enqueues it again; *)
(* a state on a cycle that avoids the init state never reaches 0 and is  *)
(* left out of the order.                                                 *)
(***************************************************************************)
RECURSIVE KahnLoop(_, _, _, _)
KahnLoop(P, deg, queue, order) ==
  IF queue = <<>> THEN order
  ELSE
    LET cur == Head(queue)
        visit(acc, n) ==
          LET d == DecDegree(acc.deg[n]) IN
          [deg  |-> [acc.deg EXCEPT ![n] = d],
           push |-> IF d = 0 THEN Append(acc.push, n) ELSE acc.push]
        r == FoldLeft(visit, [deg |-> deg, push |-> <<>>], Neighbours(P, cur))
    IN KahnLoop(P, r.deg, Tail(queue) \o r.push, Append(order, cur))

\* ordered_parse_states, as names.
TopologicalOrder(P) == KahnLoop(P, InDegrees(P), <<P.init>>, <<>>)

\* The states reachable from the init state along switch cases.
RECURSIVE ReachFrom(_, _)
ReachFrom(P, S) ==
  LET S2 == S \cup UNION {Range(Neighbours(P, s)) : s \in S}
  IN IF S2 = S THEN S ELSE ReachFrom(P, S2)

Reachable(P) == ReachFrom(P, {P.init})

-----------------------------------------------------------------------------
(***************************************************************************)
(* init_header_id_to_header_type_map: for every header, id -> the type   *)
(* of its name.  Names sharing an id (as in the merged objects) write    *)
(* the same entry in turn; the one walked last stays, and TLC takes one. *)
(***************************************************************************)
HeaderIdTypeMap(nameToId, nameToType) ==
  [id \in Range(nameToId) |->
     nameToType[CHOOSE n \in DOMAIN nameToId : nameToId[n] = id]]

\* expand_all_sub_parser_calls: the first parser of the unordered map,
\* sub-parser calls are not expanded.
ExpandedParser(parsers) == parsers[CHOOSE n \in DOMAIN parsers : TRUE]

\* P4ObjectsLinkerExt(p, O) after init_extended_objects.
ExtView(p, O) ==
  [name   |-> p,
   types  |-> O.types,
   hdrs   |-> HeaderIdTypeMap(O.headerIds, O.headerTypes),
   states |-> O.states,
   init   |-> ExpandedParser(O.parsers)]

=============================================================================
