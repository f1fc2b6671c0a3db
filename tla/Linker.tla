------------------------------- MODULE Linker -------------------------------
(***************************************************************************)
(* Linker::add_p4objects (src/bm_sim/linker/linker.cpp) with everything   *)
(* it calls: header type registration (HeaderTypeUIDTable), the parser    *)
(* merge of LinkParsers (link_parsers.cpp) with the header id             *)
(* allocation of HeaderUIDTable, and the rebuilt running view             *)
(* (P4ObjectsLinkerExt).  One add is a sequence of steps of the thread    *)
(* that runs it:                                                           *)
(*   "match"  map_ordered_parser_states: every running state tries the    *)
(*            unlinked states of the new program in order; unmatched      *)
(*            running states are copied, unmatched new states inserted;   *)
(*   "cases"  merge_parser_states_switch_cases, a recursion kept as an    *)
(*            explicit stack of frames;                                    *)
(*   then the merged artifact replaces the running one.                    *)
(* Threads are the callers of add_p4objects (the thrift server threads).  *)
(* Nothing locks the Linker: the tables, the running view and             *)
(* LinkParsers::linked_parse_state are shared, the locals of the calls    *)
(* are per thread.  Each step of the model is atomic.  The process dies   *)
(* ("crashed", every thread stops) where the code dereferences a null     *)
(* pointer or an end() iterator, or recurses without end.                 *)
(***************************************************************************)
EXTENDS ProgramView, UidTable, FiniteSets, FiniteSetsExt, TLC

CONSTANTS
  Programs,    \* the programs the control plane may submit
  Threads,     \* the threads that may call add_p4objects
  LinkerName,  \* "Linker", the program name of the running view
  NULL,        \* nullptr / absent
  MaxAdds      \* bound on add_p4objects calls explored

ASSUME \A P, Q \in Programs : P.name = Q.name => P = Q

VARIABLES
  \* Per thread (functions over Threads): the locals of one call.
  pc,          \* "idle", "match", "cases" or "crashed"
  prog,        \* the program of the add_p4objects call in progress
  order,       \* its ordered_parse_states (names)
  rp,          \* the running view link_parser started from (or NULL)
  rpOrder,     \* rp_ordered_states, the order of that view
  i, j,        \* positions of the two loops of map_ordered_parser_states
  linked,      \* parse_state_linked: positions of order already matched
  initExt,     \* init_parse_state of link_parser: an object, or NULL
  stack,       \* frames of merge_parser_states_switch_cases
  call,        \* the call of it about to be entered, or NULL
  ret,         \* value returned by the frame popped last
  result,      \* what link_parser returned in the last add
  \* Shared by every thread.
  running,     \* the merged artifact published by the last add (or NULL)
  typeTable,   \* HeaderTypeUIDTable::header_types_link_table
  typeObjs,    \* HeaderTypeUIDTable::linker_header_types: uid -> [id, def]
  typeId,      \* HeaderTypeUIDTable::header_type_id, the next object id
  hdrTable,    \* HeaderUIDTable::header_ids_link_table
  hdrIds,      \* HeaderUIDTable::linker_header_ids_map, <<p, hdr>> -> id
  hdrIdType,   \* HeaderUIDTable::linker_header_id_type_name_map
  stateTable,  \* LinkParsers::parse_state_link_table
  lps,         \* LinkParsers::linked_parse_state: name -> object
  heap,        \* the ParseStateExt objects alive: object -> record
  adds,        \* add_p4objects calls started
  crash        \* why the process died, NULL while it runs

locals == <<pc, prog, order, rp, rpOrder, i, j, linked, initExt, stack, call,
            ret, result>>
shared == <<running, typeTable, typeObjs, typeId, hdrTable, hdrIds,
            hdrIdType, stateTable, lps, heap, adds, crash>>
vars == <<locals, shared>>

-----------------------------------------------------------------------------
(* Helpers of the header tables.                                           *)

\* state_name = p4_name + "." + name, the name of an inserted state.
Fqn(p, s) == p \o "." \o s

IsExtract(op) == op.kind = "extract"

\* Fault variant: the canonical object is filed under the type's name.
RegisterTypesByName(P) ==
  FoldSet(LAMBDA tn, acc :
            LET uid == HeaderTypeUid(P.types[tn])
                r == InsertLink(acc.tbl, P.name, tn, uid,
                                "HEADER_TYPE_DEF_MATCH")
            IN IF r.code = "SUCCESS"
               THEN [tbl |-> r.table, objs |-> Put(acc.objs, tn,
                                  [id |-> acc.next, def |-> P.types[tn]]),
                     next |-> acc.next + 1]
               ELSE [acc EXCEPT !.tbl = r.table],
          [tbl |-> typeTable, objs |-> typeObjs, next |-> typeId],
          DOMAIN P.types)

(***************************************************************************)
(* init_type_mapping: insert_p4objects_link(p, type, signature) for every *)
(* header type (refusals are only logged).  Each SUCCESS makes a deep     *)
(* copy named after the signature with id get_next_id() and stores it    *)
(* under the signature, replacing any object already there.  The         *)
(* unordered_map is walked in some order; TLC takes one.                   *)
(***************************************************************************)
RegisterTypes(P) ==
  FoldSet(LAMBDA tn, acc :
            LET uid == HeaderTypeUid(P.types[tn])
                r == InsertLink(acc.tbl, P.name, tn, uid,
                                "HEADER_TYPE_DEF_MATCH")
            IN IF r.code = "SUCCESS"
               THEN [tbl |-> r.table,
                     objs |-> Put(acc.objs, uid,
                                  [id |-> acc.next, def |-> P.types[tn]]),
                     next |-> acc.next + 1]
               ELSE [acc EXCEPT !.tbl = r.table],
          [tbl |-> typeTable, objs |-> typeObjs, next |-> typeId],
          DOMAIN P.types)

\* get_header_type_mapping(p, tn, rtn) = HEADER_TYPE_DEF_MATCH.
TypesLinked(p, tn, rtn) ==
  LinkStateOf(typeTable, p, tn, rtn) = "HEADER_TYPE_DEF_MATCH"

\* get_new_header_id: the lowest id not in ids.
LowestFreeId(ids) ==
  CHOOSE n \in 0..Cardinality(ids) : n \notin ids /\ \A m \in 0..(n-1) : m \in ids

\* Fault variant: the hint is used even when another program holds it.
FreshHeaderIdUnchecked(ids, hint) == hint

\* Fault variant: a taken hint is replaced by an id of the set (the
\* membership test of get_new_header_id inverted).
FreshHeaderIdTaken(ids, hint) == IF hint \in ids THEN Min(ids) ELSE hint

\* The id link_new_header_id tries: the hint unless a program already has it.
FreshHeaderId(ids, hint) == IF hint \in ids THEN LowestFreeId(ids) ELSE hint

\* Fault variant: the new id is linked but not entered in
\* linker_header_ids_map.
LinkNewHeaderIdUnrecorded(p, h, tn) ==
  LET id == FreshHeaderId(LinkerUids(hdrTable), h)
      r  == InsertLink(hdrTable, p, h, id, "HEADER_LINKED")
  IN [tbl |-> r.table, ids |-> hdrIds, types |-> hdrIdType,
      extracts |-> <<id>>]

(***************************************************************************)
(* HeaderUIDTable::link_new_header_id(p, h, h, tn): insert (p, h) -> id;  *)
(* on success record p.h -> id and the canonical type of id.  Whether     *)
(* the insert succeeds or not the caller extracts id.                      *)
(***************************************************************************)
LinkNewHeaderId(p, h, tn) ==
  LET id == FreshHeaderId(LinkerUids(hdrTable), h)
      r  == InsertLink(hdrTable, p, h, id, "HEADER_LINKED")
  IN IF r.code = "SUCCESS"
     THEN [tbl |-> r.table, ids |-> Put(hdrIds, <<p, h>>, id),
           types |-> Put(hdrIdType, id, LinkOf(typeTable, p, tn).value),
           extracts |-> <<id>>]
     ELSE [tbl |-> hdrTable, ids |-> hdrIds, types |-> hdrIdType,
           extracts |-> <<id>>]

(***************************************************************************)
(* add_parser_ops for an INSERT_NEW state: the loop iterator is never     *)
(* advanced and add_extract_parser_op_regular returns the value the loop  *)
(* treats as failure, so only the first op is looked at; an extract gets  *)
(* a merged header id, anything else ends the loop.                       *)
(***************************************************************************)
InsertNewOps(P, ops) ==
  IF ops # <<>> /\ IsExtract(ops[1])
  THEN LinkNewHeaderId(P.name, ops[1].hdr, P.hdrs[ops[1].hdr])
  ELSE [tbl |-> hdrTable, ids |-> hdrIds, types |-> hdrIdType,
        extracts |-> <<>>]

\* add_parser_ops for a copied (NO_OPS) running state: same loop, the
\* header id is kept.
CopiedOps(ops) == IF ops # <<>> /\ IsExtract(ops[1]) THEN <<ops[1].hdr>> ELSE <<>>

\* link_header_ids for every staged correspondence; refusals are logged.
LinkHeaderIds(t, p, hmap) ==
  FoldSet(LAMBDA h, acc : InsertLink(acc, p, h, hmap[h], "HEADER_LINKED").table,
          t, DOMAIN hmap)

\* Fault variant: the bare state name is recorded instead of p.s.
AddParseStateLinkBare(t, p, s, name) ==
  IF s \in LinkerUids(t) THEN t
  ELSE InsertLink(t, p, s, s, "STATE_MATCHED").table

\* add_parse_state_link: refused when the bare state name is a linker uid.
AddParseStateLink(t, p, s, name) ==
  IF s \in LinkerUids(t) THEN t
  ELSE InsertLink(t, p, s, name, "STATE_MATCHED").table

-----------------------------------------------------------------------------
(* can_link_parser_states and the two checks it makes.                     *)

(***************************************************************************)
(* merge_parser_ops(ops, rops): the inner iterator over rops is not reset *)
(* between outer iterations, so only ops[1] is compared, against every    *)
(* op of rops in order.  Two extracts must have linked header types;      *)
(* ops[1] is staged as linked to each matching rop (the last one stays)   *)
(* and the rop's header is extracted by the merged state.  The running    *)
(* view has no type for an id outside its header table: null deref.       *)
(***************************************************************************)
MergeParserOps(P, ops, rops) ==
  LET a == ops[1]
      step(acc, b) ==
        IF acc.code # "ok" \/ ~IsExtract(a) \/ ~IsExtract(b) THEN acc
        ELSE IF b.hdr \notin DOMAIN running.hdrs
        THEN [acc EXCEPT !.code = "crash"]
        ELSE IF TypesLinked(P.name, P.hdrs[a.hdr], running.hdrs[b.hdr])
        THEN [acc EXCEPT !.hmap = Put(@, a.hdr, b.hdr),
                         !.extracts = Append(@, b.hdr)]
        ELSE [acc EXCEPT !.code = "fail"]
      base == [code |-> "ok", hmap |-> <<>>, extracts |-> <<>>]
  IN IF ops = <<>> THEN base ELSE FoldLeft(step, base, rops)

\* Two key entries with equal bit width and offset (the field is not compared).
SameKeyShape(e, r) == e.bw = r.bw /\ e.off = r.off

(***************************************************************************)
(* link_parse_switch_key(K, R, hmap).  An empty side adopts the other;    *)
(* when R is empty K's header ids are rewritten through hmap, and an id   *)
(* missing from hmap dereferences end().  Otherwise lengths must agree    *)
(* and entries of R whose shape matches K are kept; a mismatching entry  *)
(* is dropped, not refused.                                                *)
(***************************************************************************)
LinkParseSwitchKey(K, R, hmap) ==
  IF Len(K) = 0 \/ Len(R) = 0 THEN
    IF Len(R) # 0 THEN [code |-> "match", key |-> R]
    ELSE IF \E x \in 1..Len(K) : K[x].hdr \notin DOMAIN hmap
    THEN [code |-> "crash", key |-> <<>>]
    ELSE [code |-> "match",
          key |-> [x \in 1..Len(K) |-> [K[x] EXCEPT !.hdr = hmap[@]]]]
  ELSE IF Len(K) # Len(R) THEN [code |-> "fail", key |-> <<>>]
  ELSE LET kept == SetToSortSeq({x \in 1..Len(K) : SameKeyShape(K[x], R[x])},
                                LAMBDA u, v : u < v)
       IN [code |-> "match", key |-> [y \in 1..Len(kept) |-> R[kept[y]]]]

\* can_link_parser_states(s, rs) of program P against running state rs of
\* the view R: ops first, then the switch key.
CanLinkStates(P, R, s, rs) ==
  LET o == MergeParserOps(P, P.states[s].ops, R.states[rs].ops)
      k == LinkParseSwitchKey(P.states[s].key, R.states[rs].key, o.hmap)
  IN IF o.code # "ok" THEN [o EXCEPT !.code = o.code] @@ [key |-> <<>>]
     ELSE IF k.code # "match" THEN [o EXCEPT !.code = k.code] @@ [key |-> <<>>]
     ELSE [o EXCEPT !.code = "ok"] @@ [key |-> k.key]

(***************************************************************************)
(* A fresh ParseStateExt of an add of program p: the name of its new      *)
(* ParseState, the UIDTableLinkOPCode, the header ids it extracts, its    *)
(* key, its switch cases and switch_case_merged.  State ids (rp ids,      *)
(* ++state_id) are left out: no branch reads them.                        *)
(***************************************************************************)
NewExt(p, name, opcode, extracts, key) ==
  [p4 |-> p, name |-> name, opcode |-> opcode, ops |-> extracts, key |-> key,
   cases |-> <<>>, merged |-> FALSE]

\* The address operator new returns: the lowest one not in use.
NewObj == LowestFreeId(DOMAIN heap)

\* The objects thread u holds in its locals and call frames.
HeldBy(u) ==
  ({initExt[u]} \cup (IF call[u] = NULL THEN {} ELSE {call[u].ext})
     \cup UNION {{f.ext, f.child} : f \in Range(stack[u])}) \ {NULL}

\* linked_parse_state.clear() by thread t: the objects only the map held
\* are unreachable (the code leaks them) and are dropped.
ClearedHeap(t) ==
  Restrict(heap, DOMAIN heap \cap UNION {HeldBy(u) : u \in Threads \ {t}})

\* linked_parse_state[name]: operator[] gives nullptr for a missing name.
Lookup(name) == IF name \in DOMAIN lps THEN lps[name] ELSE NULL

\* The next position of order[t] the inner loop tries (parse_state_linked
\* skip).
NextCandidate(t, from, lk) ==
  Min({x \in from..(Len(order[t]) + 1) : x \notin lk})

\* Fault variant: the inner loop does not advance after a failed try.
SkipCandidateStuck(t, k) == k

\* After a failed try the inner loop moves past position k.
SkipCandidate(t, k) == NextCandidate(t, k + 1, linked[t])

\* Thread t dies and takes the process with it.
Crash(t, why) ==
  /\ pc' = [pc EXCEPT ![t] = "crashed"]
  /\ crash' = why
  /\ UNCHANGED <<prog, order, rp, rpOrder, i, j, linked, initExt, stack, call,
                 ret, result, running, typeTable, typeObjs, typeId, hdrTable,
                 hdrIds, hdrIdType, stateTable, lps, heap, adds>>

-----------------------------------------------------------------------------
Init ==
  /\ pc = [t \in Threads |-> "idle"]
  /\ prog = [t \in Threads |-> NULL]
  /\ order = [t \in Threads |-> <<>>]
  /\ rp = [t \in Threads |-> NULL]
  /\ rpOrder = [t \in Threads |-> <<>>]
  /\ i = [t \in Threads |-> 1]
  /\ j = [t \in Threads |-> 1]
  /\ linked = [t \in Threads |-> {}]
  /\ initExt = [t \in Threads |-> NULL]
  /\ stack = [t \in Threads |-> <<>>]
  /\ call = [t \in Threads |-> NULL]
  /\ ret = [t \in Threads |-> NULL]
  /\ result = [t \in Threads |-> NULL]
  /\ running = NULL
  /\ typeTable = EmptyTable
  /\ typeObjs = <<>>
  /\ typeId = 0
  /\ hdrTable = EmptyTable
  /\ hdrIds = <<>>
  /\ hdrIdType = <<>>
  /\ stateTable = EmptyTable
  /\ lps = <<>>
  /\ heap = <<>>
  /\ adds = 0
  /\ crash = NULL

(***************************************************************************)
(* Linker::add_p4objects(p4_name, P) on thread t: build P's              *)
(* P4ObjectsLinkerExt (ExtView: header id -> type map, the expanded      *)
(* parser, its topological order), register its header types             *)
(* (init_type_mapping always reports HEADER_TYPE_DEF_MATCH, so the early *)
(* return is dead), then link_parser clears linked_parse_state and takes *)
(* the running view p4objects_linker_ext_ and a reference to its ordered *)
(* states.  A later publish by another thread releases that view; the    *)
(* model takes the outcome where the released states still read as they *)
(* were (the ParseStates themselves are leaked, never freed).             *)
(***************************************************************************)
AddP4Objects(t, P) ==
  /\ pc[t] = "idle"
  /\ adds < MaxAdds
  /\ pc' = [pc EXCEPT ![t] = "match"]
  /\ prog' = [prog EXCEPT ![t] = ExtView(P.name, P)]
  /\ order' = [order EXCEPT ![t] = TopologicalOrder(ExtView(P.name, P))]
  /\ rp' = [rp EXCEPT ![t] = running]
  /\ rpOrder' = [rpOrder EXCEPT ![t] =
                   IF running = NULL THEN <<>> ELSE TopologicalOrder(running)]
  /\ LET r == RegisterTypes(P) IN
       /\ typeTable' = r.tbl
       /\ typeObjs' = r.objs
       /\ typeId' = r.next
  /\ lps' = <<>>
  /\ heap' = ClearedHeap(t)
  /\ i' = [i EXCEPT ![t] = 1]
  /\ j' = [j EXCEPT ![t] = 1]
  /\ linked' = [linked EXCEPT ![t] = {}]
  /\ adds' = adds + 1
  /\ UNCHANGED <<initExt, stack, call, ret, result, running, hdrTable, hdrIds,
                 hdrIdType, stateTable, crash>>

\* The try of running state rpOrder[t][i] against order[t][j].
TryLink(t) == CanLinkStates(prog[t], rp[t], order[t][j[t]], rpOrder[t][i[t]])

\* The outer loop is at a running state and the inner one at a new state.
Trying(t) ==
  /\ pc[t] = "match"
  /\ i[t] <= Len(rpOrder[t]) /\ j[t] <= Len(order[t])

(***************************************************************************)
(* can_link_parser_states succeeds: set_parse_states_link_code records    *)
(* prog.order[j] -> rpOrder[i] (a refusal is ignored), the staged header  *)
(* correspondences are linked, the MAP_EXISTING object is stored under   *)
(* the running state's name and the outer loop moves on.                  *)
(***************************************************************************)
MatchFound(t) ==
  LET r == TryLink(t)
      s == order[t][j[t]]
      rs == rpOrder[t][i[t]]
  IN
  /\ Trying(t)
  /\ r.code = "ok"
  /\ stateTable' = InsertLink(stateTable, prog[t].name, s, rs,
                              "STATE_MATCHED").table
  /\ hdrTable' = LinkHeaderIds(hdrTable, prog[t].name, r.hmap)
  /\ heap' = heap @@ (NewObj :> NewExt(prog[t].name, rs, "MAP_EXISTING",
                                        r.extracts, r.key))
  /\ lps' = Put(lps, rs, NewObj)
  /\ linked' = [linked EXCEPT ![t] = @ \cup {j[t]}]
  /\ i' = [i EXCEPT ![t] = @ + 1]
  /\ j' = [j EXCEPT ![t] = NextCandidate(t, 1, linked[t] \cup {j[t]})]
  /\ UNCHANGED <<pc, prog, order, rp, rpOrder, initExt, stack, call, ret,
                 result, running, typeTable, typeObjs, typeId, hdrIds,
                 hdrIdType, adds, crash>>

\* The try fails (the ParseStateExt is deleted); the inner loop goes on.
MatchFailed(t) ==
  /\ Trying(t)
  /\ TryLink(t).code = "fail"
  /\ j' = [j EXCEPT ![t] = SkipCandidate(t, j[t])]
  /\ UNCHANGED <<pc, prog, order, rp, rpOrder, i, linked, initExt, stack,
                 call, ret, result, running, typeTable, typeObjs, typeId,
                 hdrTable, hdrIds, hdrIdType, stateTable, lps, heap, adds,
                 crash>>

(***************************************************************************)
(* The try dereferences a null HeaderType (a running header id with no    *)
(* type) or the end() iterator of the staged header map (libstdc++'s end *)
(* node of an unordered_map is a null pointer): the process dies.         *)
(***************************************************************************)
MatchCrash(t) ==
  /\ Trying(t)
  /\ TryLink(t).code = "crash"
  /\ Crash(t, "null_deref_in_can_link")

\* No state of prog matched rpOrder[i]: it is copied with NO_OPS.
CopyRunningState(t) ==
  LET rs == rpOrder[t][i[t]]
      st == rp[t].states[rs]
  IN
  /\ pc[t] = "match"
  /\ i[t] <= Len(rpOrder[t]) /\ j[t] > Len(order[t])
  /\ heap' = heap @@ (NewObj :> NewExt(prog[t].name, rs, "NO_OPS",
                                        CopiedOps(st.ops), st.key))
  /\ lps' = Put(lps, rs, NewObj)
  /\ i' = [i EXCEPT ![t] = @ + 1]
  /\ j' = [j EXCEPT ![t] = NextCandidate(t, 1, linked[t])]
  /\ UNCHANGED <<pc, prog, order, rp, rpOrder, linked, initExt, stack, call,
                 ret, result, running, typeTable, typeObjs, typeId, hdrTable,
                 hdrIds, hdrIdType, stateTable, adds, crash>>

(***************************************************************************)
(* The second loop: every unmatched state of prog becomes an INSERT_NEW  *)
(* object named p.s, with new header ids for its extract and its key     *)
(* builder copied as it is; add_parse_state_link records p.s.             *)
(***************************************************************************)
InsertNewState(t) ==
  LET P == prog[t]
      s == order[t][j[t]]
      r == InsertNewOps(P, P.states[s].ops)
  IN
  /\ pc[t] = "match"
  /\ i[t] > Len(rpOrder[t]) /\ j[t] <= Len(order[t])
  /\ hdrTable' = r.tbl
  /\ hdrIds' = r.ids
  /\ hdrIdType' = r.types
  /\ heap' = heap @@ (NewObj :> NewExt(P.name, Fqn(P.name, s), "INSERT_NEW",
                                        r.extracts, P.states[s].key))
  /\ lps' = Put(lps, Fqn(P.name, s), NewObj)
  /\ stateTable' = AddParseStateLink(stateTable, P.name, s, Fqn(P.name, s))
  /\ j' = [j EXCEPT ![t] = NextCandidate(t, j[t] + 1, linked[t])]
  /\ UNCHANGED <<pc, prog, order, rp, rpOrder, i, linked, initExt, stack,
                 call, ret, result, running, typeTable, typeObjs, typeId,
                 adds, crash>>

(***************************************************************************)
(* link_parser after the mapping: init_parse_state is what                *)
(* linked_parse_state now holds under the running view's first state (or *)
(* p.start for the first program), whatever new state that was matched   *)
(* to, and is merged with prog's first state.                             *)
(***************************************************************************)
MergeInitStates(t) ==
  LET root == IF rp[t] = NULL THEN Fqn(prog[t].name, order[t][1])
              ELSE rpOrder[t][1]
  IN
  /\ pc[t] = "match"
  /\ i[t] > Len(rpOrder[t]) /\ j[t] > Len(order[t])
  /\ pc' = [pc EXCEPT ![t] = "cases"]
  /\ initExt' = [initExt EXCEPT ![t] = Lookup(root)]
  /\ call' = [call EXCEPT ![t] =
                [ps |-> order[t][1], rp |-> IF rp[t] = NULL THEN NULL ELSE root,
                 ext |-> Lookup(root), key |-> NULL]]
  /\ UNCHANGED <<prog, order, rp, rpOrder, i, j, linked, stack, ret, result,
                 shared>>

-----------------------------------------------------------------------------
(* merge_parser_states_switch_cases(ps, rp, ext) as an explicit stack.     *)

\* get_switch_case_hexstr_key_state_map: key -> next state (emplace: the
\* first case with a key wins).
CaseMap(cases) ==
  [k \in {c.key : c \in Range(cases)} |->
     cases[Min({x \in 1..Len(cases) : cases[x].key = k})].next]

\* The switch cases of a state of prog[t], none for nullptr.
NewCases(t, ps) == IF ps = NULL THEN <<>> ELSE prog[t].states[ps].cases

(***************************************************************************)
(* A frame of the call (ps, rp, ext) of thread t: position in ps's cases, *)
(* what is left of the running state's case map, and the case whose call  *)
(* is in flight with the object it was made on.                           *)
(***************************************************************************)
Frame(t, c) ==
  [ps |-> c.ps, rp |-> c.rp, ext |-> c.ext, idx |-> 1,
   rpMap |-> IF c.rp = NULL THEN <<>> ELSE CaseMap(rp[t].states[c.rp].cases),
   key |-> NULL, child |-> NULL]

Top(t) == stack[t][Len(stack[t])]

\* The same call is already on t's stack with its object not yet merged.
Reentered(t, c) ==
  \E x \in 1..Len(stack[t]) :
    stack[t][x].ps = c.ps /\ stack[t][x].rp = c.rp /\ stack[t][x].ext = c.ext

\* The top frame returns code to its caller.
Return(t, code) ==
  /\ stack' = [stack EXCEPT ![t] = Front(@)]
  /\ ret' = [ret EXCEPT ![t] = code]

\* The top frame calls itself on case key, for new state ps, running
\* state rps and the object ext looked up for them.
CallCase(t, f, key, ps, rps, ext, rpMap) ==
  /\ stack' = [stack EXCEPT ![t][Len(stack[t])] =
                 [f EXCEPT !.key = key, !.child = ext, !.rpMap = rpMap]]
  /\ call' = [call EXCEPT ![t] = [ps |-> ps, rp |-> rps, ext |-> ext,
                                  key |-> key]]

CasesUnchanged ==
  UNCHANGED <<pc, prog, order, rp, rpOrder, i, j, linked, initExt, result,
              running, typeTable, typeObjs, typeId, hdrTable, hdrIds,
              hdrIdType, stateTable, lps, adds, crash>>

(***************************************************************************)
(* Entry of a call.  parse_state_ext is dereferenced first (line 254), so *)
(* a nullptr object, from linked_parse_state[name] of a name the map does *)
(* not hold, kills the process; a merged object returns STATE_LINKED at  *)
(* once.  The merged flag is only set when a call completes, so entering *)
(* a call that is already on the stack repeats it deterministically:     *)
(* unbounded recursion, the stack overflows.                              *)
(***************************************************************************)
EnterMerge(t) ==
  LET c == call[t] IN
  /\ pc[t] = "cases"
  /\ c # NULL
  /\ \/ /\ c.ext = NULL
        /\ Crash(t, "null_parse_state_ext")
     \/ /\ c.ext # NULL
        /\ heap[c.ext].merged
        /\ call' = [call EXCEPT ![t] = NULL]
        /\ ret' = [ret EXCEPT ![t] = "STATE_LINKED"]
        /\ UNCHANGED <<stack, heap>> /\ CasesUnchanged
     \/ /\ c.ext # NULL
        /\ ~heap[c.ext].merged
        /\ Reentered(t, c)
        /\ Crash(t, "stack_overflow")
     \/ /\ c.ext # NULL
        /\ ~heap[c.ext].merged
        /\ ~Reentered(t, c)
        /\ stack' = [stack EXCEPT ![t] = Append(@, Frame(t, c))]
        /\ call' = [call EXCEPT ![t] = NULL]
        /\ UNCHANGED <<heap, ret>> /\ CasesUnchanged

\* The top frame of t is running (not waiting on a call or its result).
Active(t) ==
  /\ pc[t] = "cases" /\ call[t] = NULL /\ ret[t] = NULL /\ stack[t] # <<>>
  /\ Top(t).key = NULL

(***************************************************************************)
(* Case (k, next) of ps.  The table lookups use the program name of the  *)
(* frame's object (parse_state_ext->get_p4_name()).  If the running state *)
(* has a case k the two next states must have been matched to each other *)
(* (link state of next -> rp next); otherwise next must have a            *)
(* STATE_MATCHED link, whose name is looked up in linked_parse_state.     *)
(* Else PARSER_LINKING_FAILED.                                             *)
(***************************************************************************)
MergeNewCase(t) ==
  LET f == Top(t)
      c == NewCases(t, f.ps)[f.idx]
      p == heap[f.ext].p4
  IN
  /\ Active(t)
  /\ f.idx <= Len(NewCases(t, f.ps))
  /\ IF c.key \in DOMAIN f.rpMap
     THEN IF LinkStateOf(stateTable, p, c.next, f.rpMap[c.key]) = "STATE_MATCHED"
          THEN CallCase(t, f, c.key, c.next, f.rpMap[c.key],
                        Lookup(f.rpMap[c.key]),
                        [k \in DOMAIN f.rpMap \ {c.key} |-> f.rpMap[k]])
               /\ UNCHANGED ret
          ELSE Return(t, "PARSER_LINKING_FAILED") /\ UNCHANGED call
     ELSE IF IsLinked(stateTable, p, c.next)
             /\ LinkOf(stateTable, p, c.next).state = "STATE_MATCHED"
          THEN CallCase(t, f, c.key, c.next, NULL,
                        Lookup(LinkOf(stateTable, p, c.next).value), f.rpMap)
               /\ UNCHANGED ret
          ELSE Return(t, "PARSER_LINKING_FAILED") /\ UNCHANGED call
  /\ UNCHANGED heap /\ CasesUnchanged

(***************************************************************************)
(* The remaining cases of the running state, in the unordered_map's      *)
(* iteration order (any order): merge rp next with no new state.          *)
(***************************************************************************)
MergeRunningCase(t) ==
  LET f == Top(t) IN
  /\ Active(t)
  /\ f.idx > Len(NewCases(t, f.ps))
  /\ \E k \in DOMAIN f.rpMap :
       CallCase(t, f, k, NULL, f.rpMap[k], Lookup(f.rpMap[k]),
                [x \in DOMAIN f.rpMap \ {k} |-> f.rpMap[x]])
  /\ UNCHANGED <<heap, ret>> /\ CasesUnchanged

\* Back from a call, t's top frame resumes (STATE_LINKED) or returns.
Resume(t) ==
  LET f == Top(t) IN
  IF ret[t] = "STATE_LINKED"
  THEN /\ stack' = [stack EXCEPT ![t][Len(stack[t])] =
                      [f EXCEPT !.key = NULL, !.child = NULL,
                                !.idx = IF @ <= Len(NewCases(t, f.ps))
                                        THEN @ + 1 ELSE @]]
       /\ ret' = [ret EXCEPT ![t] = NULL]
  ELSE Return(t, ret[t])

\* A call of t has returned and its top frame has not resumed yet.
Returned(t) ==
  pc[t] = "cases" /\ call[t] = NULL /\ ret[t] # NULL /\ stack[t] # <<>>

\* Fault variant: the case is not added to the state on return.
AfterCallNoCase(t) ==
  /\ Returned(t)
  /\ UNCHANGED heap
  /\ Resume(t)
  /\ UNCHANGED call /\ CasesUnchanged

(***************************************************************************)
(* Back from a call: the case, to the called object's new state, is added *)
(* to the frame's state first, then a result other than STATE_LINKED is   *)
(* returned at once (the merged flag stays unset); otherwise the loop     *)
(* goes on.                                                                *)
(***************************************************************************)
AfterCall(t) ==
  LET f == Top(t) IN
  /\ Returned(t)
  /\ heap' = [heap EXCEPT ![f.ext].cases =
                Append(@, [key |-> f.key, next |-> heap[f.child].name])]
  /\ Resume(t)
  /\ UNCHANGED call /\ CasesUnchanged

\* Every case is merged: switch_case_merged(true), return STATE_LINKED.
FinishMerge(t) ==
  LET f == Top(t) IN
  /\ Active(t)
  /\ f.idx > Len(NewCases(t, f.ps))
  /\ DOMAIN f.rpMap = {}
  /\ heap' = [heap EXCEPT ![f.ext].merged = TRUE]
  /\ Return(t, "STATE_LINKED")
  /\ UNCHANGED call /\ CasesUnchanged

-----------------------------------------------------------------------------
\* The state of the merged view object o stands for.
MergedState(o) ==
  [ops   |-> [x \in 1..Len(heap[o].ops) |->
               [kind |-> "extract", hdr |-> heap[o].ops[x]]],
   key   |-> heap[o].key,
   cases |-> heap[o].cases]

\* Fault variant: the view is named after the program just added.
MergedObjectsMisnamed(t) ==
  [name        |-> prog[t].name,
   types       |-> [uid \in DOMAIN typeObjs |-> typeObjs[uid].def],
   headerIds   |-> hdrIds,
   headerTypes |-> [k \in DOMAIN hdrIds |-> hdrIdType[hdrIds[k]]],
   states      |-> [n \in DOMAIN lps |-> MergedState(lps[n])],
   parsers     |-> ("parser" :> heap[initExt[t]].name)]

(***************************************************************************)
(* The merged P4Objects thread t publishes, under the name "Linker": a    *)
(* copy of every canonical header type object                            *)
(* (get_linker_header_types_map), header_ids_map = linker_header_ids_map *)
(* (names p.h), header_to_type_map giving each name the canonical type   *)
(* of its id (get_linked_headers_name_type_map), the new state of every  *)
(* object linked_parse_state holds, and the parser "parser" starting at  *)
(* the new state of init_parse_state.                                     *)
(***************************************************************************)
MergedObjects(t) ==
  [name        |-> LinkerName,
   types       |-> [uid \in DOMAIN typeObjs |-> typeObjs[uid].def],
   headerIds   |-> hdrIds,
   headerTypes |-> [k \in DOMAIN hdrIds |-> hdrIdType[hdrIds[k]]],
   states      |-> [n \in DOMAIN lps |-> MergedState(lps[n])],
   parsers     |-> ("parser" :> heap[initExt[t]].name)]

(***************************************************************************)
(* link_parser has returned (its code is ignored by add_p4objects): the   *)
(* merged objects are published whatever the code, as the running view  *)
(* P4ObjectsLinkerExt("Linker", merged) after init_extended_objects, and *)
(* linked_parse_state is cleared.                                          *)
(***************************************************************************)
PublishMerged(t) ==
  /\ pc[t] = "cases" /\ call[t] = NULL /\ ret[t] # NULL /\ stack[t] = <<>>
  /\ pc' = [pc EXCEPT ![t] = "idle"]
  /\ running' = LET O == MergedObjects(t) IN ExtView(O.name, O)
  /\ result' = [result EXCEPT ![t] = ret[t]]
  /\ ret' = [ret EXCEPT ![t] = NULL]
  /\ initExt' = [initExt EXCEPT ![t] = NULL]
  /\ lps' = <<>>
  /\ heap' = ClearedHeap(t)
  /\ UNCHANGED <<prog, order, rp, rpOrder, i, j, linked, stack, call,
                 typeTable, typeObjs, typeId, hdrTable, hdrIds, hdrIdType,
                 stateTable, adds, crash>>

\* The steps of one add_p4objects call of t, once it has started, while
\* the process lives.
LinkStep(t) ==
  /\ crash = NULL
  /\ \/ MatchFound(t) \/ MatchFailed(t) \/ MatchCrash(t)
     \/ CopyRunningState(t) \/ InsertNewState(t) \/ MergeInitStates(t)
     \/ EnterMerge(t) \/ MergeNewCase(t) \/ MergeRunningCase(t)
     \/ AfterCall(t) \/ FinishMerge(t) \/ PublishMerged(t)

\* A thread calls add_p4objects(P.name, P) while the process lives.
StartAdd(t) == crash = NULL /\ \E P \in Programs : AddP4Objects(t, P)

Next == \E t \in Threads : StartAdd(t) \/ LinkStep(t)

(***************************************************************************)
(* add_p4objects runs to its end on the thread that called it, never      *)
(* waiting on anything: once started, each thread's steps are weakly      *)
(* fair.  New submissions are not.                                         *)
(***************************************************************************)
Spec == Init /\ [][Next]_vars /\ \A t \in Threads : WF_vars(LinkStep(t))

-----------------------------------------------------------------------------
(* Properties.                                                             *)

Pcs == {"idle", "match", "cases", "crashed"}

TypeOK ==
  /\ pc \in [Threads -> Pcs]
  /\ \A t \in Threads :
       /\ prog[t] \in {ExtView(P.name, P) : P \in Programs} \cup {NULL}
       /\ pc[t] = "match" =>
            /\ i[t] \in 1..(Len(rpOrder[t]) + 1)
            /\ j[t] \in 1..(Len(order[t]) + 1)
            /\ linked[t] \subseteq 1..Len(order[t])
       /\ HeldBy(t) \subseteq DOMAIN heap
  /\ running = NULL \/ running.name = LinkerName
  /\ Range(lps) \subseteq DOMAIN heap
  /\ \A o \in DOMAIN heap :
       heap[o].opcode \in {"MAP_EXISTING", "NO_OPS", "INSERT_NEW"}
  /\ DOMAIN hdrIdType = Range(hdrIds)
  /\ \A uid \in DOMAIN typeObjs : typeObjs[uid].id \in 0..(typeId - 1)
  /\ adds \in 0..MaxAdds
  /\ (\E t \in Threads : pc[t] = "crashed") = (crash # NULL)

\* The program a name stands for (program names are unique).
ProgramNamed(p) == CHOOSE P \in Programs : P.name = p

\* The canonical type (signature) a program's header type is linked to.
CanonicalType(p, h) ==
  LinkOf(typeTable, p, ExtView(p, ProgramNamed(p)).hdrs[h]).value

(***************************************************************************)
(* Every header a program has linked to a merged header id, by matching  *)
(* a running state (link_header_ids) or by a new id                       *)
(* (link_new_header_id), has the canonical type the merged id was given:  *)
(* two programs' headers share an id only if their types agree, and no   *)
(* later add retypes an id.                                                *)
(***************************************************************************)
HeaderLinksTyped ==
  \A k \in DOMAIN hdrTable.fwd :
    LET m == hdrTable.fwd[k].value IN
    m \in DOMAIN hdrIdType => hdrIdType[m] = CanonicalType(k[1], k[2])

(***************************************************************************)
(* No merged header id stands for two headers of one program, as the      *)
(* comment of LinkerUIDTableGeneric requires.  insert_p4objects_link only *)
(* refuses a second link of the same (program, header) pair, so this      *)
(* rests on the linker: link_header_ids and link_new_header_id must never *)
(* hand one program's two headers the same merged id.                     *)
(***************************************************************************)
OneHeaderPerId ==
  \A k1, k2 \in DOMAIN hdrTable.fwd :
    (k1[1] = k2[1] /\ k1 # k2) => hdrTable.fwd[k1].value # hdrTable.fwd[k2].value

(***************************************************************************)
(* Every header id a state of the running view extracts is a header of    *)
(* the view (linker_header_ids_map): the packet parser never extracts    *)
(* into an id no header instance has.                                      *)
(***************************************************************************)
ExtractsResolvable ==
  running # NULL =>
    \A n \in DOMAIN running.states :
      \A x \in 1..Len(running.states[n].ops) :
        running.states[n].ops[x].hdr \in DOMAIN running.hdrs

\* The merged state a state of prog is linked to, and a header's merged id.
StateLink(p, s) == LinkOf(stateTable, p, s).value
HeaderLink(p, h) == LinkOf(hdrTable, p, h).value

\* State s of the merged view running' does what state s of the view R did.
KeepsOld(R, s) ==
  LET o == R.states[s] IN
  /\ s \in DOMAIN running'.states
  /\ running'.states[s].ops = o.ops
  /\ running'.states[s].key = o.key
  /\ Range(o.cases) \subseteq Range(running'.states[s].cases)

\* The merged state of P's state s does what s does, in merged names.
KeepsNew(P, s) ==
  LET st == P.states[s]
      p  == P.name
  IN
  /\ IsLinked(stateTable, p, s)
  /\ StateLink(p, s) \in DOMAIN running'.states
  /\ \A x \in 1..Len(st.ops) : IsLinked(hdrTable, p, st.ops[x].hdr)
  /\ \A x \in 1..Len(st.key) : IsLinked(hdrTable, p, st.key[x].hdr)
  /\ \A c \in Range(st.cases) : IsLinked(stateTable, p, c.next)
  /\ LET m == running'.states[StateLink(p, s)] IN
     /\ m.ops = [x \in 1..Len(st.ops) |->
                   [st.ops[x] EXCEPT !.hdr = HeaderLink(p, @)]]
     /\ m.key = [x \in 1..Len(st.key) |->
                   [st.key[x] EXCEPT !.hdr = HeaderLink(p, @)]]
     /\ \A c \in Range(st.cases) :
          [key |-> c.key, next |-> StateLink(p, c.next)] \in Range(m.cases)

(***************************************************************************)
(* When link_parser reports STATE_LINKED the published parser is the     *)
(* union of the two: every state the old running parser reached keeps   *)
(* its extracts, its select key and its transitions, and every state of  *)
(* the new program is present under its linked name with its extracts,   *)
(* key and transitions rewritten to merged ids and names, starting from  *)
(* the new program's start state.                                         *)
(***************************************************************************)
LinkPreservesParsers ==
  [][\A t \in Threads :
       PublishMerged(t) /\ ret[t] = "STATE_LINKED" =>
         /\ rp[t] # NULL => \A s \in Reachable(rp[t]) : KeepsOld(rp[t], s)
         /\ \A s \in Reachable(prog[t]) : KeepsNew(prog[t], s)
         /\ running'.init = StateLink(prog[t].name, prog[t].init)]_vars

(***************************************************************************)
(* Every header of the published view has its header type in the view:  *)
(* add_p4objects fills header_to_type_map with                           *)
(* header_types_map[type].get(), an operator[] that would insert a null  *)
(* HeaderType for a type name missing from the copied canonical objects. *)
(* The type a merged id gets from link_new_header_id is the signature its *)
(* program's type was registered under, possibly in an earlier add.      *)
(***************************************************************************)
HeaderTypesPublished ==
  running # NULL =>
    \A m \in DOMAIN running.hdrs : running.hdrs[m] \in DOMAIN running.types

(***************************************************************************)
(* Spec 4.2: a signature already known makes no new canonical object;   *)
(* the program only gains a mapping to it.  So the object (its id) a    *)
(* signature stands for never changes once created.  init_type_mapping  *)
(* makes a fresh object with a new id on every SUCCESS insert.           *)
(***************************************************************************)
CanonicalTypeStable ==
  [][\A uid \in DOMAIN typeObjs :
       uid \in DOMAIN typeObjs' /\ typeObjs'[uid].id = typeObjs[uid].id]_vars

(***************************************************************************)
(* merge_parser_states_switch_cases is never entered with a nullptr       *)
(* parse_state_ext: every successor a thread resolves, by the running    *)
(* state's case map or by the parse-state link table, names an object    *)
(* linked_parse_state holds.                                               *)
(***************************************************************************)
NoNullStateExt == \A t \in Threads : call[t] # NULL => call[t].ext # NULL

(***************************************************************************)
(* Every add_p4objects call returns, with a published view, or the       *)
(* process dies: the recursive merge terminates or dies, never loops,   *)
(* and no thread waits on a state another thread left behind.             *)
(***************************************************************************)
AddReturns ==
  \A t \in Threads : (pc[t] = "match") ~> (pc[t] = "idle" \/ crash # NULL)

(***************************************************************************)
(* add_p4objects never kills the process: structural mismatches are       *)
(* reported as a failed link (spec 7), and a parser with a back edge is    *)
(* merged without unbounded recursion (spec 8, cycle termination).        *)
(***************************************************************************)
NoCrash == crash = NULL

(***************************************************************************)
(* The first program linked into an empty linker has nothing to conflict *)
(* with, so link_parser reports STATE_LINKED for it, self-loops and back *)
(* edges included (spec 8, cycle termination: the cycle "must appear      *)
(* correctly once in the merged graph").                                   *)
(***************************************************************************)
FirstAddLinks ==
  [][\A t \in Threads :
       PublishMerged(t) /\ running = NULL => ret[t] = "STATE_LINKED"]_vars

(***************************************************************************)
(* An add whose parser link fails leaves the running view as it was      *)
(* (spec 7: "a failed add must leave the previously running artifact     *)
(* fully usable and unchanged").  add_p4objects ignores link_parser's     *)
(* code and publishes what the merge built.                               *)
(***************************************************************************)
FailedAddKeepsRunning ==
  [][\A t \in Threads :
       PublishMerged(t) /\ ret[t] # "STATE_LINKED" /\ running # NULL =>
         running' = running]_vars

=============================================================================
