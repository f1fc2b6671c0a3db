---------------------------- MODULE UidTableSpec ----------------------------
(***************************************************************************)
(* One LinkerUIDTableGeneric<T> driven by arbitrary callers: every        *)
(* insert_p4objects_link and update_p4objects_link the class accepts, on *)
(* small sets of program names, program-object values, link values and   *)
(* link states.  The linker uses three such tables (header types, header *)
(* ids, parse states); their callers are modelled in Linker.tla.         *)
(***************************************************************************)
EXTENDS UidTable

CONSTANTS
  Progs,      \* p4 program names
  Vals,       \* per-program object values (header ids, state names, ...)
  LinkVals,   \* linker object values
  States      \* ObjectLinkStateCode values a caller may record

VARIABLES
  table,      \* the two indices of the table
  lastCode    \* TableRetCode of the last call

vars == <<table, lastCode>>

Codes == {"NONE", "SUCCESS", "P4_OBJECT_EXIST", "LINK_OBJECT_P4_NAME_EXIST",
          "NO_P4_OBJECT_EXIST", "NO_P4_OBJECT_LINK_EXIST",
          "TABLE_INCONSISTENT"}

Init ==
  /\ table = EmptyTable
  /\ lastCode = "NONE"

\* A call of insert_p4objects_link(p, v, lv, st).
Insert(p, v, lv, st) ==
  LET r == InsertLink(table, p, v, lv, st) IN
  /\ table' = r.table
  /\ lastCode' = r.code

\* A call of update_p4objects_link(p, v, lv, st).
Update(p, v, lv, st) ==
  LET r == UpdateLink(table, p, v, lv, st) IN
  /\ table' = r.table
  /\ lastCode' = r.code

Next ==
  \E p \in Progs, v \in Vals, lv \in LinkVals, st \in States :
    \/ Insert(p, v, lv, st)
    \/ Update(p, v, lv, st)

Spec == Init /\ [][Next]_vars

-----------------------------------------------------------------------------
TypeOK ==
  /\ DOMAIN table.fwd \subseteq Progs \X Vals
  /\ \A k \in DOMAIN table.fwd :
       table.fwd[k] \in [value : LinkVals, state : States]
  /\ DOMAIN table.rev \subseteq LinkVals
  /\ \A lv \in DOMAIN table.rev :
       /\ DOMAIN table.rev[lv] \subseteq Progs \X Vals
       /\ \A k \in DOMAIN table.rev[lv] : table.rev[lv][k] \in States
  /\ lastCode \in Codes

(***************************************************************************)
(* The forward and the reverse index describe the same links with the    *)
(* same link state, after any sequence of inserts and updates: the       *)
(* reverse set of a link value holds (p, v) exactly when (p, v) maps to  *)
(* that value, and update_p4objects_link rewrites the state in both.     *)
(* This is what makes TABLE_INCONSISTENT unreachable.                     *)
(***************************************************************************)
IndicesAgree ==
  /\ \A k \in DOMAIN table.fwd :
       LET lv == table.fwd[k].value IN
       /\ lv \in DOMAIN table.rev
       /\ k \in DOMAIN table.rev[lv]
       /\ table.rev[lv][k] = table.fwd[k].state
  /\ \A lv \in DOMAIN table.rev :
       \A k \in DOMAIN table.rev[lv] :
         k \in DOMAIN table.fwd /\ table.fwd[k].value = lv

(***************************************************************************)
(* The table implements LinkRegistry: read through its forward index,    *)
(* every sequence of inserts and updates is one the abstract table      *)
(* allows, with the same return codes.  In particular an insert never   *)
(* overwrites a mapping, and neither LINK_OBJECT_P4_NAME_EXIST nor       *)
(* TABLE_INCONSISTENT is ever returned.                                   *)
(***************************************************************************)
Registry == INSTANCE LinkRegistry
              WITH links <- [k \in DOMAIN table.fwd |-> table.fwd[k]]

ImplementsRegistry == Registry!Spec

=============================================================================
