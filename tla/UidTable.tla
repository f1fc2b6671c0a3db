------------------------------ MODULE UidTable ------------------------------
(***************************************************************************)
(* LinkerUIDTableGeneric<T> (include/bm/bm_linker/linker_commons.h) as    *)
(* operators over a table value.  The table is the pair of indices the    *)
(* class keeps:                                                            *)
(*   fwd : fqn_to_linker_p4object_uid_map, <<p4_name, val>> -> link       *)
(*         record [value, state] (the record the code stores under the    *)
(*         key p4_name + "." + val);                                       *)
(*   rev : linker_to_p4s_id_map, link value -> the set of                  *)
(*         LinkValueState(p4_name, val, state).  LinkValueState compares  *)
(*         and hashes on (pname, value) only, so the set is a function    *)
(*         from <<p4_name, val>> to the link state.                        *)
(* The string key p4_name + "." + val is represented by the pair: the two *)
(* agree as long as no program or object name contains a '.'.            *)
(* Every operator returns [table |-> new table, code |-> TableRetCode].   *)
(***************************************************************************)
EXTENDS TLC

EmptyTable == [fwd |-> <<>>, rev |-> <<>>]

\* Add key :> val to a function whose domain may or may not contain key.
Put(f, key, val) == (key :> val) @@ f

\* Fault variant: the reverse entry is filed under the object value.
InsertLinkWrongKey(t, p, v, lv, st) ==
  IF <<p, v>> \in DOMAIN t.fwd
  THEN [table |-> t, code |-> "P4_OBJECT_EXIST"]
  ELSE [table |->
          [fwd |-> Put(t.fwd, <<p, v>>, [value |-> lv, state |-> st]),
           rev |-> IF v \in DOMAIN t.rev
                   THEN [t.rev EXCEPT ![v] = Put(@, <<p, v>>, st)]
                   ELSE Put(t.rev, v, <<p, v>> :> st)],
        code |-> "SUCCESS"]

\* Fault variant: the forward index is not consulted before inserting.
InsertLinkOverwrite(t, p, v, lv, st) ==
  IF lv \in DOMAIN t.rev /\ <<p, v>> \in DOMAIN t.rev[lv]
  THEN [table |-> t, code |-> "LINK_OBJECT_P4_NAME_EXIST"]
  ELSE [table |->
          [fwd |-> Put(t.fwd, <<p, v>>, [value |-> lv, state |-> st]),
           rev |-> IF lv \in DOMAIN t.rev
                   THEN [t.rev EXCEPT ![lv] = Put(@, <<p, v>>, st)]
                   ELSE Put(t.rev, lv, <<p, v>> :> st)],
        code |-> "SUCCESS"]

(***************************************************************************)
(* insert_p4objects_link: refuse when the program object is already       *)
(* mapped; refuse when the reverse set of link_val already holds the same *)
(* (p4_name, val); otherwise record the link in both indices.             *)
(***************************************************************************)
InsertLink(t, p, v, lv, st) ==
  IF <<p, v>> \in DOMAIN t.fwd
  THEN [table |-> t, code |-> "P4_OBJECT_EXIST"]
  ELSE IF lv \in DOMAIN t.rev /\ <<p, v>> \in DOMAIN t.rev[lv]
  THEN [table |-> t, code |-> "LINK_OBJECT_P4_NAME_EXIST"]
  ELSE [table |->
          [fwd |-> Put(t.fwd, <<p, v>>, [value |-> lv, state |-> st]),
           rev |-> IF lv \in DOMAIN t.rev
                   THEN [t.rev EXCEPT ![lv] = Put(@, <<p, v>>, st)]
                   ELSE Put(t.rev, lv, <<p, v>> :> st)],
        code |-> "SUCCESS"]

\* Fault variant: the state is rewritten in the forward index only.
UpdateLinkForwardOnly(t, p, v, lv, st) ==
  IF <<p, v>> \notin DOMAIN t.fwd
  THEN [table |-> t, code |-> "NO_P4_OBJECT_EXIST"]
  ELSE IF t.fwd[<<p, v>>].value # lv
  THEN [table |-> t, code |-> "NO_P4_OBJECT_LINK_EXIST"]
  ELSE [table |-> [fwd |-> [t.fwd EXCEPT ![<<p, v>>].state = st],
                   rev |-> t.rev],
        code |-> "SUCCESS"]

(***************************************************************************)
(* update_p4objects_link: the forward record's state is overwritten       *)
(* before the reverse index is consulted, so the two TABLE_INCONSISTENT  *)
(* returns leave the forward change in place.                             *)
(***************************************************************************)
UpdateLink(t, p, v, lv, st) ==
  IF <<p, v>> \notin DOMAIN t.fwd
  THEN [table |-> t, code |-> "NO_P4_OBJECT_EXIST"]
  ELSE IF t.fwd[<<p, v>>].value # lv
  THEN [table |-> t, code |-> "NO_P4_OBJECT_LINK_EXIST"]
  ELSE LET fwd2 == [t.fwd EXCEPT ![<<p, v>>].state = st] IN
       IF lv \notin DOMAIN t.rev \/ <<p, v>> \notin DOMAIN t.rev[lv]
       THEN [table |-> [fwd |-> fwd2, rev |-> t.rev],
             code |-> "TABLE_INCONSISTENT"]
       ELSE [table |-> [fwd |-> fwd2,
                        rev |-> [t.rev EXCEPT ![lv][<<p, v>>] = st]],
             code |-> "SUCCESS"]

(***************************************************************************)
(* get_p4objects_link_state: the link state of (p, v) if it maps to lv.   *)
(***************************************************************************)
LinkStateOf(t, p, v, lv) ==
  IF <<p, v>> \notin DOMAIN t.fwd THEN "P4_OBJECT_MATCH_FAILED"
  ELSE IF t.fwd[<<p, v>>].value # lv THEN "LINK_OBJECT_MATCH_FAILED"
  ELSE t.fwd[<<p, v>>].state

\* get_p4object_link succeeds exactly when (p, v) is mapped.
IsLinked(t, p, v) == <<p, v>> \in DOMAIN t.fwd

\* The record get_p4object_link copies out; callers check IsLinked first.
LinkOf(t, p, v) == t.fwd[<<p, v>>]

\* get_all_linker_uids: the keys of the reverse index.
LinkerUids(t) == DOMAIN t.rev

=============================================================================
