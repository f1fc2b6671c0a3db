---------------------------- MODULE LinkRegistry ----------------------------
(***************************************************************************)
(* What a link table promises its callers (spec 4.1): a partial function  *)
(* from program objects to a merged value and a link state.  insert adds *)
(* a mapping for an unmapped object and refuses a mapped one; update     *)
(* replaces the state of a mapping to the given merged value.  The       *)
(* reverse index, the DuplicateLinkRecord refusal and the Inconsistent   *)
(* guard are implementation detail: a correct table never needs them.    *)
(* Return codes carry the names TableRetCode gives them.                  *)
(***************************************************************************)
EXTENDS TLC

CONSTANTS Progs, Vals, LinkVals, States

VARIABLES
  links,      \* <<p, v>> -> [value, state]
  lastCode    \* result of the last call

vars == <<links, lastCode>>

Init ==
  /\ links = <<>>
  /\ lastCode = "NONE"

\* insert(p, v, lv, st): AlreadyMapped, or the mapping is recorded.
Insert(p, v, lv, st) ==
  IF <<p, v>> \in DOMAIN links
  THEN UNCHANGED links /\ lastCode' = "P4_OBJECT_EXIST"
  ELSE /\ links' = (<<p, v>> :> [value |-> lv, state |-> st]) @@ links
       /\ lastCode' = "SUCCESS"

\* update_state(p, v, lv, st): NotFound, Mismatch, or the state replaced.
Update(p, v, lv, st) ==
  CASE <<p, v>> \notin DOMAIN links ->
         UNCHANGED links /\ lastCode' = "NO_P4_OBJECT_EXIST"
    [] links[<<p, v>>].value # lv ->
         UNCHANGED links /\ lastCode' = "NO_P4_OBJECT_LINK_EXIST"
    [] OTHER ->
         /\ links' = [links EXCEPT ![<<p, v>>].state = st]
         /\ lastCode' = "SUCCESS"

Next ==
  \E p \in Progs, v \in Vals, lv \in LinkVals, st \in States :
    Insert(p, v, lv, st) \/ Update(p, v, lv, st)

Spec == Init /\ [][Next]_vars

=============================================================================
