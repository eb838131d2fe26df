------------------------------- MODULE SymbolSet -------------------------------
(***************************************************************************)
(* What renaming promises, without tables: the dynamic symbols are a set,  *)
(* renaming changes names and nothing else, clearing changes versions and  *)
(* nothing else, and relocations stay bound to the symbols they were bound *)
(* to.                                                                     *)
(***************************************************************************)
CONSTANTS Maps, Cleared

VARIABLES
  symbols,   \* the set of symbols, with name, id, def and version
  bound,     \* the symbol each relocation is bound to
  reply      \* the last run: what was asked and whether it was done

NewName(map, name) == IF name \in DOMAIN map THEN map[name] ELSE name
Rename(map, s) == [s EXCEPT !.name = NewName(map, @)]

(* 1 is the global version.                                                *)
Clear(name, s) == IF s.name = name THEN [s EXCEPT !.version = 1] ELSE s

Init == reply.op = "none"

AcceptRename(map) ==
  /\ symbols' = {Rename(map, s) : s \in symbols}
  /\ bound' = [r \in DOMAIN bound |-> Rename(map, bound[r])]
  /\ reply' = [op |-> "rename", map |-> map, names |-> {}, ok |-> TRUE]

AcceptClear(name) ==
  /\ symbols' = {Clear(name, s) : s \in symbols}
  /\ bound' = [r \in DOMAIN bound |-> Clear(name, bound[r])]
  /\ reply' = [op |-> "clear", map |-> <<>>, names |-> {name}, ok |-> TRUE]

Refuse ==
  /\ reply'.ok = FALSE
  /\ UNCHANGED <<symbols, bound>>

Next ==
  \/ \E map \in Maps : AcceptRename(map)
  \/ \E name \in Cleared : AcceptClear(name)
  \/ Refuse

SetSpec == Init /\ [][Next]_<<symbols, bound, reply>>
=============================================================================
