----------------------- MODULE BreakpointPlacerProofs -----------------------
(***************************************************************************)
(* What BreakpointPlacer guarantees for every table, every set of tokens    *)
(* and every interleaving with the GUI.                                     *)
(***************************************************************************)
EXTENDS BreakpointPlacer, TLAPS

(* No entry of the table is confused with a token or an index.              *)
LEMMA MarksDiffer ==
    /\ Free \notin Tokens /\ Foreign \notin Tokens /\ Free # Foreign
    /\ NoHandle \notin Indices
    /\ 0 \notin Tokens
BY IndicesAssumption, TokensAssumption DEF Free, Foreign, NoHandle

(* The start of an operation is an operation.                               *)
LEMMA BeginType ==
    /\ NoOperation \in Operation
    /\ \A k \in {"set", "clear"}, t \in Tokens :
           /\ Begin(k, t) \in Operation
           /\ Begin(k, t).kind = k /\ Begin(k, t).token = t /\ Begin(k, t).step = "list"
<1>1. NoOperation \in Operation
  BY Zenon DEF NoOperation, Operation, Nothing, Entries
<1>2. \A k \in {"set", "clear"}, t \in Tokens : Begin(k, t) \in Operation
  BY <1>1, Zenon DEF Begin, Operation, NoOperation
<1>3. \A k \in {"set", "clear"}, t \in Tokens :
           Begin(k, t).kind = k /\ Begin(k, t).token = t /\ Begin(k, t).step = "list"
  BY DEF Begin, NoOperation
<1> QED
  BY <1>1, <1>2, <1>3

(* What the end of an operation leaves.                                     *)
LEMMA ReturnEffect ==
    ASSUME PlacerInv, op.kind # "none", NEW state \in BookStates, Return(state)
    PROVE  /\ op' \in Operation /\ op'.kind = "none" /\ op'.step = "none"
           /\ books' \in [Tokens -> BookStates]
           /\ op.token \in Tokens
           /\ books'[op.token] = state
           /\ \A t \in Tokens : t # op.token => books'[t] = books[t]
<1>1. op.token \in Tokens
  BY DEF PlacerInv, TypeOK, OperationConsistent, Operation
<1>2. op' \in Operation /\ op'.kind = "none" /\ op'.step = "none"
  BY BeginType DEF Return, NoOperation
<1>3. books' = [books EXCEPT ![op.token] = state] /\ books \in [Tokens -> BookStates]
  BY DEF Return, PlacerInv, TypeOK
<1> QED
  BY <1>1, <1>2, <1>3

-----------------------------------------------------------------------------
(* A step that ends an operation.  The entries of other tokens do not       *)
(* appear, and the token itself is gone if it is reported cleared.          *)
LEMMA ReturnPreserves ==
    ASSUME PlacerInv, op.kind # "none", NEW state \in BookStates, Return(state),
           table' \in [Indices -> Entries], handle' \in [Tokens -> Indices \union {NoHandle}],
           quiet' \in BOOLEAN, harmed' \in BOOLEAN,
           \A i \in Indices : table'[i] \in {table[i], Free, op.token},
           state = "cleared" => With(table', op.token) = {}
    PROVE  PlacerInv'
<1>1. /\ op' \in Operation /\ op'.kind = "none" /\ op'.step = "none"
      /\ books' \in [Tokens -> BookStates]
      /\ op.token \in Tokens
      /\ books'[op.token] = state
      /\ \A t \in Tokens : t # op.token => books'[t] = books[t]
  BY ReturnEffect
<1>2. TypeOK'
  BY <1>1 DEF TypeOK
<1>3. OperationConsistent'
  BY <1>1 DEF OperationConsistent
<1>4. ClearedIsGone'
  <2> SUFFICES ASSUME NEW t \in Tokens, books'[t] = "cleared"
               PROVE  \A i \in Indices : table'[i] # t
    BY DEF ClearedIsGone, With
  <2>1. CASE t = op.token
    BY <1>1, <2>1 DEF With
  <2>2. CASE t # op.token
    <3>1. \A i \in Indices : table[i] # t
      BY <1>1, <2>2 DEF PlacerInv, ClearedIsGone, With
    <3> QED
      BY <3>1, <2>2, MarksDiffer
  <2> QED
    BY <2>1, <2>2
<1> QED
  BY <1>2, <1>3, <1>4 DEF PlacerInv

(* A step of an operation that goes on: the books stay, and no token other  *)
(* than one under placement appears in the table.                           *)
LEMMA GoOnPreserves ==
    ASSUME PlacerInv, op.kind # "none", UNCHANGED <<books, handle>>,
           op' \in Operation, op'.kind = op.kind, op'.token = op.token,
           op.kind = "set" => op'.step \in {"place", "confirm"},
           op.kind = "clear" => op'.step \in {"delete", "verify"} /\ op'.index \in Indices,
           table' \in [Indices -> Entries], quiet' \in BOOLEAN, harmed' \in BOOLEAN,
           \A i \in Indices : table'[i] \in {table[i], Free, op.token}
    PROVE  PlacerInv'
<1>1. TypeOK'
  BY DEF PlacerInv, TypeOK
<1>2. OperationConsistent'
  BY DEF PlacerInv, OperationConsistent
<1>3. op.token \in Tokens /\ books[op.token] # "cleared"
  BY DEF PlacerInv, OperationConsistent, TypeOK, Operation
<1>4. ClearedIsGone'
  <2> SUFFICES ASSUME NEW t \in Tokens, books'[t] = "cleared"
               PROVE  \A i \in Indices : table'[i] # t
    BY DEF ClearedIsGone, With
  <2>1. \A i \in Indices : table[i] # t
    BY DEF PlacerInv, ClearedIsGone, With
  <2> QED
    BY <1>3, <2>1, MarksDiffer
<1> QED
  BY <1>1, <1>2, <1>4 DEF PlacerInv

(* Deletes starts or restarts a deletion.                                   *)
LEMMA DeletesEffect ==
    ASSUME PlacerInv, op.kind = "clear", NEW i \in Indices, Deletes(i, table)
    PROVE  /\ op' \in Operation /\ op'.kind = "clear" /\ op'.token = op.token
           /\ op'.step = "delete" /\ op'.index = i
           /\ books' = books
<1>1. op \in Operation /\ table \in [Indices -> Entries]
  BY DEF PlacerInv, TypeOK
<1>2. op' = [op EXCEPT !.step = "delete", !.before = table, !.index = i] /\ books' = books
  BY DEF Deletes
<1>3. op' \in Operation
  BY <1>1, <1>2, Zenon DEF Operation
<1> QED
  BY <1>1, <1>2, <1>3 DEF Operation

-----------------------------------------------------------------------------
(* A fresh placer: nothing on the table is a token's.                       *)
LEMMA InitInv == Init => PlacerInv
<1> SUFFICES ASSUME Init PROVE PlacerInv
  OBVIOUS
<1>1. table \in [Indices -> Entries]
  BY DEF Init, Nothing, Entries
<1>2. op \in Operation /\ op.kind = "none" /\ op.step = "none"
  BY BeginType DEF Init, NoOperation
<1> QED
  BY <1>1, <1>2, Zenon DEF Init, PlacerInv, TypeOK, OperationConsistent, ClearedIsGone, BookStates

(* What the step of an operation tells of its kind.                         *)
LEMMA KindOfStep ==
    ASSUME PlacerInv
    PROVE  /\ op.step \in {"place", "confirm"} => op.kind = "set"
           /\ op.step \in {"delete", "verify"} => op.kind = "clear" /\ op.index \in Indices
           /\ op.kind # "none" => op.token \in Tokens
BY DEF PlacerInv, TypeOK, OperationConsistent, Operation

(* Every step keeps the invariant, whatever the GUI does.                   *)
LEMMA NextInv == PlacerInv /\ [Next]_vars => PlacerInv'
<1> SUFFICES ASSUME PlacerInv, [Next]_vars PROVE PlacerInv'
  OBVIOUS
<1> USE KindOfStep
<1>type. /\ table \in [Indices -> Entries] /\ op \in Operation
         /\ handle \in [Tokens -> Indices \union {NoHandle}]
         /\ quiet \in BOOLEAN /\ harmed \in BOOLEAN
  BY DEF PlacerInv, TypeOK
<1>states. {"failed", "recorded", "cleared"} \subseteq BookStates
  BY DEF BookStates
<1>1. ASSUME NEW i \in Indices, GuiDeletes(i) \/ GuiAdds(i) PROVE PlacerInv'
  <2>1. /\ table' \in [Indices -> Entries]
        /\ \A j \in Indices : table'[j] \in {table[j], Free, Foreign}
        /\ quiet' \in BOOLEAN /\ UNCHANGED <<op, books, handle, harmed>>
    BY <1>1, <1>type, Zenon DEF GuiDeletes, GuiAdds, Entries
  <2>2. ClearedIsGone'
    BY <2>1, MarksDiffer DEF PlacerInv, ClearedIsGone, With
  <2> QED
    BY <2>1, <2>2 DEF PlacerInv, TypeOK, OperationConsistent
<1>2. ASSUME NEW t \in Tokens, StartSet(t) \/ StartClear(t) PROVE PlacerInv'
  <2>1. /\ op' \in Operation /\ op'.token = t /\ op'.step = "list"
        /\ \/ op'.kind = "set" /\ books[t] = "unissued"
           \/ op'.kind = "clear" /\ books[t] = "recorded"
        /\ UNCHANGED <<table, books, handle, quiet, harmed>>
    BY <1>2, BeginType DEF StartSet, StartClear
  <2> QED
    BY <2>1 DEF PlacerInv, TypeOK, OperationConsistent, ClearedIsGone, With
<1>3. CASE CommandFails
  BY <1>3, <1>type, <1>states, ReturnPreserves DEF CommandFails
<1>4. CASE SetLists
  <2>1. op' = [op EXCEPT !.step = "place", !.before = table] /\ op.kind = "set"
    BY <1>4 DEF SetLists
  <2>2. op' \in Operation
    BY <2>1, <1>type, Zenon DEF Operation
  <2>3. op'.kind = op.kind /\ op'.token = op.token /\ op'.step = "place"
    BY <2>1, <1>type DEF Operation
  <2> QED
    BY <1>4, <2>1, <2>2, <2>3, <1>type, GoOnPreserves DEF SetLists
<1>5. ASSUME NEW places \in SUBSET Indices, NEW answered \in BOOLEAN, SetPlaces(places, answered)
      PROVE  PlacerInv'
  <2>1. /\ table' \in [Indices -> Entries]
        /\ \A i \in Indices : table'[i] \in {table[i], Free, op.token}
        /\ op.kind = "set" /\ UNCHANGED <<handle, quiet, harmed>>
    BY <1>5, <1>type DEF SetPlaces, Entries
  <2>2. CASE answered
    <3>1. op' = [op EXCEPT !.step = "confirm"] /\ UNCHANGED books
      BY <1>5, <2>2 DEF SetPlaces
    <3>2. op' \in Operation
      BY <3>1, <1>type, Zenon DEF Operation
    <3>3. op'.kind = op.kind /\ op'.token = op.token /\ op'.step = "confirm"
      BY <3>1, <1>type DEF Operation
    <3> QED
      BY <2>1, <3>1, <3>2, <3>3, <1>type, GoOnPreserves
  <2>3. CASE ~answered
    BY <1>5, <2>1, <2>3, <1>type, <1>states, ReturnPreserves DEF SetPlaces
  <2> QED
    BY <2>2, <2>3
<1>6. CASE SetConfirms
  <2>1. handle' \in [Tokens -> Indices \union {NoHandle}]
    BY <1>6, <1>type DEF SetConfirms
  <2> QED
    BY <1>6, <2>1, <1>type, <1>states, ReturnPreserves DEF SetConfirms
<1>7. CASE ClearLists
  <2>1. op.kind = "clear" /\ quiet' \in BOOLEAN /\ UNCHANGED <<table, handle, harmed>>
    BY <1>7 DEF ClearLists
  <2>2. \/ Return("recorded")
        \/ With(table, op.token) = {} /\ Return("cleared")
        \/ \E i \in Indices : Deletes(i, table)
    BY <1>7 DEF ClearLists, ClearDecides, With
  <2>3. CASE Return("recorded")
    BY <2>1, <2>3, <1>type, <1>states, ReturnPreserves
  <2>4. CASE With(table, op.token) = {} /\ Return("cleared")
    BY <2>1, <2>4, <1>type, <1>states, ReturnPreserves
  <2>5. ASSUME NEW i \in Indices, Deletes(i, table) PROVE PlacerInv'
    BY <2>1, <2>5, <1>type, DeletesEffect, GoOnPreserves
  <2> QED
    BY <2>2, <2>3, <2>4, <2>5
<1>8. ASSUME NEW effective \in BOOLEAN, NEW answered \in BOOLEAN,
             ClearDeletes(effective, answered)
      PROVE  PlacerInv'
  <2>1. /\ table' \in [Indices -> Entries] /\ harmed' \in BOOLEAN
        /\ \A i \in Indices : table'[i] \in {table[i], Free, op.token}
        /\ op.kind = "clear" /\ UNCHANGED <<handle, quiet>>
    BY <1>8, <1>type DEF ClearDeletes, Entries
  <2>2. CASE answered
    <3>1. op' = [op EXCEPT !.step = "verify"] /\ UNCHANGED books
      BY <1>8, <2>2 DEF ClearDeletes
    <3>2. op' \in Operation
      BY <3>1, <1>type, Zenon DEF Operation
    <3>3. op'.kind = op.kind /\ op'.token = op.token /\ op'.step = "verify" /\ op'.index = op.index
      BY <3>1, <1>type DEF Operation
    <3>4. op.index \in Indices
      BY <1>8 DEF ClearDeletes
    <3> QED
      BY <2>1, <3>1, <3>2, <3>3, <3>4, <1>type, GoOnPreserves
  <2>3. CASE ~answered
    BY <1>8, <2>1, <2>3, <1>type, <1>states, ReturnPreserves DEF ClearDeletes
  <2> QED
    BY <2>2, <2>3
<1>9. CASE ClearVerifies
  <2>1. op.kind = "clear" /\ quiet' \in BOOLEAN /\ UNCHANGED <<table, handle, harmed>>
    BY <1>9 DEF ClearVerifies
  <2>2. \/ Return("recorded")
        \/ With(table, op.token) = {} /\ Return("cleared")
        \/ \E i \in Indices : Deletes(i, table)
    BY <1>9 DEF ClearVerifies, With
  <2>3. CASE Return("recorded")
    BY <2>1, <2>3, <1>type, <1>states, ReturnPreserves
  <2>4. CASE With(table, op.token) = {} /\ Return("cleared")
    BY <2>1, <2>4, <1>type, <1>states, ReturnPreserves
  <2>5. ASSUME NEW i \in Indices, Deletes(i, table) PROVE PlacerInv'
    BY <2>1, <2>5, <1>type, DeletesEffect, GoOnPreserves
  <2> QED
    BY <2>2, <2>3, <2>4, <2>5
<1>10. CASE UNCHANGED vars
  BY <1>10 DEF vars, PlacerInv, TypeOK, OperationConsistent, ClearedIsGone, With
<1> QED
  BY <1>1, <1>2, <1>3, <1>4, <1>5, <1>6, <1>7, <1>8, <1>9, <1>10 DEF Next

(* A Clear that returned nil is final, whatever the GUI does between the    *)
(* commands of the placer (Clear, clearExactToken, deleteExact).            *)
THEOREM ClearIsFinal == Spec => []ClearedIsGone
<1>1. PlacerInv => ClearedIsGone
  BY DEF PlacerInv
<1> QED
  BY <1>1, InitInv, NextInv, PTL DEF Spec

-----------------------------------------------------------------------------
(* Until the GUI acts, an index about to be deleted still carries the token *)
(* the latest listing showed there.                                         *)
LEMMA NextDeletesItsOwn ==
    ASSUME PlacerInv, DeletesItsOwn, ForeignUntouched, [Next]_vars
    PROVE  DeletesItsOwn' /\ ForeignUntouched'
<1> USE KindOfStep
<1>type. table \in [Indices -> Entries] /\ op \in Operation
  BY DEF PlacerInv, TypeOK
<1>returned. ASSUME NEW state, Return(state), UNCHANGED harmed
             PROVE  DeletesItsOwn' /\ ForeignUntouched'
  BY <1>returned DEF Return, NoOperation, DeletesItsOwn, ForeignUntouched
<1>deletes. ASSUME op.kind = "clear", NEW i \in With(table, op.token), Deletes(i, table),
                   UNCHANGED <<table, harmed>>
            PROVE  DeletesItsOwn' /\ ForeignUntouched'
  <2>1. op'.token = op.token /\ op'.index = i
    BY <1>deletes, DeletesEffect DEF With
  <2> QED
    BY <1>deletes, <2>1 DEF DeletesItsOwn, ForeignUntouched, With
<1>1. ASSUME NEW i \in Indices, GuiDeletes(i) \/ GuiAdds(i)
      PROVE  DeletesItsOwn' /\ ForeignUntouched'
  BY <1>1 DEF GuiDeletes, GuiAdds, DeletesItsOwn, ForeignUntouched
<1>2. ASSUME NEW t \in Tokens, StartSet(t) \/ StartClear(t)
      PROVE  DeletesItsOwn' /\ ForeignUntouched'
  BY <1>2, BeginType DEF StartSet, StartClear, DeletesItsOwn, ForeignUntouched
<1>3. CASE CommandFails
  BY <1>3, <1>returned DEF CommandFails
<1>4. CASE SetLists
  BY <1>4, <1>type DEF SetLists, Operation, DeletesItsOwn, ForeignUntouched
<1>5. ASSUME NEW places \in SUBSET Indices, NEW answered \in BOOLEAN, SetPlaces(places, answered)
      PROVE  DeletesItsOwn' /\ ForeignUntouched'
  <2>1. CASE answered
    BY <1>5, <2>1, <1>type DEF SetPlaces, Operation, DeletesItsOwn, ForeignUntouched
  <2>2. CASE ~answered
    BY <1>5, <2>2, <1>returned DEF SetPlaces
  <2> QED
    BY <2>1, <2>2
<1>6. CASE SetConfirms
  BY <1>6, <1>returned DEF SetConfirms
<1>7. CASE ClearLists
  BY <1>7, <1>returned, <1>deletes DEF ClearLists, ClearDecides
<1>8. ASSUME NEW effective \in BOOLEAN, NEW answered \in BOOLEAN,
             ClearDeletes(effective, answered)
      PROVE  DeletesItsOwn' /\ ForeignUntouched'
  <2>1. op.token \in Tokens /\ quiet => table[op.index] = op.token
    BY <1>8 DEF ClearDeletes, DeletesItsOwn
  <2>2. UNCHANGED harmed
    <3>1. quiet => table[op.index] # Foreign
      BY <1>8, <2>1, MarksDiffer DEF ClearDeletes
    <3>2. harmed \in BOOLEAN
      BY DEF PlacerInv, TypeOK
    <3> QED
      BY <1>8, <3>1, <3>2 DEF ClearDeletes
  <2>3. CASE answered
    BY <1>8, <2>2, <2>3, <1>type DEF ClearDeletes, Operation, DeletesItsOwn, ForeignUntouched
  <2>4. CASE ~answered
    BY <1>8, <2>2, <2>4, <1>returned DEF ClearDeletes
  <2> QED
    BY <2>3, <2>4
<1>9. CASE ClearVerifies
  BY <1>9, <1>returned, <1>deletes DEF ClearVerifies
<1>10. CASE UNCHANGED vars
  BY <1>10 DEF vars, DeletesItsOwn, ForeignUntouched
<1> QED
  BY <1>1, <1>2, <1>3, <1>4, <1>5, <1>6, <1>7, <1>8, <1>9, <1>10 DEF Next

(* A breakpoint of the user is never deleted, however indices are reused,   *)
(* save one set after the listing that deleteExact went by.                 *)
THEOREM UserBreakpointsSurvive == Spec => []ForeignUntouched
<1> DEFINE Inv == PlacerInv /\ DeletesItsOwn /\ ForeignUntouched
<1>1. Init => Inv
  BY InitInv DEF Init, NoOperation, DeletesItsOwn, ForeignUntouched
<1>2. Inv /\ [Next]_vars => Inv'
  BY NextInv, NextDeletesItsOwn
<1>3. Inv => ForeignUntouched
  OBVIOUS
<1> QED
  BY <1>1, <1>2, <1>3, PTL DEF Spec

=============================================================================
