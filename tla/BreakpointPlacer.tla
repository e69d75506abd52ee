-------------------------- MODULE BreakpointPlacer --------------------------
(***************************************************************************)
(* multi.BreakpointPlacer against the breakpoint table of one core.        *)
(*                                                                         *)
(* MULTI numbers breakpoints and reuses the number of a deleted one, so an  *)
(* index is no proof of ownership; the hint token in the command list is.   *)
(* Set lists the table, issues b and lists again to learn the index.  Clear *)
(* lists, deletes by index and lists again.  Each of these is a command of  *)
(* its own, and the user works on the same table in MULTI's GUI.            *)
(***************************************************************************)
EXTENDS Integers

CONSTANTS
    Indices,    \* breakpoint numbers MULTI may give out
    Tokens      \* hint tokens, each used for one placement

ASSUME IndicesAssumption == Indices \subseteq Nat
ASSUME TokensAssumption == Tokens \subseteq Nat \ {0}

VARIABLES
    table,      \* MULTI's table: index to Free, Foreign or the token of a command list
    op,         \* the operation in progress
    books,      \* what the store was told of each token
    handle,     \* Physical.MULTIHandle of each token, or NoHandle
    quiet,      \* history: the GUI left the table alone since it was listed for Clear
    harmed      \* history: a breakpoint of the user was deleted on a quiet table

vars == <<table, op, books, handle, quiet, harmed>>

Free == -1
Foreign == 0
NoHandle == -1

Entries == Tokens \union {Free, Foreign}

(* Set or Clear of token, about to issue the command named by step.  before *)
(* is the latest listing, index the breakpoint to delete.                   *)
Operation ==
    [kind : {"none", "set", "clear"}, token : Tokens \union {0},
     step : {"none", "list", "place", "confirm", "delete", "verify"},
     before : [Indices -> Entries], index : Indices \union {NoHandle}]

Nothing == [i \in Indices |-> Free]

NoOperation ==
    [kind |-> "none", token |-> 0, step |-> "none", before |-> Nothing, index |-> NoHandle]

Begin(kind, token) == [NoOperation EXCEPT !.kind = kind, !.token = token, !.step = "list"]

(* What the store knows of a token: Set never ran, it failed without a      *)
(* trace, it left a record, or Clear has confirmed the end of it.           *)
BookStates == {"unissued", "failed", "recorded", "cleared"}

With(listing, token) == {i \in Indices : listing[i] = token}

-----------------------------------------------------------------------------
(* The GUI, external.                                                       *)

GuiDeletes(i) ==
    /\ table[i] # Free
    /\ table' = [table EXCEPT ![i] = Free]
    /\ quiet' = FALSE
    /\ UNCHANGED <<op, books, handle, harmed>>

GuiAdds(i) ==
    /\ table[i] = Free
    /\ table' = [table EXCEPT ![i] = Foreign]
    /\ quiet' = FALSE
    /\ UNCHANGED <<op, books, handle, harmed>>

-----------------------------------------------------------------------------
StartSet(t) ==
    /\ op.kind = "none"
    /\ books[t] = "unissued"
    /\ op' = Begin("set", t)
    /\ UNCHANGED <<table, books, handle, quiet, harmed>>

StartClear(t) ==
    /\ op.kind = "none"
    /\ books[t] = "recorded"
    /\ op' = Begin("clear", t)
    /\ UNCHANGED <<table, books, handle, quiet, harmed>>

Return(state) ==
    /\ op' = NoOperation
    /\ books' = [books EXCEPT ![op.token] = state]

(* Any command may fail before MULTI acts on it: a route that no longer     *)
(* leads to the configured program, a refusal, an unreadable listing.  Set  *)
(* leaves a recovery record once b was accepted; Clear keeps its record.    *)
CommandFails ==
    /\ op.kind # "none"
    /\ Return(IF op.kind = "set" /\ op.step # "confirm" THEN "failed" ELSE "recorded")
    /\ UNCHANGED <<table, handle, quiet, harmed>>

SetLists ==
    /\ op.kind = "set" /\ op.step = "list"
    /\ With(table, op.token) = {}
    /\ op' = [op EXCEPT !.step = "place", !.before = table]
    /\ UNCHANGED <<table, books, handle, quiet, harmed>>

(* MULTI accepted b and listed it once, as it should, or twice, or not at   *)
(* all.  The answer may nevertheless be an error, and then Set returns      *)
(* without a record.                                                        *)
SetPlaces(places, answered) ==
    /\ op.step = "place"
    /\ \A i \in places : table[i] = Free
    /\ table' = [i \in Indices |-> IF i \in places THEN op.token ELSE table[i]]
    /\ IF answered THEN op' = [op EXCEPT !.step = "confirm"] /\ UNCHANGED books
       ELSE Return("failed")
    /\ UNCHANGED <<handle, quiet, harmed>>

(* newlyPlaced wants exactly one new entry with the token.  The index is    *)
(* kept even if the source line of the entry cannot be read.                *)
SetConfirms ==
    LET new == {i \in With(table, op.token) : i \notin With(op.before, op.token)}
    IN  /\ op.step = "confirm"
        /\ Return("recorded")
        /\ handle' = IF \E i \in Indices : new = {i}
                     THEN [handle EXCEPT ![op.token] = CHOOSE i \in Indices : new = {i}]
                     ELSE handle
        /\ UNCHANGED <<table, quiet, harmed>>

(* About to delete index i.                                                 *)
Deletes(i, listing) ==
    /\ op' = [op EXCEPT !.step = "delete", !.before = listing, !.index = i]
    /\ UNCHANGED books

ClearDecidesMutant(listing) ==
    LET h == handle[op.token]
        left == With(listing, op.token)
    IN  \/ h # NoHandle /\ Deletes(h, listing)
        \/ h = NoHandle /\ left = {} /\ Return("cleared")
        \/ h = NoHandle /\ \E i \in left : Deletes(i, listing)

(* Clear with the listing: an error if the recorded index carries something *)
(* else; done if the token is nowhere; the recorded index if it is there,   *)
(* and the first in the listing, whichever that is, if it is not.           *)
ClearDecides(listing) ==
    LET h == handle[op.token]
        reused == h # NoHandle /\ listing[h] \notin {op.token, Free}
        left == With(listing, op.token)
    IN  \/ reused /\ Return("recorded")
        \/ ~reused /\ left = {} /\ Return("cleared")
        \/ ~reused /\ \E i \in left : (h \in left => i = h) /\ Deletes(i, listing)

ClearLists ==
    /\ op.kind = "clear" /\ op.step = "list"
    /\ ClearDecides(table)
    /\ quiet' = TRUE
    /\ UNCHANGED <<table, handle, harmed>>

(* d %index deletes whatever has that number now, if it deletes at all.     *)
ClearDeletes(effective, answered) ==
    /\ op.step = "delete"
    /\ table' = IF effective THEN [table EXCEPT ![op.index] = Free] ELSE table
    /\ harmed' = (harmed \/ (effective /\ quiet /\ table[op.index] = Foreign))
    /\ IF answered THEN op' = [op EXCEPT !.step = "verify"] /\ UNCHANGED books
       ELSE Return("recorded")
    /\ UNCHANGED <<handle, quiet>>

ClearVerifiesMutant ==
    /\ op.step = "verify"
    /\ Return("cleared")
    /\ UNCHANGED <<table, handle, quiet, harmed>>

(* deleteExact: the pair of index and token must be gone; clearExactToken   *)
(* goes on while the token is left elsewhere.                               *)
ClearVerifies ==
    LET left == With(table, op.token)
    IN  /\ op.step = "verify"
        /\ \/ op.index \in left /\ Return("recorded")
           \/ left = {} /\ Return("cleared")
           \/ op.index \notin left /\ \E i \in left : Deletes(i, table)
        /\ quiet' = TRUE
        /\ UNCHANGED <<table, handle, harmed>>

-----------------------------------------------------------------------------
Init ==
    /\ table = Nothing
    /\ op = NoOperation
    /\ books = [t \in Tokens |-> "unissued"]
    /\ handle = [t \in Tokens |-> NoHandle]
    /\ quiet = TRUE
    /\ harmed = FALSE

Next ==
    \/ \E i \in Indices : GuiDeletes(i) \/ GuiAdds(i)
    \/ \E t \in Tokens : StartSet(t) \/ StartClear(t)
    \/ CommandFails
    \/ SetLists
    \/ \E places \in SUBSET Indices, answered \in BOOLEAN : SetPlaces(places, answered)
    \/ SetConfirms
    \/ ClearLists
    \/ \E effective, answered \in BOOLEAN : ClearDeletes(effective, answered)
    \/ ClearVerifies

Spec == Init /\ [][Next]_vars

-----------------------------------------------------------------------------
(* Properties.                                                              *)

TypeOK ==
    /\ table \in [Indices -> Entries]
    /\ op \in Operation
    /\ books \in [Tokens -> BookStates]
    /\ handle \in [Tokens -> Indices \union {NoHandle}]
    /\ quiet \in BOOLEAN
    /\ harmed \in BOOLEAN

(* A Clear that returned nil is final: no breakpoint with that token is on  *)
(* the target, then or later, whatever the GUI did between its commands.    *)
ClearedIsGone == \A t \in Tokens : books[t] = "cleared" => With(table, t) = {}

(* However MULTI reuses indices, a breakpoint the user set by hand is never *)
(* deleted, save one set after the listing that Clear went by.              *)
ForeignUntouched == ~harmed

(* What an operation in progress may rely on: Set works on a token the      *)
(* store has no record of yet, Clear on one it has.                         *)
OperationConsistent ==
    /\ op.kind = "none" => op.step = "none"
    /\ op.kind = "set" =>
           /\ op.token \in Tokens
           /\ op.step \in {"list", "place", "confirm"}
           /\ books[op.token] = "unissued"
    /\ op.kind = "clear" =>
           /\ op.token \in Tokens
           /\ op.step \in {"list", "delete", "verify"}
           /\ books[op.token] = "recorded"
           /\ op.step # "list" => op.index \in Indices

(* On a quiet table the index about to be deleted carries the token.        *)
DeletesItsOwn == op.step = "delete" /\ quiet => table[op.index] = op.token

PlacerInv == TypeOK /\ OperationConsistent /\ ClearedIsGone
=============================================================================
