------------------------------ MODULE LayerStack ------------------------------
(***************************************************************************)
(* What the layer registry promises to its caller.  A display is a stack   *)
(* of distinct layers, listed from bottom to top and sorted by z-order.    *)
(* An operation on one layer takes it out of the stack or puts it at some  *)
(* place its z-order allows; it never disturbs the order of the others.    *)
(* A layer id is handed out once and never comes back.                     *)
(***************************************************************************)
EXTENDS Naturals, Sequences, SequencesExt

CONSTANTS Displays, Ids, Zorders, InitZ

VARIABLES
  stack,    \* per display: its layers from bottom to top
  zorder,   \* z-order of a layer
  used      \* ids handed out so far

stackVars == <<stack, zorder, used>>

Stacked(s, z) == \A i, j \in 1 .. Len(s) : i < j => z[s[i]] <= z[s[j]]

AddLayer(d) ==
  \E id \in Ids \ used, p \in 1 .. (Len(stack[d]) + 1) :
    /\ used' = used \cup {id}
    /\ zorder' = [zorder EXCEPT ![id] = InitZ]
    /\ stack' = [stack EXCEPT ![d] = InsertAt(@, p, id)]
    /\ Stacked(stack'[d], zorder')

TakeLayer(d) ==
  /\ \E i \in 1 .. Len(stack[d]) : stack' = [stack EXCEPT ![d] = RemoveAt(@, i)]
  /\ UNCHANGED <<zorder, used>>

MoveLayer(d) ==
  \E i \in 1 .. Len(stack[d]), p \in 1 .. Len(stack[d]), z \in Zorders :
    /\ zorder' = [zorder EXCEPT ![stack[d][i]] = z]
    /\ stack' = [stack EXCEPT ![d] = InsertAt(RemoveAt(@, i), p, stack[d][i])]
    /\ Stacked(stack'[d], zorder')
    /\ UNCHANGED used

StackInit ==
  /\ stack = [d \in Displays |-> <<>>]
  /\ zorder = [l \in Ids |-> InitZ]
  /\ used = {}

StackNext == \E d \in Displays : AddLayer(d) \/ TakeLayer(d) \/ MoveLayer(d)

StackSpec == StackInit /\ [][StackNext]_stackVars
=============================================================================
