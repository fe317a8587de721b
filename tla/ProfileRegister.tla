-------------------------- MODULE ProfileRegister --------------------------
(***************************************************************************)
(* What the store of saved profiles promises whoever saves: a register     *)
(* that holds one catalog.  A save replaces the whole catalog or nothing,  *)
(* and only the profile it names; every profile keeps the last layout that *)
(* differs from its own.  A loss of power takes back at most what was not  *)
(* acknowledged - except that, while a publication is not acknowledged,    *)
(* what it replaced may be exposed: a loss of power may then leave no      *)
(* catalog at all, and the register promises nothing more.                 *)
(***************************************************************************)
EXTENDS Integers

CONSTANTS Deck, Layout, NoLayout, NoDeck

VARIABLES
  current,  \* the catalog every reader gets
  secured,  \* the catalog a loss of power falls back to, Nothing without one
  phase     \* settled: they are the same; pending: a publication is not
            \* acknowledged; exposed: nor is there a fallback; lost

\* An enrolled deck has a revision, counted from 1.
Entry(rev, layout, previous) == [rev |-> rev, layout |-> layout, previous |-> previous]
NoEntry == Entry(0, NoLayout, NoLayout)
Nothing == [selected |-> NoDeck, profiles |-> [d \in Deck |-> NoEntry]]

\* A layout becomes the previous one when another replaces it.
Successor(p, layout) ==
  Entry(p.rev + 1, layout, IF layout = p.layout THEN p.previous ELSE p.layout)

Saved(c, d, layout) == [c EXCEPT !.profiles[d] = Successor(@, layout)]
Selected(c, d) == [c EXCEPT !.selected = d]
Enrolled(c, d, layout) ==
  [selected |-> IF c.selected = NoDeck THEN d ELSE c.selected,
   profiles |-> [c.profiles EXCEPT ![d] = Entry(1, layout, NoLayout)]]

Publish ==
  /\ phase # "lost"
  /\ \E d \in Deck :
       IF current.profiles[d].rev = 0
         THEN \E l \in Layout : current' = Enrolled(current, d, l)
         ELSE \/ \E l \in Layout : current' = Saved(current, d, l)
              \/ current' = Selected(current, d)
  /\ phase' = IF phase = "settled" THEN "pending" ELSE phase
  /\ UNCHANGED secured

\* The publication reached the disk.
Secure ==
  /\ phase # "lost" /\ phase' = "settled"
  /\ secured' = current /\ UNCHANGED current

\* What an unacknowledged publication replaced goes before it is secured.
Expose ==
  /\ phase = "pending" /\ phase' = "exposed"
  /\ secured' = Nothing /\ UNCHANGED current

\* A loss of power takes back what was not acknowledged.
LosePower ==
  /\ phase' = IF phase \in {"settled", "pending"} THEN "settled" ELSE "lost"
  /\ current' = secured /\ UNCHANGED secured

Init == secured = current /\ phase = "settled"
Next == Publish \/ Secure \/ Expose \/ LosePower
Spec == Init /\ [][Next]_<<current, secured, phase>>
=============================================================================
