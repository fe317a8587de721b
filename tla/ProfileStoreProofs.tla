------------------------- MODULE ProfileStoreProofs -------------------------
(***************************************************************************)
(* Proofs about ProfileStore for any decks, layouts, programs and bounds   *)
(* of the store, and any number of failures and losses of power in any     *)
(* order.  StoreIInv says what each stage of a save or an archiving has    *)
(* secured, and that nothing that was ever current depends on what a loss  *)
(* of power may take; what is known of the pointer and of its fallback     *)
(* depends on `trust`.                                                     *)
(***************************************************************************)
EXTENDS ProfileStore, FiniteSetTheorems, WellFoundedInduction, TLAPS

Rows ==
  [rev : Nat, layout : Layout \cup {NoLayout}, previous : Layout \cup {NoLayout},
   checked : BOOLEAN]
Catalogs == [selected : Deck \cup {NoDeck}, profiles : [Deck -> Rows]]
Entries == [at : {"absent", "partial", "whole"}, catalog : Catalogs]
Files == [Gen -> Entries]
Journals == [gen : Nat, retired : SUBSET Gen]
Stages ==
  {"idle", "drafted", "begun", "written", "synced", "moved",
   "copying", "copied", "journaled", "pruning", "swept"}
Procs ==
  [pc : Stages, kind : {"save", "project", "select", "enroll"}, deck : Deck \cup {NoDeck},
   layout : Layout \cup {NoLayout}, base : 0..MaxGen, rev : Nat, next : Catalogs,
   gen : 0..MaxGen]

Typed ==
  /\ gens \in Files /\ archive \in Files /\ history \in Files
  /\ pointer \in 0..MaxGen /\ journal \in Journals
  /\ safe \in [gens : Files, pointer : 0..MaxGen, journal : Journals]
  /\ scrap \in BOOLEAN /\ lock \in Proc \cup {NoProc}
  /\ proc \in [Proc -> Procs]
  /\ trust \in {"kept", "exposed", "lost"} /\ losses \in Nat

Locking == \A p \in Proc : lock = p <=> proc[p].pc \notin {"idle", "drafted"}

\* What the present and the fallback generation rest on.
Durable(g) == Loadable(g) /\ safe.gens[g] = gens[g] /\ history[g] = gens[g]

\* The fallback is gone at worst once a resumed archiving has exposed it, the
\* present once the power was lost then.
Pointers ==
  /\ safe.pointer <= pointer
  /\ \A g \in Standing \ {0} : Durable(g)

\* What was current is in the store for good, or in an archive.
Kept ==
  \A g \in Gen :
    /\ history[g].at # "absent" => history[g].at = "whole" /\ g <= pointer
    /\ history[g].at = "whole" =>
         /\ gens[g].at = "whole" => gens[g] = history[g]
         /\ safe.gens[g].at = "whole" => safe.gens[g] = history[g]
         /\ archive[g] = history[g] \/ (gens[g] = history[g] /\ safe.gens[g] = history[g])
    /\ gens[g].at = "absent" => safe.gens[g] = gens[g]

\* What a journal gives up is archived.
Given(j) ==
  \A g \in j.retired :
    /\ g < j.gen /\ archive[g].at = "whole"
    /\ history[g].at = "whole" => archive[g] = history[g]

Journaled ==
  /\ Given(journal) /\ Given(safe.journal)
  /\ safe.journal # journal => safe.journal.gen <= pointer

\* How far a save or an archiving has come.
Stage(p) ==
  LET r == proc[p]
  IN  /\ r.pc \in {"begun", "written", "synced"} =>
           /\ r.gen \in Gen /\ r.gen > pointer /\ journal = NoJournal
           /\ r.pc = "begun" => gens[r.gen].at = "partial"
           /\ r.pc # "begun" => gens[r.gen].at = "whole"
           /\ r.pc = "synced" => safe.gens = gens
      /\ r.pc = "moved" => journal = NoJournal
      /\ r.pc \in {"copying", "copied"} =>
           /\ journal = NoJournal
           /\ \A g \in Present : Loadable(g) /\ g <= pointer
      /\ r.pc = "copied" => \A g \in Retired : archive[g] = gens[g]
      /\ r.pc \in {"journaled", "pruning"} => journal.gen = pointer
      /\ r.pc = "pruning" => (trust = "kept" => safe.pointer \notin journal.retired)

SafeInv ==
  /\ Locking /\ Pointers /\ Kept /\ Journaled /\ \A p \in Proc : Stage(p)
  /\ Cardinality(Present) <= Generations

\* Rows that did not record their predecessor are those of the oldest stores,
\* whose only predecessor is the first generation.
Old(c) == \E d \in Known(c) : ~c.profiles[d].checked
Legacy ==
  \A g \in Standing \ {0} : Old(CatalogOf(g)) =>
    /\ g <= 2
    /\ g = 2 => /\ history[1].at = "whole"
                /\ archive[1].at = "whole" => archive[1] = history[1]

\* A catalog as the register holds it, given the predecessors.
View(c, before) ==
  [selected |-> c.selected,
   profiles |-> [d \in Deck |->
     [rev |-> c.profiles[d].rev, layout |-> c.profiles[d].layout,
      previous |-> IF c.profiles[d].rev = 0 THEN NoLayout ELSE before[d]]]]

\* The predecessor as history has it, `one` being what it has of the first
\* generation: no file that may go is consulted.
Recorded(c, one, g, d) ==
  IF c.profiles[d].checked THEN c.profiles[d].previous
  ELSE IF /\ g = 2 /\ one.at = "whole" /\ one.catalog.profiles[d].rev > 0
          /\ one.catalog.profiles[d].layout # c.profiles[d].layout
    THEN one.catalog.profiles[d].layout
  ELSE NoLayout
Memory(c, one, g) == View(c, [d \in Deck |-> Recorded(c, one, g, d)])
Recall(g) == Memory(CatalogOf(g), history[1], g)
Plain(c) == View(c, [d \in Deck |-> c.profiles[d].previous])

\* What the register allows a publication to do.
Publishes(old, new) ==
  \E d \in Deck :
    IF old.profiles[d].rev = 0
      THEN \E l \in Layout : new = Register!Enrolled(old, d, l)
      ELSE \/ \E l \in Layout : new = Register!Saved(old, d, l)
           \/ new = Register!Selected(old, d)

\* A request is for a deck that can take it, as long as its base is current.
Request(p) ==
  LET r == proc[p]
  IN  r.pc = "drafted" =>
        /\ r.deck \in Deck /\ r.base <= pointer
        /\ r.kind # "select" => r.layout \in Layout
        /\ r.kind = "save" => r.rev # 0
        /\ r.base = pointer /\ trust # "lost" =>
             /\ (r.kind = "enroll") = (Catalog.profiles[r.deck].rev = 0)
             /\ r.kind = "project" => r.next = SavedRow(Catalog, r.deck, r.layout)

\* A generation that is being written is a successor of the current one.
Succession(p) ==
  LET r == proc[p]
  IN  r.pc \in {"begun", "written", "synced"} /\ trust # "lost" =>
        /\ ~Old(gens[r.gen].catalog)
        /\ Publishes(Recall(pointer), Plain(gens[r.gen].catalog))

RegisterInv == Legacy /\ \A p \in Proc : Request(p) /\ Succession(p)

StoreIInv == Typed /\ SafeInv /\ RegisterInv

-----------------------------------------------------------------------------
(* Greatest and least generations.                                         *)

LEMMA LeastOf ==
  ASSUME NEW T \in SUBSET Nat, T # {}
  PROVE  \E x \in T : \A y \in T : x <= y
<1> DEFINE R == {ss \in Nat \X Nat : ss[1] < ss[2]}
<1>1. IsWellFoundedOn(R, Nat)
  BY NatLessThanWellFounded DEF OpToRel
<1> HIDE DEF R
<1>2. PICK x \in T : \A y \in T : <<y, x>> \notin R
  BY <1>1, WFMin
<1>3. \A i, j \in Nat : <<i, j>> \in R <=> i < j
  BY DEF R
<1>4. ASSUME NEW y \in T PROVE x <= y
  <2>1. x \in Nat /\ y \in Nat /\ ~(y < x)
    BY <1>2, <1>3
  <2>2. QED
    BY <2>1
<1>5. QED
  BY <1>4

LEMMA MinFacts ==
  ASSUME NEW T \in SUBSET Nat, T # {}
  PROVE  Min(T) \in T /\ \A y \in T : Min(T) <= y
BY LeastOf DEF Min

LEMMA MaxFacts ==
  ASSUME NEW n \in Nat, NEW T \in SUBSET (0..n), T # {}
  PROVE  Max(T) \in T /\ \A y \in T : y <= Max(T)
<1>1. \A x \in T : x \in 0..n
  BY T \in SUBSET (0..n)
<1> DEFINE U == {n - x : x \in T}
<1>2. U \in SUBSET Nat /\ U # {}
  <2> SUFFICES ASSUME NEW x \in T PROVE n - x \in Nat
    OBVIOUS
  <2>1. x \in 0..n
    BY <1>1
  <2>2. QED
    BY <2>1
<1> HIDE DEF U
<1>3. PICK u \in U : \A v \in U : u <= v
  BY <1>2, LeastOf
<1> USE DEF U
<1>4. \E x \in T : \A y \in T : x >= y
  <2>1. PICK x \in T : u = n - x
    OBVIOUS
  <2>2. ASSUME NEW y \in T PROVE x >= y
    <3>1. n - x <= n - y /\ x \in 0..n /\ y \in 0..n
      BY <1>1, <1>3, <2>1
    <3>2. QED
      BY <3>1
  <2>3. QED
    BY <2>2
<1>5. Max(T) \in T /\ \A y \in T : Max(T) >= y
  BY <1>4 DEF Max
<1>6. QED
  BY <1>1, <1>5

\* The number of a new generation is beyond all others.
LEMMA NextGenFacts ==
  ASSUME Typed
  PROVE  /\ NextGen \in Nat \ {0}
         /\ \A g \in Present : g < NextGen
         /\ NextGen <= MaxGen => NextGen \in Gen
<1>1. Present \subseteq Gen /\ MaxGen \in Nat
  BY StoreAssumption DEF Present
<1>2. {0} \cup Present \in SUBSET (0..MaxGen) /\ {0} \cup Present # {}
  BY <1>1 DEF Gen
<1> DEFINE T == {0} \cup Present
<1> HIDE DEF T
<1>3. Max(T) \in T /\ \A y \in T : y <= Max(T)
  BY <1>1, <1>2, MaxFacts DEF T
<1>4. Max(T) \in 0..MaxGen /\ NextGen = Max(T) + 1
  BY <1>2, <1>3 DEF NextGen, T
<1>5. ASSUME NEW g \in Present PROVE g < NextGen
  <2>1. g \in T /\ g \in Nat
    BY <1>1 DEF T, Gen
  <2>2. QED
    BY <1>3, <1>4, <2>1
<1>6. QED
  BY <1>1, <1>4, <1>5 DEF Gen

LEMMA PresentFinite ==
  /\ IsFiniteSet(Present) /\ Cardinality(Present) \in Nat
  /\ \A T \in SUBSET Present : IsFiniteSet(T) /\ Cardinality(T) <= Cardinality(Present)
<1>1. IsFiniteSet(Gen)
  BY StoreAssumption, FS_Interval DEF Gen
<1>2. IsFiniteSet(Present)
  BY <1>1, FS_Subset DEF Present
<1>3. QED
  BY <1>2, FS_Subset, FS_CardinalityType

\* The newest generation is not retired.
LEMMA RetiredFacts ==
  ASSUME NEW top, \A h \in Present : ~(h > top)
  PROVE  top \notin Retired
<1>1. {h \in Present : h > top} = {}
  OBVIOUS
<1>2. Cardinality({h \in Present : h > top}) = 0
  BY <1>1, FS_EmptySet
<1>3. Keep \in Nat /\ Keep > 0
  BY StoreAssumption
<1>4. QED
  BY <1>2, <1>3 DEF Retired

-----------------------------------------------------------------------------
(* Types.                                                                  *)

LEMMA EmptyFacts ==
  /\ Empty \in Catalogs /\ Missing \in Entries /\ ~Old(Empty)
  /\ \A d \in Deck : Empty.profiles[d].rev = 0
  /\ Idle \in Procs /\ NoJournal \in Journals
<1>1. NoRow \in Rows /\ NoRow.rev = 0
  BY DEF NoRow, Row, Rows
<1> DEFINE p == [d \in Deck |-> NoRow]
<1>2. p \in [Deck -> Rows] /\ \A d \in Deck : p[d] = NoRow
  BY <1>1
<1>3. Empty = [selected |-> NoDeck, profiles |-> p]
  BY DEF Empty
<1> HIDE DEF p
<1>4. Empty \in Catalogs /\ \A d \in Deck : Empty.profiles[d].rev = 0
  BY <1>1, <1>2, <1>3 DEF Catalogs
<1>5. ~Old(Empty)
  BY <1>4 DEF Old, Known
<1>6. Missing \in Entries
  BY <1>4 DEF Missing, Entries
<1>7. Idle \in Procs
  BY <1>4, StoreAssumption DEF Idle, Procs, Stages
<1>8. QED
  BY <1>4, <1>5, <1>6, <1>7 DEF NoJournal, Journals

LEMMA CatalogTyped ==
  ASSUME Typed, NEW g \in 0..MaxGen
  PROVE  CatalogOf(g) \in Catalogs
BY EmptyFacts DEF CatalogOf, Typed, Files, Entries, Gen

LEMMA SavedRowFacts ==
  ASSUME NEW c \in Catalogs, NEW d \in Deck, NEW l \in Layout \cup {NoLayout}
  PROVE  /\ SavedRow(c, d, l) \in Catalogs
         /\ SavedRow(c, d, l).selected = c.selected
         /\ \A e \in Deck \ {d} : SavedRow(c, d, l).profiles[e] = c.profiles[e]
         /\ SavedRow(c, d, l).profiles[d].rev = c.profiles[d].rev + 1
         /\ SavedRow(c, d, l).profiles[d].layout = l
<1> DEFINE r == c.profiles[d]
           n == r.rev + 1
           q == [r EXCEPT !.rev = n, !.layout = l]
           f == [c.profiles EXCEPT ![d] = q]
<1>1. r \in Rows /\ n \in Nat /\ c.profiles \in [Deck -> Rows]
  BY DEF Catalogs, Rows
<1>2. SavedRow(c, d, l) = [c EXCEPT !.profiles = f]
  BY <1>1 DEF SavedRow, Catalogs, Rows
<1> HIDE DEF n
<1>3. q \in Rows /\ q.rev = n /\ q.layout = l
  BY <1>1 DEF Rows
<1> HIDE DEF q
<1>4. f \in [Deck -> Rows] /\ f[d] = q /\ \A e \in Deck \ {d} : f[e] = c.profiles[e]
  BY <1>1, <1>3
<1> HIDE DEF f
<1>5. SavedRow(c, d, l) \in Catalogs /\ SavedRow(c, d, l).selected = c.selected
      /\ SavedRow(c, d, l).profiles = f
  BY <1>2, <1>4 DEF Catalogs
<1>6. QED
  BY <1>3, <1>4, <1>5 DEF n

LEMMA EnrolledRowFacts ==
  ASSUME NEW c \in Catalogs, NEW d \in Deck, NEW l \in Layout \cup {NoLayout}
  PROVE  /\ EnrolledRow(c, d, l) \in Catalogs
         /\ EnrolledRow(c, d, l).selected = IF c.selected = NoDeck THEN d ELSE c.selected
         /\ \A e \in Deck \ {d} : EnrolledRow(c, d, l).profiles[e] = c.profiles[e]
         /\ EnrolledRow(c, d, l).profiles[d] = Row(1, l, NoLayout, TRUE)
<1> DEFINE q == Row(1, l, NoLayout, TRUE)
           f == [c.profiles EXCEPT ![d] = q]
<1>1. q \in Rows
  BY DEF Row, Rows
<1> HIDE DEF q
<1>2. f \in [Deck -> Rows] /\ f[d] = q /\ \A e \in Deck \ {d} : f[e] = c.profiles[e]
  BY <1>1 DEF Catalogs
<1>3. EnrolledRow(c, d, l) =
        [selected |-> IF c.selected = NoDeck THEN d ELSE c.selected, profiles |-> f]
  BY DEF EnrolledRow, q
<1> HIDE DEF f
<1>4. QED
  BY <1>2, <1>3 DEF Catalogs, q

LEMMA SelectFacts ==
  ASSUME NEW c \in Catalogs, NEW d \in Deck
  PROVE  /\ [c EXCEPT !.selected = d] \in Catalogs
         /\ [c EXCEPT !.selected = d].selected = d
         /\ [c EXCEPT !.selected = d].profiles = c.profiles
BY DEF Catalogs

\* The search for a predecessor finds a layout, or none.
LEMMA PreviousTyped ==
  ASSUME Typed, NEW g \in 0..MaxGen, NEW d \in Deck
  PROVE  Previous(g, d) \in Layout \cup {NoLayout}
<1>1. CatalogOf(g).profiles[d].previous \in Layout \cup {NoLayout}
  BY CatalogTyped DEF Catalogs, Rows
<1>2. ASSUME InStore(g, d) # {}
      PROVE  gens[Max(InStore(g, d))].catalog.profiles[d].layout \in Layout \cup {NoLayout}
  <2>1. InStore(g, d) \in SUBSET (0..MaxGen) /\ InStore(g, d) \subseteq Gen /\ MaxGen \in Nat
    BY StoreAssumption DEF InStore, Present, Gen
  <2>2. Max(InStore(g, d)) \in Gen
    BY <1>2, <2>1, MaxFacts
  <2>3. QED
    BY <2>2 DEF Typed, Files, Entries, Catalogs, Rows
<1>3. ASSUME InArchive(g, d) # {}
      PROVE  archive[Max(InArchive(g, d))].catalog.profiles[d].layout \in Layout \cup {NoLayout}
  <2>1. InArchive(g, d) \in SUBSET (0..MaxGen) /\ InArchive(g, d) \subseteq Gen /\ MaxGen \in Nat
    BY StoreAssumption DEF InArchive, Gen
  <2>2. Max(InArchive(g, d)) \in Gen
    BY <1>3, <2>1, MaxFacts
  <2>3. QED
    BY <2>2 DEF Typed, Files, Entries, Catalogs, Rows
<1>4. QED
  BY <1>1, <1>2, <1>3 DEF Previous, LegacyPrevious

LEMMA WithHistoryFacts ==
  ASSUME Typed, NEW c \in Catalogs
  PROVE  /\ WithHistory(c) \in Catalogs /\ ~Old(WithHistory(c))
         /\ WithHistory(c).selected = c.selected
         /\ \A d \in Deck :
              LET r == WithHistory(c).profiles[d]
              IN  /\ r.rev = c.profiles[d].rev /\ r.layout = c.profiles[d].layout
                  /\ r.rev # 0 => r.previous = Predecessor(c, d)
<1> DEFINE row(d) == IF c.profiles[d].rev = 0 THEN c.profiles[d]
                     ELSE [c.profiles[d] EXCEPT !.previous = Predecessor(c, d), !.checked = TRUE]
           f == [d \in Deck |-> row(d)]
<1>1. ASSUME NEW d \in Deck
      PROVE  /\ row(d) \in Rows /\ row(d).rev = c.profiles[d].rev
             /\ row(d).layout = c.profiles[d].layout
             /\ row(d).rev # 0 => row(d).previous = Predecessor(c, d) /\ row(d).checked
  <2>1. c.profiles[d] \in Rows
    BY DEF Catalogs
  <2>2. Predecessor(c, d) \in Layout \cup {NoLayout}
    <3>1. pointer \in 0..MaxGen
      BY DEF Typed
    <3>2. Catalog.profiles[d] \in Rows /\ Previous(pointer, d) \in Layout \cup {NoLayout}
      BY <3>1, CatalogTyped, PreviousTyped DEF Catalog, Catalogs
    <3>3. QED
      BY <2>1, <3>2 DEF Predecessor, Rows
  <2> HIDE DEF Predecessor
  <2>3. QED
    BY <2>1, <2>2 DEF Rows
<1>2. WithHistory(c) = [c EXCEPT !.profiles = f]
  BY DEF WithHistory
<1> HIDE DEF row
<1>3. f \in [Deck -> Rows] /\ \A d \in Deck : f[d] = row(d)
  BY <1>1
<1> HIDE DEF f
<1>4. /\ WithHistory(c) \in Catalogs /\ WithHistory(c).selected = c.selected
      /\ WithHistory(c).profiles = f
  BY <1>2, <1>3 DEF Catalogs
<1>5. ~Old(WithHistory(c))
  <2> SUFFICES ASSUME NEW d \in Deck, f[d].rev > 0 PROVE f[d].checked
    BY <1>4 DEF Old, Known
  <2>1. f[d].rev # 0
    BY <1>1, <1>3 DEF Rows
  <2>2. QED
    BY <1>1, <1>3, <2>1
<1>6. QED
  BY <1>1, <1>3, <1>4, <1>5

-----------------------------------------------------------------------------
(* One program moves.                                                      *)

Resting == {"idle", "drafted"}

Moves(p, r) == proc' = [proc EXCEPT ![p] = r]
Turns(p, stage) == proc' = [proc EXCEPT ![p].pc = stage]

LEMMA MoveFacts ==
  ASSUME Typed, Locking, NEW p \in Proc, NEW r \in Procs, Moves(p, r),
         \/ lock' = lock /\ (r.pc \in Resting <=> proc[p].pc \in Resting)
         \/ lock \in {p, NoProc} /\ lock' = p /\ r.pc \notin Resting
         \/ lock = p /\ lock' = NoProc /\ r.pc \in Resting
  PROVE  /\ proc' \in [Proc -> Procs] /\ lock' \in Proc \cup {NoProc} /\ Locking'
         /\ proc'[p] = r /\ \A q \in Proc \ {p} : proc'[q] = proc[q]
         /\ (r.pc \notin Resting \/ proc[p].pc \notin Resting) =>
              \A q \in Proc \ {p} : proc'[q].pc \in Resting /\ proc[q].pc \in Resting
<1>1. /\ proc' \in [Proc -> Procs] /\ proc'[p] = r /\ \A q \in Proc \ {p} : proc'[q] = proc[q]
  BY DEF Typed, Moves
<1>2. lock' \in Proc \cup {NoProc}
  BY DEF Typed
<1>3. Locking'
  BY <1>1, StoreAssumption DEF Locking, Resting
<1>4. QED
  BY <1>1, <1>2, <1>3, StoreAssumption DEF Locking, Resting

\* Where the other programs rest, only the one that moves matters.
LEMMA StageFacts ==
  ASSUME NEW p \in Proc, proc'[p].pc \in Resting \/ Stage(p)',
         \A q \in Proc \ {p} : proc'[q].pc \in Resting
  PROVE  \A q \in Proc : Stage(q)'
<1>1. ASSUME NEW q \in Proc, proc'[q].pc \in Resting PROVE Stage(q)'
  BY <1>1 DEF Stage, Resting
<1>2. QED
  BY <1>1

\* The steps that only move a program to another stage.
LEMMA PcFacts ==
  ASSUME Typed, NEW p \in Proc, NEW stage \in Stages, Turns(p, stage)
  PROVE  \E r \in Procs : /\ Moves(p, r) /\ r.pc = stage
                          /\ r.gen = proc[p].gen /\ r.deck = proc[p].deck
<1> DEFINE r == [proc[p] EXCEPT !.pc = stage]
<1>1. proc[p] \in Procs
  BY DEF Typed
<1>2. r \in Procs /\ r.pc = stage /\ r.gen = proc[p].gen /\ r.deck = proc[p].deck
  BY <1>1 DEF Procs
<1>3. Moves(p, r)
  BY DEF Typed, Moves, Turns
<1>4. QED
  BY <1>2, <1>3

\* The parts of SafeInv that only speak of files.
Filed == Kept /\ Given(journal) /\ Given(safe.journal)
Counted == Cardinality(Present) <= Generations

LEMMA SameFiles ==
  ASSUME SafeInv, UNCHANGED <<gens, pointer, journal, safe, archive, history>>
  PROVE  Filed' /\ Counted' /\ \A g \in Gen : Durable(g)' <=> Durable(g)
BY DEF SafeInv, Filed, Counted, Kept, Journaled, Given, Present, Durable, Loadable

LEMMA SafeFrom ==
  ASSUME Locking', Pointers', Filed', Counted', \A q \in Proc : Stage(q)',
         safe'.journal # journal' => safe'.journal.gen <= pointer'
  PROVE  SafeInv'
BY DEF SafeInv, Filed, Counted, Journaled, NoJournal

\* Requests are made and refused.
LEMMA RestSteps ==
  ASSUME Typed, SafeInv, NEW p \in Proc, Draft(p) \/ Refuse(p)
  PROVE  Typed' /\ SafeInv'
<1>1. UNCHANGED <<gens, pointer, journal, safe, archive, scrap, lock, history, trust, losses>>
  BY DEF Draft, Refuse
<1>2. PICK r \in Procs : Moves(p, r) /\ r.pc \in Resting
  <2>1. CASE Draft(p)
    <3>1. PICK d \in Deck, l \in Layout \cup {NoLayout}, kind \in Kinds(p) :
            proc' = [proc EXCEPT ![p] =
              [pc |-> "drafted", kind |-> kind, deck |-> d, layout |-> l,
               base |-> pointer, rev |-> Catalog.profiles[d].rev, gen |-> 0,
               next |-> IF kind = "project" THEN SavedRow(Catalog, d, l) ELSE Empty]]
      BY <2>1 DEF Draft
    <3>2. pointer \in 0..MaxGen /\ Catalog \in Catalogs
      BY CatalogTyped DEF Typed, Catalog
    <3>3. Catalog.profiles[d].rev \in Nat /\ 0 \in 0..MaxGen
      BY <3>2, StoreAssumption DEF Catalogs, Rows
    <3>4. (IF kind = "project" THEN SavedRow(Catalog, d, l) ELSE Empty) \in Catalogs
      BY <3>2, SavedRowFacts, EmptyFacts
    <3>5. kind \in {"save", "project", "select", "enroll"}
      BY DEF Kinds
    <3> DEFINE n == IF kind = "project" THEN SavedRow(Catalog, d, l) ELSE Empty
               v == Catalog.profiles[d].rev
               r == [pc |-> "drafted", kind |-> kind, deck |-> d, layout |-> l,
                     base |-> pointer, rev |-> v, gen |-> 0, next |-> n]
    <3> HIDE DEF n, v
    <3>6. r \in Procs /\ r.pc \in Resting
      BY <3>2, <3>3, <3>4, <3>5 DEF Procs, Stages, Resting, n, v
    <3>7. Moves(p, r)
      BY <3>1 DEF n, v, Moves
    <3>8. QED
      BY <3>6, <3>7
  <2>2. CASE Refuse(p)
    BY <2>2, EmptyFacts DEF Refuse, Idle, Resting, Moves
  <2>3. QED
    BY <2>1, <2>2
<1>3. proc[p].pc \in Resting
  BY DEF Draft, Refuse, Resting
<1>4. /\ proc' \in [Proc -> Procs] /\ lock' \in Proc \cup {NoProc} /\ Locking'
      /\ proc'[p] = r /\ \A q \in Proc \ {p} : proc'[q] = proc[q]
  BY <1>1, <1>2, <1>3, MoveFacts DEF SafeInv
<1>5. Typed'
  BY <1>1, <1>4 DEF Typed
<1>7. Filed' /\ Counted' /\ \A g \in Gen : Durable(g)' <=> Durable(g)
  BY <1>1, SameFiles
<1>8. Pointers'
  BY <1>1 DEF SafeInv, Pointers, Standing, Durable, Loadable
<1>9. ASSUME NEW q \in Proc PROVE Stage(q)'
  <2>1. CASE q = p
    BY <1>2, <1>4, <2>1 DEF Stage, Resting
  <2>2. CASE q # p
    <3>1. Stage(q) /\ proc'[q] = proc[q]
      BY <1>4, <2>2 DEF SafeInv
    <3>2. QED
      BY <1>1, <3>1 DEF Stage, Present, Loadable, Retired
  <2>3. QED
    BY <2>1, <2>2
<1>10. QED
  BY <1>1, <1>4, <1>5, <1>7, <1>8, <1>9, SafeFrom DEF SafeInv, Journaled

\* A step of the program that has the lock, or takes it, that leaves the files
\* alone: what it must show of its stage is the last assumption.
LEMMA QuietStep ==
  ASSUME Typed, SafeInv, NEW p \in Proc, NEW r \in Procs, Moves(p, r),
         \/ lock' = lock /\ proc[p].pc \notin Resting /\ r.pc \notin Resting
         \/ lock = NoProc /\ lock' = p /\ r.pc \notin Resting
         \/ lock' = NoProc /\ proc[p].pc \notin Resting /\ r.pc \in Resting,
         UNCHANGED <<gens, pointer, journal, safe, archive, history>>,
         scrap' \in BOOLEAN, losses' = losses, trust' \in {"kept", "exposed", "lost"},
         Standing' \subseteq Standing,
         proc'[p].pc \in Resting \/ Stage(p)'
  PROVE  Typed' /\ SafeInv'
<1>1. lock = p <=> proc[p].pc \notin Resting
  BY DEF SafeInv, Locking, Resting
<1>2. lock \in {p, NoProc}
  BY <1>1
<1>3. /\ proc' \in [Proc -> Procs] /\ lock' \in Proc \cup {NoProc} /\ Locking'
      /\ proc'[p] = r /\ \A q \in Proc \ {p} : proc'[q] = proc[q]
      /\ \A q \in Proc \ {p} : proc'[q].pc \in Resting /\ proc[q].pc \in Resting
  <2>1. Locking
    BY DEF SafeInv
  <2>2. \/ lock' = lock /\ (r.pc \in Resting <=> proc[p].pc \in Resting)
        \/ lock \in {p, NoProc} /\ lock' = p /\ r.pc \notin Resting
        \/ lock = p /\ lock' = NoProc /\ r.pc \in Resting
    BY <1>1, <1>2
  <2>3. r.pc \notin Resting \/ proc[p].pc \notin Resting
    OBVIOUS
  <2>4. QED
    BY <2>1, <2>2, <2>3, MoveFacts
<1>4. Typed'
  BY <1>3 DEF Typed
<1>7. Filed' /\ Counted' /\ \A g \in Gen : Durable(g)' <=> Durable(g)
  BY SameFiles
<1>8. Pointers'
  BY DEF SafeInv, Pointers, Durable, Loadable
<1>9. \A q \in Proc : Stage(q)'
  BY <1>3, StageFacts
<1>10. QED
  BY <1>3, <1>4, <1>7, <1>8, <1>9, SafeFrom DEF SafeInv, Journaled

Regained == IF trust = "exposed" THEN "kept" ELSE trust

\* The same for a step that changes files.
LEMMA StepFrom ==
  ASSUME Typed, SafeInv, NEW p \in Proc, NEW r \in Procs, Moves(p, r),
         \/ lock' = lock /\ proc[p].pc \notin Resting /\ r.pc \notin Resting
         \/ lock = NoProc /\ lock' = p /\ r.pc \notin Resting
         \/ lock' = NoProc /\ proc[p].pc \notin Resting /\ r.pc \in Resting,
         gens' \in Files, archive' \in Files, history' \in Files,
         pointer' \in 0..MaxGen, journal' \in Journals,
         safe' \in [gens : Files, pointer : 0..MaxGen, journal : Journals],
         UNCHANGED <<scrap, losses>>, trust' = trust \/ trust' = Regained,
         Filed', Counted',
         safe'.pointer <= pointer', \A g \in Standing' \ {0} : Durable(g)',
         safe'.journal # journal' => safe'.journal.gen <= pointer',
         proc'[p].pc \in Resting \/ Stage(p)'
  PROVE  Typed' /\ SafeInv'
<1>1. lock = p <=> proc[p].pc \notin Resting
  BY DEF SafeInv, Locking, Resting
<1>2. lock \in {p, NoProc}
  BY <1>1
<1>3. /\ proc' \in [Proc -> Procs] /\ lock' \in Proc \cup {NoProc} /\ Locking'
      /\ proc'[p] = r
      /\ \A q \in Proc \ {p} : proc'[q].pc \in Resting /\ proc[q].pc \in Resting
  <2>1. Locking
    BY DEF SafeInv
  <2>2. \/ lock' = lock /\ (r.pc \in Resting <=> proc[p].pc \in Resting)
        \/ lock \in {p, NoProc} /\ lock' = p /\ r.pc \notin Resting
        \/ lock = p /\ lock' = NoProc /\ r.pc \in Resting
    BY <1>1, <1>2
  <2>3. r.pc \notin Resting \/ proc[p].pc \notin Resting
    OBVIOUS
  <2>4. QED
    BY <2>1, <2>2, <2>3, MoveFacts
<1>4. Typed'
  <2>1. trust' \in {"kept", "exposed", "lost"}
    BY DEF Typed, Regained
  <2>2. QED
    BY <1>3, <2>1 DEF Typed
<1>5. Pointers'
  BY DEF Pointers
<1>6. \A q \in Proc : Stage(q)'
  BY <1>3, StageFacts
<1>7. QED
  BY <1>3, <1>4, <1>5, <1>6, SafeFrom

\* What the program with the lock may rely on.
LEMMA Holding ==
  ASSUME Typed, SafeInv, NEW p \in Proc, proc[p].pc \notin Resting
  PROVE  Stage(p) /\ lock = p /\ proc[p] \in Procs
BY DEF SafeInv, Locking, Resting, Typed

LEMMA GiveUpStep ==
  ASSUME Typed, SafeInv, NEW p \in Proc, GiveUp(p)
  PROVE  Typed' /\ SafeInv'
<1>1. /\ proc[p].pc \notin Resting /\ Moves(p, Idle) /\ lock' = NoProc
      /\ UNCHANGED <<gens, pointer, journal, safe, archive, history, trust, losses>>
      /\ scrap' = (scrap \/ proc[p].pc = "copying")
  BY DEF GiveUp, Leave, Resting, Moves
<1>2. scrap' \in BOOLEAN /\ trust' \in {"kept", "exposed", "lost"}
  BY <1>1 DEF Typed
<1>3. Standing' \subseteq Standing
  BY <1>1 DEF Standing
<1>4. Idle \in Procs /\ Idle.pc \in Resting
  BY EmptyFacts DEF Idle, Resting
<1>5. proc'[p].pc \in Resting
  BY <1>1, <1>4 DEF Typed, Moves
<1>6. QED
  BY <1>1, <1>2, <1>3, <1>4, <1>5, QuietStep

LEMMA StartSteps ==
  ASSUME Typed, SafeInv, NEW p \in Proc, StartArchive(p) \/ Resume(p)
  PROVE  Typed' /\ SafeInv'
<1>1. PICK stage \in {"copying", "pruning"} :
        /\ Turns(p, stage)
        /\ stage = "copying" => StartArchive(p)
        /\ stage = "pruning" => Resume(p)
  BY DEF StartArchive, Resume, Turns
<1>2. PICK r \in Procs : Moves(p, r) /\ r.pc = stage
  <2>1. stage \in Stages
    BY DEF Stages
  <2>2. Turns(p, stage)
    BY <1>1
  <2>3. QED
    BY <2>1, <2>2, PcFacts
<1>3. /\ lock = NoProc /\ lock' = p /\ proc[p].pc \in Resting
      /\ UNCHANGED <<gens, pointer, journal, safe, archive, scrap, history, losses>>
      /\ stage = "copying" => trust' = trust
      /\ stage = "pruning" =>
           trust' = IF trust = "kept" /\ safe.pointer \in journal.retired THEN "exposed"
                    ELSE trust
  BY <1>1 DEF StartArchive, Resume, Resting
<1>4. r.pc \notin Resting /\ proc'[p] = r
  BY <1>2 DEF Resting, Typed, Moves
<1>5. Stage(p)'
  <2>1. CASE stage = "copying"
    <3>1. /\ journal = NoJournal /\ Max(Present) = pointer /\ \A g \in Present : Loadable(g)
      BY <1>1, <2>1 DEF StartArchive
    <3>2. \A g \in Present : g <= pointer
      <4>1. Present \in SUBSET (0..MaxGen) /\ MaxGen \in Nat
        BY StoreAssumption DEF Present, Gen
      <4>2. QED
        BY <3>1, <4>1, MaxFacts
    <3>3. QED
      BY <1>2, <1>3, <1>4, <2>1, <3>1, <3>2 DEF Stage, Present, Loadable
  <2>2. CASE stage = "pruning"
    <3>1. journal # NoJournal /\ journal.gen = pointer
      BY <1>1, <2>2 DEF Resume
    <3>2. trust' = "kept" => safe.pointer \notin journal.retired
      BY <1>3, <2>2
    <3>3. QED
      BY <1>2, <1>3, <1>4, <2>2, <3>1, <3>2 DEF Stage
  <2>3. QED
    BY <2>1, <2>2
<1>6. scrap' \in BOOLEAN /\ trust' \in {"kept", "exposed", "lost"} /\ losses' = losses
  BY <1>3 DEF Typed
<1>7. Standing' \subseteq Standing
  BY <1>3 DEF Standing
<1>8. QED
  BY <1>2, <1>3, <1>4, <1>5, <1>6, <1>7, QuietStep

-----------------------------------------------------------------------------
(* A save.                                                                 *)

LEMMA EntryFacts ==
  ASSUME NEW e \in Entries, NEW at \in {"absent", "partial", "whole"}
  PROVE  /\ [e EXCEPT !.at = at] \in Entries /\ [e EXCEPT !.at = at].at = at
         /\ [e EXCEPT !.at = at].catalog = e.catalog
BY DEF Entries

\* What a draft wants to publish is a catalog.
LEMMA WantedTyped ==
  ASSUME Typed, NEW p \in Proc, Request(p), proc[p].pc = "drafted"
  PROVE  Wanted(p) \in Catalogs
<1>1. Catalog \in Catalogs /\ proc[p] \in Procs
  BY CatalogTyped DEF Typed, Catalog
<1>2. proc[p].deck \in Deck /\ proc[p].layout \in Layout \cup {NoLayout}
      /\ proc[p].next \in Catalogs /\ proc[p].kind \in {"save", "project", "select", "enroll"}
  BY <1>1 DEF Request, Procs
<1>3. QED
  BY <1>1, <1>2, SavedRowFacts, EnrolledRowFacts, SelectFacts DEF Wanted

LEMMA BeginFacts ==
  ASSUME Typed, SafeInv, NEW p \in Proc, Request(p), BeginGeneration(p)
  PROVE  /\ NextGen \in Gen /\ NextGen > pointer /\ NextGen \notin Present
         /\ WithHistory(Wanted(p)) \in Catalogs
         /\ gens' \in Files /\ gens'[NextGen] = Partial(WithHistory(Wanted(p)))
         /\ \A g \in Gen \ {NextGen} : gens'[g] = gens[g]
         /\ \E r \in Procs : /\ Moves(p, r) /\ r.pc = "begun"
                             /\ r.gen = NextGen
<1>1. /\ proc[p].pc = "drafted" /\ NextGen <= MaxGen /\ CanLoad
      /\ gens' = [gens EXCEPT ![NextGen] = Partial(WithHistory(Wanted(p)))]
  BY DEF BeginGeneration, Publishable
<1>2. NextGen \in Gen /\ NextGen \in Nat \ {0} /\ \A g \in Present : g < NextGen
  BY <1>1, NextGenFacts
<1>3. NextGen > pointer
  <2>1. CASE pointer = 0
    BY <1>2, <2>1
  <2>2. CASE pointer # 0
    <3>1. pointer \in Gen
      BY <2>2 DEF Typed, Gen
    <3>2. pointer \in Present
      BY <1>1, <2>2, <3>1 DEF CanLoad, Loadable, Present
    <3>3. QED
      BY <1>2, <3>1, <3>2 DEF Gen
  <2>3. QED
    BY <2>1, <2>2
<1>4. NextGen \notin Present
  BY <1>2
<1>5. WithHistory(Wanted(p)) \in Catalogs
  BY <1>1, WantedTyped, WithHistoryFacts
<1> DEFINE n == NextGen
           c == WithHistory(Wanted(p))
<1> HIDE DEF n, c
<1>6. Partial(c) \in Entries
  BY <1>5 DEF Partial, Entries, c
<1>7. /\ gens' \in Files /\ gens'[n] = Partial(c)
      /\ \A g \in Gen \ {n} : gens'[g] = gens[g]
  <2>1. gens' = [gens EXCEPT ![n] = Partial(c)] /\ n \in Gen /\ gens \in Files
    BY <1>1, <1>2 DEF n, c, Typed
  <2>2. QED
    BY <1>6, <2>1 DEF Files
<1>8. \E r \in Procs : Moves(p, r) /\ r.pc = "begun" /\ r.gen = n
  <2> DEFINE r == [proc[p] EXCEPT !.pc = "begun", !.gen = n, !.next = Empty]
  <2>1. proc[p] \in Procs /\ n \in 0..MaxGen /\ "begun" \in Stages
    BY <1>2 DEF Typed, n, Gen, Stages
  <2>2. r \in Procs /\ r.pc = "begun" /\ r.gen = n
    BY <2>1, EmptyFacts DEF Procs
  <2>3. Moves(p, r)
    BY DEF BeginGeneration, Typed, n, Moves
  <2>4. QED
    BY <2>2, <2>3
<1>9. QED
  BY <1>2, <1>3, <1>4, <1>5, <1>7, <1>8 DEF n, c

LEMMA BeginStep ==
  ASSUME Typed, SafeInv, NEW p \in Proc, Request(p), BeginGeneration(p)
  PROVE  Typed' /\ SafeInv'
<1> DEFINE n == NextGen
           c == WithHistory(Wanted(p))
<1>1. /\ proc[p].pc = "drafted" /\ lock = NoProc /\ lock' = p
      /\ journal = NoJournal /\ HasRoom
      /\ UNCHANGED <<pointer, journal, safe, archive, scrap, history, trust, losses>>
  BY DEF BeginGeneration, Publishable
<1>2. /\ n \in Gen /\ n > pointer /\ n \notin Present
      /\ gens' \in Files /\ gens'[n] = Partial(c)
      /\ \A g \in Gen \ {n} : gens'[g] = gens[g]
  BY BeginFacts
<1>3. PICK r \in Procs : Moves(p, r) /\ r.pc = "begun" /\ r.gen = n
  BY BeginFacts
<1> HIDE DEF n, c
<1>4. gens'[n].at = "partial"
  BY <1>2 DEF Partial
<1>5. Filed'
  <2>1. history[n].at = "absent"
    <3>1. ~(n <= pointer)
      BY <1>2 DEF Typed, Gen
    <3>2. QED
      BY <1>2, <3>1 DEF SafeInv, Kept
  <2>2. Kept'
    BY <1>1, <1>2, <1>4, <2>1 DEF SafeInv, Kept
  <2>3. QED
    BY <1>1, <2>2 DEF SafeInv, Journaled, Filed, Given
<1>6. Counted'
  <2>1. Present' = Present \cup {n}
    BY <1>2, <1>4 DEF Present
  <2>2. Cardinality(Present \cup {n}) = Cardinality(Present) + 1
    BY <1>2, PresentFinite, FS_AddElement
  <2>3. QED
    BY <1>1, <2>1, <2>2, PresentFinite, StoreAssumption DEF Counted, HasRoom
<1>7. \A g \in Standing' \ {0} : Durable(g)'
  <2> SUFFICES ASSUME NEW g \in Standing \ {0} PROVE Durable(g)'
    BY <1>1 DEF Standing
  <2>1. Durable(g) /\ g <= pointer /\ g \in Gen
    BY DEF SafeInv, Pointers, Standing, Typed, Gen
  <2>2. g # n
    BY <1>2, <2>1 DEF Typed, Gen
  <2>3. QED
    BY <1>1, <1>2, <2>1, <2>2 DEF Durable, Loadable
<1>8. proc'[p] = r
  BY <1>3 DEF Typed, Moves
<1>9. Stage(p)'
  BY <1>1, <1>2, <1>3, <1>4, <1>8 DEF Stage
<1>10. UNCHANGED <<scrap, trust, losses>> /\ r.pc \notin Resting /\ lock = NoProc /\ lock' = p
  BY <1>1, <1>3 DEF Resting
<1>11. /\ archive' \in Files /\ history' \in Files /\ pointer' \in 0..MaxGen
       /\ journal' \in Journals
       /\ safe' \in [gens : Files, pointer : 0..MaxGen, journal : Journals]
  BY <1>1 DEF Typed
<1>12. /\ safe'.pointer <= pointer'
       /\ safe'.journal # journal' => safe'.journal.gen <= pointer'
  BY <1>1 DEF SafeInv, Pointers, Journaled
<1>13. QED
  BY <1>2, <1>3, <1>5, <1>6, <1>7, <1>9, <1>10, <1>11, <1>12, StepFrom

\* What the program with the lock inherits from the bookkeeping.
LEMMA Inherited ==
  ASSUME Typed, SafeInv, NEW p \in Proc, proc[p].pc \notin Resting
  PROVE  /\ safe.pointer <= pointer
         /\ safe.journal # journal => safe.journal.gen <= pointer
         /\ \A g \in Standing \ {0} : Durable(g) /\ g \in Gen /\ g <= pointer
BY DEF SafeInv, Pointers, Standing, Journaled, Typed, Gen

LEMMA ManifestStep ==
  ASSUME Typed, SafeInv, NEW p \in Proc, WriteManifest(p)
  PROVE  Typed' /\ SafeInv'
<1> DEFINE n == proc[p].gen
           e == [gens[n] EXCEPT !.at = "whole"]
<1>1. /\ proc[p].pc = "begun" /\ proc[p].pc \notin Resting
      /\ gens' = [gens EXCEPT ![n].at = "whole"] /\ Turns(p, "written")
      /\ UNCHANGED <<pointer, journal, safe, archive, scrap, lock, history, trust, losses>>
  BY DEF WriteManifest, Resting, Turns
<1>2. n \in Gen /\ n > pointer /\ journal = NoJournal /\ gens[n].at = "partial"
  BY <1>1, Holding DEF Stage
<1>3. gens[n] \in Entries /\ gens \in Files
  BY <1>2 DEF Typed, Files
<1>4. e \in Entries /\ e.at = "whole"
  BY <1>3, EntryFacts
<1>5. PICK r \in Procs : Moves(p, r) /\ r.pc = "written" /\ r.gen = n
  <2>1. "written" \in Stages
    BY DEF Stages
  <2>2. QED
    BY <1>1, <2>1, PcFacts
<1>6. gens' = [gens EXCEPT ![n] = e]
  BY <1>1, <1>2, <1>3 DEF Files
<1> HIDE DEF e
<1>7. gens' \in Files /\ gens'[n] = e /\ \A g \in Gen \ {n} : gens'[g] = gens[g]
  BY <1>2, <1>3, <1>4, <1>6 DEF Files
<1> HIDE DEF n
<1>8. history[n].at = "absent"
  <2>1. ~(n <= pointer)
    BY <1>2 DEF Typed, Gen
  <2>2. QED
    BY <1>2, <2>1 DEF SafeInv, Kept
<1>9. Filed'
  <2>1. Kept'
    BY <1>1, <1>2, <1>4, <1>7, <1>8 DEF SafeInv, Kept
  <2>2. QED
    BY <1>1, <2>1 DEF SafeInv, Journaled, Filed, Given
<1>10. Counted'
  <2>1. Present' = Present
    BY <1>2, <1>4, <1>7 DEF Present
  <2>2. QED
    BY <2>1 DEF SafeInv, Counted
<1>11. \A g \in Standing' \ {0} : Durable(g)'
  <2> SUFFICES ASSUME NEW g \in Standing \ {0} PROVE Durable(g)'
    BY <1>1 DEF Standing
  <2>1. Durable(g) /\ g <= pointer /\ g \in Gen
    BY <1>1, Inherited DEF Typed
  <2>2. g # n
    BY <1>2, <2>1 DEF Typed, Gen
  <2>3. QED
    BY <1>1, <1>7, <2>1, <2>2 DEF Durable, Loadable
<1>12. Stage(p)' /\ r.pc \notin Resting
  <2>1. proc'[p] = r
    BY <1>5 DEF Typed, Moves
  <2>2. QED
    BY <1>1, <1>2, <1>4, <1>5, <1>7, <2>1 DEF Stage, Resting
<1>13. /\ archive' \in Files /\ history' \in Files /\ pointer' \in 0..MaxGen
       /\ journal' \in Journals
       /\ safe' \in [gens : Files, pointer : 0..MaxGen, journal : Journals]
  BY <1>1 DEF Typed
<1>14. /\ safe'.pointer <= pointer'
       /\ safe'.journal # journal' => safe'.journal.gen <= pointer'
  BY <1>1, Inherited
<1>15. UNCHANGED <<scrap, trust, losses>> /\ lock' = lock /\ proc[p].pc \notin Resting
  BY <1>1
<1>16. QED
  BY <1>5, <1>7, <1>9, <1>10, <1>11, <1>12, <1>13, <1>14, <1>15, StepFrom

LEMMA SyncGenerationStep ==
  ASSUME Typed, SafeInv, NEW p \in Proc, SyncGeneration(p)
  PROVE  Typed' /\ SafeInv'
<1> DEFINE n == proc[p].gen
<1>1. /\ proc[p].pc = "written" /\ proc[p].pc \notin Resting
      /\ safe' = [safe EXCEPT !.gens = gens] /\ Turns(p, "synced")
      /\ UNCHANGED <<gens, pointer, journal, archive, scrap, lock, history, trust, losses>>
  BY DEF SyncGeneration, Resting, Turns
<1>2. n \in Gen /\ n > pointer /\ journal = NoJournal /\ gens[n].at = "whole"
  BY <1>1, Holding DEF Stage
<1>3. /\ safe' \in [gens : Files, pointer : 0..MaxGen, journal : Journals]
      /\ safe'.gens = gens /\ safe'.pointer = safe.pointer /\ safe'.journal = safe.journal
  BY <1>1 DEF Typed
<1>4. PICK r \in Procs : Moves(p, r) /\ r.pc = "synced" /\ r.gen = n
  <2>1. "synced" \in Stages
    BY DEF Stages
  <2>2. QED
    BY <1>1, <2>1, PcFacts
<1> HIDE DEF n
<1>5. Filed'
  <2>1. Kept'
    BY <1>1, <1>3 DEF SafeInv, Kept
  <2>2. QED
    BY <1>1, <1>3, <2>1 DEF SafeInv, Journaled, Filed, Given
<1>6. Counted'
  BY <1>1 DEF SafeInv, Counted, Present
<1>7. \A g \in Standing' \ {0} : Durable(g)'
  BY <1>1, <1>3, Inherited DEF Standing, Durable, Loadable
<1>8. Stage(p)' /\ r.pc \notin Resting
  <2>1. proc'[p] = r
    BY <1>4 DEF Typed, Moves
  <2>2. QED
    BY <1>1, <1>2, <1>3, <1>4, <2>1 DEF Stage, Resting
<1>9. /\ archive' \in Files /\ history' \in Files /\ pointer' \in 0..MaxGen
      /\ journal' \in Journals /\ gens' \in Files
  BY <1>1 DEF Typed
<1>10. /\ safe'.pointer <= pointer'
       /\ safe'.journal # journal' => safe'.journal.gen <= pointer'
  BY <1>1, <1>3, Inherited
<1>11. UNCHANGED <<scrap, trust, losses>> /\ lock' = lock /\ proc[p].pc \notin Resting
  BY <1>1
<1>12. QED
  BY <1>3, <1>4, <1>5, <1>6, <1>7, <1>8, <1>9, <1>10, <1>11, StepFrom

\* The new generation becomes the current one; the fallback stays.
LEMMA MoveFrom ==
  ASSUME Typed, SafeInv, NEW p \in Proc, MovePointer(p)
  PROVE  /\ pointer' = proc[p].gen /\ pointer' \in Gen /\ pointer' > pointer
         /\ journal = NoJournal /\ safe.gens = gens /\ gens[pointer'].at = "whole"
         /\ history' \in Files /\ history'[pointer'] = gens[pointer']
         /\ \A g \in Gen \ {pointer'} : history'[g] = history[g]
<1>1. /\ proc[p].pc = "synced" /\ proc[p].pc \notin Resting
      /\ pointer' = proc[p].gen /\ history' = [history EXCEPT ![pointer'] = gens[pointer']]
  BY DEF MovePointer, Resting, Turns
<1>2. /\ pointer' \in Gen /\ pointer' > pointer /\ journal = NoJournal /\ safe.gens = gens
      /\ gens[pointer'].at = "whole"
  BY <1>1, Holding DEF Stage
<1>3. gens[pointer'] \in Entries /\ history \in Files
  BY <1>2 DEF Typed, Files
<1>4. QED
  BY <1>1, <1>2, <1>3 DEF Files

LEMMA MovePointerStep ==
  ASSUME Typed, SafeInv, NEW p \in Proc, MovePointer(p)
  PROVE  Typed' /\ SafeInv'
<1> DEFINE n == pointer'
<1>1. /\ proc[p].pc = "synced" /\ proc[p].pc \notin Resting
      /\ Turns(p, "moved")
      /\ UNCHANGED <<gens, journal, safe, archive, scrap, lock, trust, losses>>
  BY DEF MovePointer, Resting, Turns
<1>2. /\ n \in Gen /\ n > pointer /\ journal = NoJournal /\ safe.gens = gens
      /\ gens[n].at = "whole" /\ history' \in Files /\ history'[n] = gens[n]
      /\ \A g \in Gen \ {n} : history'[g] = history[g]
  BY MoveFrom
<1>3. PICK r \in Procs : Moves(p, r) /\ r.pc = "moved"
  <2>1. "moved" \in Stages
    BY DEF Stages
  <2>2. QED
    BY <1>1, <2>1, PcFacts
<1>4. pointer \in Nat /\ safe.pointer \in Nat /\ n \in Nat /\ n \in 0..MaxGen
      /\ safe.journal.gen \in Nat
  BY <1>2 DEF Typed, Gen, Journals
<1>5. \A g \in Gen : g <= pointer => g # n /\ g <= n
  BY <1>2, <1>4 DEF Gen
<1>6. Kept'
  <2> SUFFICES ASSUME NEW g \in Gen
               PROVE  /\ history'[g].at # "absent" => history'[g].at = "whole" /\ g <= n
                      /\ history'[g].at = "whole" =>
                           /\ gens[g].at = "whole" => gens[g] = history'[g]
                           /\ safe.gens[g].at = "whole" => safe.gens[g] = history'[g]
                           /\ \/ archive[g] = history'[g]
                              \/ gens[g] = history'[g] /\ safe.gens[g] = history'[g]
                      /\ gens[g].at = "absent" => safe.gens[g] = gens[g]
    BY <1>1 DEF Kept
  <2>1. CASE g = n
    BY <1>2, <1>4, <2>1
  <2>2. CASE g # n
    BY <1>2, <1>5, <2>2 DEF SafeInv, Kept
  <2>3. QED
    BY <2>1, <2>2
<1>7. Given(safe.journal)'
  <2>1. Given(safe.journal) /\ safe.journal \in Journals
    BY DEF SafeInv, Journaled, Typed
  <2>2. ASSUME NEW g \in safe.journal.retired PROVE g \in Gen \ {n}
    <3>1. g \in Gen /\ g < safe.journal.gen
      BY <2>1 DEF Journals, Given
    <3>2. safe.journal # NoJournal
      BY DEF NoJournal
    <3>3. safe.journal.gen <= pointer
      BY <1>1, <1>2, <3>2, Inherited
    <3>4. QED
      BY <1>2, <1>4, <3>1, <3>3 DEF Gen
  <2>3. QED
    BY <1>1, <1>2, <2>1, <2>2 DEF Given
<1>8. Filed'
  <2>1. Given(journal)'
    BY <1>1, <1>2 DEF Given, NoJournal
  <2>2. QED
    BY <1>6, <1>7, <2>1 DEF Filed
<1>9. Counted'
  BY <1>1 DEF SafeInv, Counted, Present
<1>10. safe.pointer <= pointer /\ \A g \in Standing \ {0} : Durable(g) /\ g \in Gen
  BY <1>1, Inherited
<1>11. \A g \in Standing' \ {0} : Durable(g)'
  <2>1. Durable(pointer)'
    BY <1>1, <1>2 DEF Durable, Loadable
  <2>2. ASSUME safe.pointer # 0, trust = "kept" PROVE Durable(safe.pointer)'
    <3>1. Durable(safe.pointer) /\ safe.pointer \in Gen /\ safe.pointer # n
      BY <1>5, <1>10, <2>2 DEF Standing
    <3>2. QED
      BY <1>1, <1>2, <3>1 DEF Durable, Loadable
  <2>3. QED
    BY <1>1, <2>1, <2>2 DEF Standing, Durable, Loadable
<1>12. Stage(p)' /\ r.pc \notin Resting
  <2>1. proc'[p] = r
    BY <1>3 DEF Typed, Moves
  <2>2. QED
    BY <1>1, <1>2, <1>3, <2>1 DEF Stage, Resting
<1>13. /\ archive' \in Files /\ gens' \in Files /\ journal' \in Journals
       /\ safe' \in [gens : Files, pointer : 0..MaxGen, journal : Journals]
  BY <1>1 DEF Typed
<1>14. /\ safe'.pointer <= pointer' /\ journal' = NoJournal
       /\ safe'.journal # journal' => safe'.journal.gen <= pointer'
  <2>1. safe.journal # journal => safe.journal.gen <= pointer
    BY <1>1, Inherited
  <2>2. QED
    BY <1>1, <1>2, <1>4, <1>10, <2>1
<1>15. UNCHANGED <<scrap, trust, losses>> /\ lock' = lock /\ proc[p].pc \notin Resting
  BY <1>1
<1> HIDE DEF n
<1>16. pointer' \in 0..MaxGen
  BY <1>4 DEF n
<1>17. history' \in Files
  BY <1>2
<1>18. QED
  BY <1>1, <1>3, <1>8, <1>9, <1>11, <1>12, <1>13, <1>14, <1>15, <1>16, <1>17, StepFrom

LEMMA SyncRootStep ==
  ASSUME Typed, SafeInv, NEW p \in Proc, SyncRoot(p)
  PROVE  Typed' /\ SafeInv'
<1>1. /\ proc[p].pc \notin Resting /\ Moves(p, Idle) /\ lock' = NoProc
      /\ safe' = [safe EXCEPT !.pointer = pointer, !.journal = journal]
      /\ trust' = Regained
      /\ UNCHANGED <<gens, pointer, journal, archive, scrap, history, losses>>
  BY DEF Regained, SyncRoot, SecureRoot, Leave, Resting, Moves
<1>2. /\ safe' \in [gens : Files, pointer : 0..MaxGen, journal : Journals]
      /\ safe'.gens = safe.gens /\ safe'.pointer = pointer /\ safe'.journal = journal
  BY <1>1 DEF Typed
<1>3. Filed'
  BY <1>1, <1>2 DEF SafeInv, Journaled, Filed, Given, Kept
<1>4. Counted'
  BY <1>1 DEF SafeInv, Counted, Present
<1>5. \A g \in Standing' \ {0} : Durable(g)'
  BY <1>1, <1>2, Inherited DEF Standing, Regained, Durable, Loadable
<1>6. Idle \in Procs /\ Idle.pc \in Resting
  BY EmptyFacts DEF Idle, Resting
<1>7. proc'[p].pc \in Resting
  BY <1>1, <1>6 DEF Typed, Moves
<1>8. /\ archive' \in Files /\ history' \in Files /\ pointer' \in 0..MaxGen
      /\ journal' \in Journals /\ gens' \in Files
  BY <1>1 DEF Typed
<1>9. safe'.pointer <= pointer' /\ safe'.journal = journal'
  BY <1>1, <1>2 DEF Typed
<1>10. UNCHANGED <<scrap, losses>> /\ trust' = Regained
  BY <1>1
<1>11. QED
  BY <1>1, <1>2, <1>3, <1>4, <1>5, <1>6, <1>7, <1>8, <1>9, <1>10, StepFrom

-----------------------------------------------------------------------------
(* Archiving.                                                              *)

LEMMA CompleteStep ==
  ASSUME Typed, SafeInv, NEW p \in Proc, CompleteArchive(p)
  PROVE  Typed' /\ SafeInv'
<1>1. /\ proc[p].pc = "copying" /\ proc[p].pc \notin Resting
      /\ archive' = [g \in Gen |-> IF g \in Retired THEN gens[g] ELSE archive[g]]
      /\ Turns(p, "copied")
      /\ UNCHANGED <<gens, pointer, journal, safe, scrap, lock, history, trust, losses>>
  BY DEF CompleteArchive, Resting, Turns
<1>2. journal = NoJournal /\ \A g \in Present : Loadable(g) /\ g <= pointer
  BY <1>1, Holding DEF Stage
<1>3. PICK r \in Procs : Moves(p, r) /\ r.pc = "copied"
  <2>1. "copied" \in Stages
    BY DEF Stages
  <2>2. QED
    BY <1>1, <2>1, PcFacts
<1>4. \A g \in Retired : g \in Present /\ gens[g].at = "whole" /\ archive'[g] = gens[g]
  BY <1>1, <1>2 DEF Retired, Present, Loadable
<1>5. \A g \in Gen \ Retired : archive'[g] = archive[g]
  BY <1>1
<1>6. archive' \in Files
  BY <1>1 DEF Typed, Files
<1>7. Filed'
  <2>1. Kept'
    BY <1>1, <1>4, <1>5 DEF SafeInv, Kept
  <2>2. Given(safe.journal)'
    <3>1. Given(safe.journal) /\ safe.journal \in Journals
      BY DEF SafeInv, Journaled, Typed
    <3>2. ASSUME NEW g \in safe.journal.retired, g \in Retired
          PROVE  /\ archive'[g].at = "whole"
                 /\ history[g].at = "whole" => archive'[g] = history[g]
      <4>1. g \in Gen
        BY <3>1 DEF Journals
      <4>2. QED
        BY <1>4, <3>2, <4>1 DEF SafeInv, Kept
    <3>3. \A g \in safe.journal.retired \ Retired : archive'[g] = archive[g]
      BY <1>5, <3>1 DEF Journals
    <3>4. QED
      BY <1>1, <3>1, <3>2, <3>3 DEF Given
  <2>3. Given(journal)'
    BY <1>1, <1>2 DEF Given, NoJournal
  <2>4. QED
    BY <2>1, <2>2, <2>3 DEF Filed
<1>8. Counted'
  BY <1>1 DEF SafeInv, Counted, Present
<1>9. \A g \in Standing' \ {0} : Durable(g)'
  BY <1>1, Inherited DEF Standing, Durable, Loadable
<1>10. Stage(p)' /\ r.pc \notin Resting
  <2>1. proc'[p] = r
    BY <1>3 DEF Typed, Moves
  <2>2. Present' = Present /\ Retired' = Retired
    BY <1>1 DEF Present, Retired
  <2>3. QED
    BY <1>1, <1>2, <1>3, <1>4, <2>1, <2>2 DEF Stage, Loadable, Resting
<1>11. /\ history' \in Files /\ pointer' \in 0..MaxGen /\ journal' \in Journals
       /\ gens' \in Files
       /\ safe' \in [gens : Files, pointer : 0..MaxGen, journal : Journals]
  BY <1>1 DEF Typed
<1>12. /\ safe'.pointer <= pointer'
       /\ safe'.journal # journal' => safe'.journal.gen <= pointer'
  BY <1>1, Inherited
<1>13. UNCHANGED <<scrap, trust, losses>> /\ lock' = lock /\ proc[p].pc \notin Resting
  BY <1>1
<1>14. QED
  BY <1>3, <1>6, <1>7, <1>8, <1>9, <1>10, <1>11, <1>12, <1>13, StepFrom

LEMMA WriteJournalStep ==
  ASSUME Typed, SafeInv, NEW p \in Proc, WriteJournal(p)
  PROVE  Typed' /\ SafeInv'
<1>1. /\ proc[p].pc = "copied" /\ proc[p].pc \notin Resting
      /\ journal' = [gen |-> pointer, retired |-> Retired]
      /\ Turns(p, "journaled")
      /\ UNCHANGED <<gens, pointer, safe, archive, scrap, lock, history, trust, losses>>
  BY DEF WriteJournal, Resting, Turns
<1>2. /\ journal = NoJournal /\ \A g \in Present : Loadable(g) /\ g <= pointer
      /\ \A g \in Retired : archive[g] = gens[g]
  BY <1>1, Holding DEF Stage
<1>3. PICK r \in Procs : Moves(p, r) /\ r.pc = "journaled"
  <2>1. "journaled" \in Stages
    BY DEF Stages
  <2>2. QED
    BY <1>1, <2>1, PcFacts
<1>4. pointer \in Nat /\ Present \subseteq Gen /\ Gen \subseteq Nat /\ Retired \subseteq Present
  BY DEF Typed, Present, Gen, Retired
<1>5. pointer \notin Retired
  <2>1. \A g \in Present : ~(g > pointer)
    BY <1>2, <1>4
  <2>2. QED
    BY <2>1, RetiredFacts
<1>6. \A g \in Retired : g < pointer
  BY <1>2, <1>4, <1>5
<1>7. Filed'
  <2>1. Given(journal)'
    <3>1. \A g \in Retired : gens[g].at = "whole"
      BY <1>2, <1>4 DEF Loadable
    <3>2. \A g \in Retired : history[g].at = "whole" => gens[g] = history[g]
      BY <1>4, <3>1 DEF SafeInv, Kept
    <3>3. QED
      BY <1>1, <1>2, <1>6, <3>1, <3>2 DEF Given
  <2>2. QED
    BY <1>1, <2>1 DEF SafeInv, Journaled, Filed, Given, Kept
<1>8. Counted'
  BY <1>1 DEF SafeInv, Counted, Present
<1>9. \A g \in Standing' \ {0} : Durable(g)'
  BY <1>1, Inherited DEF Standing, Durable, Loadable
<1>10. Stage(p)' /\ r.pc \notin Resting /\ r.pc = "journaled"
  <2>1. proc'[p] = r
    BY <1>3 DEF Typed, Moves
  <2>2. QED
    BY <1>1, <1>3, <2>1 DEF Stage, Resting
<1>11. /\ history' \in Files /\ pointer' \in 0..MaxGen /\ gens' \in Files /\ archive' \in Files
       /\ safe' \in [gens : Files, pointer : 0..MaxGen, journal : Journals]
  BY <1>1 DEF Typed
<1>12. journal' \in Journals
  BY <1>1, <1>4 DEF Journals
<1>13. /\ safe'.pointer <= pointer'
       /\ safe'.journal # journal' => safe'.journal.gen <= pointer'
  <2>1. safe.journal # journal => safe.journal.gen <= pointer
    BY <1>1, Inherited
  <2>2. safe.journal = journal => safe.journal.gen = 0
    BY <1>2 DEF NoJournal
  <2>3. QED
    BY <1>1, <1>4, <2>1, <2>2, Inherited
<1>14. UNCHANGED <<scrap, trust, losses>> /\ lock' = lock /\ proc[p].pc \notin Resting
  BY <1>1
<1>15. QED
  BY <1>3, <1>7, <1>8, <1>9, <1>10, <1>11, <1>12, <1>13, <1>14, StepFrom

LEMMA SecureJournalStep ==
  ASSUME Typed, SafeInv, NEW p \in Proc, SecureJournal(p)
  PROVE  Typed' /\ SafeInv'
<1>1. /\ proc[p].pc = "journaled" /\ proc[p].pc \notin Resting
      /\ safe' = [safe EXCEPT !.pointer = pointer, !.journal = journal]
      /\ trust' = Regained /\ Turns(p, "pruning")
      /\ UNCHANGED <<gens, pointer, journal, archive, scrap, lock, history, losses>>
  BY DEF Regained, SecureJournal, SecureRoot, Resting, Turns
<1>2. journal.gen = pointer /\ pointer \notin journal.retired
  <2>1. journal.gen = pointer
    BY <1>1, Holding DEF Stage
  <2>2. pointer \in Nat
    BY DEF Typed
  <2>3. \A g \in journal.retired : g < journal.gen
    BY DEF SafeInv, Journaled, Given
  <2>4. QED
    BY <2>1, <2>2, <2>3
<1>3. PICK r \in Procs : Moves(p, r) /\ r.pc = "pruning"
  <2>1. "pruning" \in Stages
    BY DEF Stages
  <2>2. QED
    BY <1>1, <2>1, PcFacts
<1>4. /\ safe' \in [gens : Files, pointer : 0..MaxGen, journal : Journals]
      /\ safe'.gens = safe.gens /\ safe'.pointer = pointer /\ safe'.journal = journal
  BY <1>1 DEF Typed
<1>5. Filed'
  BY <1>1, <1>4 DEF SafeInv, Journaled, Filed, Given, Kept
<1>6. Counted'
  BY <1>1 DEF SafeInv, Counted, Present
<1>7. \A g \in Standing' \ {0} : Durable(g)'
  BY <1>1, <1>4, Inherited DEF Standing, Regained, Durable, Loadable
<1>8. Stage(p)' /\ r.pc \notin Resting
  <2>1. proc'[p] = r
    BY <1>3 DEF Typed, Moves
  <2>2. QED
    BY <1>1, <1>2, <1>3, <1>4, <2>1 DEF Stage, Resting
<1>9. /\ history' \in Files /\ pointer' \in 0..MaxGen /\ gens' \in Files /\ archive' \in Files
      /\ journal' \in Journals
  BY <1>1 DEF Typed
<1>10. safe'.pointer <= pointer' /\ safe'.journal = journal'
  BY <1>1, <1>4 DEF Typed
<1>11. UNCHANGED <<scrap, losses>> /\ trust' = Regained
       /\ lock' = lock /\ proc[p].pc \notin Resting
  BY <1>1
<1>12. QED
  BY <1>3, <1>4, <1>5, <1>6, <1>7, <1>8, <1>9, <1>10, <1>11, StepFrom

\* The generation that goes next was given up by the journal: it is archived,
\* and nothing that can be relied on.
LEMMA LeftFacts ==
  ASSUME Typed, SafeInv, NEW p \in Proc, proc[p].pc = "pruning", Left # {}
  PROVE  /\ Min(Left) \in Gen /\ Min(Left) \in Present
         /\ journal.gen = pointer /\ Min(Left) < pointer /\ Min(Left) \notin Standing
         /\ trust = "kept" => safe.pointer \notin journal.retired
         /\ history[Min(Left)].at = "whole" => archive[Min(Left)] = history[Min(Left)]
<1>1. Left \in SUBSET Nat /\ Left \subseteq Present /\ Present \subseteq Gen
  BY DEF Left, Present, Gen
<1>2. Min(Left) \in Left
  BY <1>1, MinFacts
<1>3. Stage(p)
  BY Holding DEF Resting
<1>4. journal.gen = pointer /\ (trust = "kept" => safe.pointer \notin journal.retired)
  BY <1>3 DEF Stage
<1>5. Min(Left) \in journal.retired /\ Min(Left) \in Nat /\ pointer \in Nat
  BY <1>1, <1>2 DEF Left, Typed
<1>6. /\ Min(Left) < pointer
      /\ history[Min(Left)].at = "whole" => archive[Min(Left)] = history[Min(Left)]
  BY <1>4, <1>5 DEF SafeInv, Journaled, Given
<1>7. Min(Left) # pointer
  BY <1>5, <1>6
<1>8. QED
  BY <1>1, <1>2, <1>4, <1>5, <1>6, <1>7 DEF Standing

\* A step that takes files from the generation that goes.
Prunes(e) ==
  /\ gens' = [gens EXCEPT ![Min(Left)] = e]
  /\ \/ safe' = safe /\ e.at # "absent"
     \/ safe' = [safe EXCEPT !.gens = gens']
  /\ UNCHANGED <<pointer, journal, archive, scrap, lock, proc, history, trust, losses>>

LEMMA PruneFrom ==
  ASSUME Typed, SafeInv, NEW p \in Proc, proc[p].pc = "pruning", Left # {},
         NEW e \in Entries, e.at # "whole", Prunes(e)
  PROVE  Typed' /\ SafeInv'
<1>0. UNCHANGED <<pointer, journal, archive, scrap, lock, proc, history, trust, losses>>
  BY DEF Prunes
<1> DEFINE m == Min(Left)
<1>1. /\ m \in Gen /\ m \in Present /\ m < pointer
      /\ journal.gen = pointer /\ m \notin Standing
      /\ trust = "kept" => safe.pointer \notin journal.retired
      /\ history[m].at = "whole" => archive[m] = history[m]
  BY LeftFacts
<1> HIDE DEF m
<1>2. gens' \in Files /\ gens'[m] = e /\ \A g \in Gen \ {m} : gens'[g] = gens[g]
  <2>1. gens \in Files /\ gens' = [gens EXCEPT ![m] = e]
    BY DEF Typed, m, Prunes
  <2>2. QED
    BY <1>1, <2>1 DEF Files
<1>3. /\ safe' \in [gens : Files, pointer : 0..MaxGen, journal : Journals]
      /\ safe'.pointer = safe.pointer /\ safe'.journal = safe.journal
      /\ \/ safe'.gens = safe.gens /\ gens'[m].at # "absent"
         \/ safe'.gens = gens'
  BY <1>1, <1>2 DEF Typed, Prunes
<1>4. proc[p].pc \notin Resting
  BY DEF Resting
<1>5. Kept'
  <2> SUFFICES ASSUME NEW g \in Gen
               PROVE  /\ history[g].at # "absent" => history[g].at = "whole" /\ g <= pointer
                      /\ history[g].at = "whole" =>
                           /\ gens'[g].at = "whole" => gens'[g] = history[g]
                           /\ safe'.gens[g].at = "whole" => safe'.gens[g] = history[g]
                           /\ \/ archive[g] = history[g]
                              \/ gens'[g] = history[g] /\ safe'.gens[g] = history[g]
                      /\ gens'[g].at = "absent" => safe'.gens[g] = gens'[g]
    BY <1>0 DEF Kept
  <2>1. CASE g = m
    BY <1>1, <1>2, <1>3, <2>1 DEF SafeInv, Kept
  <2>2. CASE g # m
    BY <1>2, <1>3, <2>2 DEF SafeInv, Kept
  <2>3. QED
    BY <2>1, <2>2
<1>6. Filed'
  BY <1>0, <1>3, <1>5 DEF SafeInv, Journaled, Filed, Given
<1>7. Counted'
  <2>1. Present' \subseteq Present
    BY <1>1, <1>2 DEF Present
  <2>2. Cardinality(Present') <= Cardinality(Present) /\ Cardinality(Present') \in Nat
    BY <2>1, PresentFinite, FS_CardinalityType
  <2>3. Cardinality(Present) <= Generations /\ Cardinality(Present) \in Nat /\ Generations \in Nat
    BY PresentFinite, StoreAssumption DEF SafeInv
  <2>4. QED
    BY <2>2, <2>3 DEF Counted
<1>8. \A g \in Standing' \ {0} : Durable(g)'
  <2> SUFFICES ASSUME NEW g \in Standing \ {0} PROVE Durable(g)'
    BY <1>0, <1>3 DEF Standing
  <2>1. Durable(g) /\ g \in Gen /\ g # m
    BY <1>1, <1>4, Inherited
  <2>2. QED
    BY <1>0, <1>2, <1>3, <2>1 DEF Durable, Loadable
<1>9. proc[p] \in Procs /\ Moves(p, proc[p])
  BY <1>0 DEF Typed, Moves
<1>10. Stage(p)'
  BY <1>0, <1>1, <1>3 DEF Stage
<1>11. /\ history' \in Files /\ pointer' \in 0..MaxGen /\ archive' \in Files
       /\ journal' \in Journals
  BY <1>0 DEF Typed
<1>12. /\ safe'.pointer <= pointer'
       /\ safe'.journal # journal' => safe'.journal.gen <= pointer'
  BY <1>0, <1>3, <1>4, Inherited DEF Typed
<1>13. UNCHANGED <<scrap, trust, losses>> /\ lock' = lock
  BY <1>0
<1>14. QED
  BY <1>2, <1>3, <1>4, <1>6, <1>7, <1>8, <1>9, <1>10, <1>11, <1>12, <1>13, StepFrom

LEMMA PruneSteps ==
  ASSUME Typed, SafeInv, NEW p \in Proc, Unlink(p) \/ RemoveGeneration(p)
  PROVE  Typed' /\ SafeInv'
<1> DEFINE m == Min(Left)
<1>1. proc[p].pc = "pruning" /\ Left # {}
  BY DEF Unlink, RemoveGeneration
<1>2. m \in Gen /\ gens[m] \in Entries /\ gens \in Files
  BY <1>1, LeftFacts DEF Typed, Files
<1>3. CASE Unlink(p)
  <2> DEFINE e == [gens[m] EXCEPT !.at = "partial"]
  <2>1. e \in Entries /\ e.at = "partial"
    BY <1>2, EntryFacts
  <2>2. gens' = [gens EXCEPT ![m] = e]
    BY <1>2, <1>3 DEF Unlink, Files
  <2>3. UNCHANGED <<pointer, journal, safe, archive, scrap, lock, proc, history, trust, losses>>
    BY <1>3 DEF Unlink
  <2> HIDE DEF e
  <2>4. QED
    BY <1>1, <2>1, <2>2, <2>3, PruneFrom DEF Prunes
<1>4. CASE RemoveGeneration(p)
  <2>1. Missing \in Entries /\ Missing.at = "absent"
    BY EmptyFacts DEF Missing
  <2>2. /\ gens' = [gens EXCEPT ![m] = Missing] /\ safe' = [safe EXCEPT !.gens = gens']
        /\ UNCHANGED <<pointer, journal, archive, scrap, lock, proc, history, trust, losses>>
    BY <1>4 DEF RemoveGeneration
  <2>3. QED
    BY <1>1, <2>1, <2>2, PruneFrom DEF Prunes
<1>5. QED
  BY <1>3, <1>4

LEMMA RemoveJournalStep ==
  ASSUME Typed, SafeInv, NEW p \in Proc, RemoveJournal(p)
  PROVE  Typed' /\ SafeInv'
<1>1. /\ proc[p].pc = "pruning" /\ proc[p].pc \notin Resting
      /\ journal' = NoJournal /\ Turns(p, "swept")
      /\ UNCHANGED <<gens, pointer, safe, archive, scrap, lock, history, trust, losses>>
  BY DEF RemoveJournal, Resting, Turns
<1>2. journal.gen = pointer
  BY <1>1, Holding DEF Stage
<1>3. PICK r \in Procs : Moves(p, r) /\ r.pc = "swept"
  <2>1. "swept" \in Stages
    BY DEF Stages
  <2>2. QED
    BY <1>1, <2>1, PcFacts
<1>4. Filed'
  <2>1. Given(journal)'
    BY <1>1 DEF Given, NoJournal
  <2>2. QED
    BY <1>1, <2>1 DEF SafeInv, Journaled, Filed, Given, Kept
<1>5. Counted'
  BY <1>1 DEF SafeInv, Counted, Present
<1>6. \A g \in Standing' \ {0} : Durable(g)'
  BY <1>1, Inherited DEF Standing, Durable, Loadable
<1>7. Stage(p)' /\ r.pc \notin Resting
  <2>1. proc'[p] = r
    BY <1>3 DEF Typed, Moves
  <2>2. QED
    BY <1>3, <2>1 DEF Stage, Resting
<1>8. /\ history' \in Files /\ pointer' \in 0..MaxGen /\ gens' \in Files /\ archive' \in Files
      /\ safe' \in [gens : Files, pointer : 0..MaxGen, journal : Journals]
  BY <1>1 DEF Typed
<1>9. journal' \in Journals
  BY <1>1, EmptyFacts
<1>10. /\ safe'.pointer <= pointer'
       /\ safe'.journal.gen <= pointer'
  <2>1. pointer \in Nat
    BY DEF Typed
  <2>2. /\ safe.journal # journal => safe.journal.gen <= pointer
        /\ safe.pointer <= pointer
    BY <1>1, Inherited
  <2>3. QED
    BY <1>1, <1>2, <2>1, <2>2
<1>11. UNCHANGED <<scrap, trust, losses>> /\ lock' = lock /\ proc[p].pc \notin Resting
  BY <1>1
<1>12. QED
  BY <1>3, <1>4, <1>5, <1>6, <1>7, <1>8, <1>9, <1>10, <1>11, StepFrom

-----------------------------------------------------------------------------
(* Loss of power, and the start.                                           *)

LEMMA LosePowerStep ==
  ASSUME Typed, SafeInv, LosePower
  PROVE  Typed' /\ SafeInv'
<1>1. PICK f \in [Gen -> UNION {Survivors(g) : g \in Gen}] :
        (\A g \in Gen : f[g] \in Survivors(g)) /\ gens' = f
  BY DEF LosePower
<1>2. \A g \in Gen : gens'[g] \in {gens[g], safe.gens[g], [gens[g] EXCEPT !.at = "partial"]}
  BY <1>1 DEF Survivors
<1>3. \A g \in Gen : gens[g] = safe.gens[g] => gens'[g] = gens[g]
  BY <1>1 DEF Survivors
<1>4. /\ pointer' \in {pointer, safe.pointer} /\ journal' \in {journal, safe.journal}
      /\ safe' = [gens |-> gens', pointer |-> pointer', journal |-> journal']
      /\ history' = [g \in Gen |-> IF g > pointer' THEN Missing ELSE history[g]]
      /\ proc' = [p \in Proc |-> Idle] /\ lock' = NoProc /\ archive' = archive
  BY DEF LosePower
<1>5. gens' \in Files
  <2>1. ASSUME NEW g \in Gen PROVE gens'[g] \in Entries
    <3>1. gens[g] \in Entries /\ safe.gens[g] \in Entries
      BY DEF Typed, Files
    <3>2. [gens[g] EXCEPT !.at = "partial"] \in Entries
      BY <3>1, EntryFacts
    <3>3. QED
      BY <1>2, <3>1, <3>2
  <2>2. QED
    BY <1>1, <2>1 DEF Files
<1>6. /\ pointer' \in 0..MaxGen /\ journal' \in Journals
      /\ safe' \in [gens : Files, pointer : 0..MaxGen, journal : Journals]
      /\ safe'.gens = gens' /\ safe'.pointer = pointer' /\ safe'.journal = journal'
  BY <1>4, <1>5 DEF Typed
<1>7. /\ \A g \in Gen : g <= pointer' => history'[g] = history[g]
      /\ \A g \in Gen : ~(g <= pointer') => history'[g] = Missing
  BY <1>4, <1>6 DEF Gen
<1>8. history' \in Files
  <2>1. ASSUME NEW g \in Gen PROVE (IF g > pointer' THEN Missing ELSE history[g]) \in Entries
    BY EmptyFacts DEF Typed, Files
  <2>2. QED
    BY <1>4, <2>1 DEF Files
<1>9. \A p \in Proc : proc'[p] = Idle /\ proc'[p].pc = "idle"
  BY <1>4 DEF Idle
<1>10. Typed'
  <2>1. proc' \in [Proc -> Procs]
    BY <1>4, EmptyFacts
  <2>2. scrap' \in BOOLEAN
    BY DEF LosePower, Typed
  <2>3. losses' \in Nat /\ trust' \in {"kept", "exposed", "lost"}
    BY DEF LosePower, Typed
  <2>4. lock' \in Proc \cup {NoProc} /\ archive' \in Files
    BY <1>4 DEF Typed
  <2>5. QED
    BY <1>5, <1>6, <1>8, <2>1, <2>2, <2>3, <2>4 DEF Typed
<1>11. Locking'
  BY <1>4, <1>9, StoreAssumption DEF Locking
<1>12. Pointers'
  <2>1. ASSUME pointer' # 0, trust' # "lost" PROVE Durable(pointer)'
    <3>0. pointer' \in Standing
      BY <1>4, <2>1 DEF LosePower, Typed, Standing
    <3>1. pointer' \in Gen /\ pointer' <= pointer'
      BY <1>6, <2>1 DEF Gen
    <3>2. /\ gens[pointer'].at = "whole" /\ safe.gens[pointer'] = gens[pointer']
          /\ history[pointer'] = gens[pointer']
      BY <2>1, <3>0 DEF SafeInv, Pointers, Durable, Loadable
    <3>3. gens'[pointer'] = gens[pointer'] /\ history'[pointer'] = history[pointer']
      BY <1>3, <1>7, <3>1, <3>2
    <3>4. QED
      BY <1>6, <3>2, <3>3 DEF Durable, Loadable
  <2>2. \A g \in Standing' \ {0} : Durable(g)'
    BY <1>6, <2>1 DEF Standing, Durable, Loadable
  <2>3. safe'.pointer <= pointer' /\ safe'.pointer = pointer'
    BY <1>6
  <2>4. QED
    BY <2>2, <2>3 DEF Pointers
<1>13. Kept'
  <2> SUFFICES ASSUME NEW g \in Gen
               PROVE  /\ history'[g].at # "absent" => history'[g].at = "whole" /\ g <= pointer'
                      /\ history'[g].at = "whole" =>
                           /\ gens'[g].at = "whole" => gens'[g] = history'[g]
                           /\ \/ archive[g] = history'[g]
                              \/ gens'[g] = history'[g]
    BY <1>4, <1>6 DEF Kept
  <2>1. CASE ~(g <= pointer')
    BY <1>7, <2>1 DEF Missing
  <2>2. CASE g <= pointer'
    <3>1. history'[g] = history[g]
      BY <1>7, <2>2
    <3>2. /\ history[g].at # "absent" => history[g].at = "whole"
          /\ history[g].at = "whole" =>
               /\ gens[g].at = "whole" => gens[g] = history[g]
               /\ safe.gens[g].at = "whole" => safe.gens[g] = history[g]
               /\ \/ archive[g] = history[g]
                  \/ gens[g] = history[g] /\ safe.gens[g] = history[g]
      BY DEF SafeInv, Kept
    <3>3. gens'[g].at = "whole" => gens'[g] \in {gens[g], safe.gens[g]}
      <4>1. gens[g] \in Entries
        BY DEF Typed, Files
      <4>2. [gens[g] EXCEPT !.at = "partial"].at = "partial"
        BY <4>1, EntryFacts
      <4>3. QED
        BY <1>2, <4>2
    <3>4. gens[g] = safe.gens[g] => gens'[g] = gens[g]
      BY <1>3
    <3>5. QED
      BY <2>2, <3>1, <3>2, <3>3, <3>4
  <2>3. QED
    BY <2>1, <2>2
<1>14. Filed'
  <2>1. \A g \in Gen : history'[g].at = "whole" => history'[g] = history[g]
    BY <1>7 DEF Missing
  <2>2. journal \in Journals /\ safe.journal \in Journals /\ Given(journal) /\ Given(safe.journal)
    BY DEF Typed, SafeInv, Journaled
  <2>3. ASSUME NEW j \in Journals, Given(j)
        PROVE  \A g \in j.retired :
                 /\ g < j.gen /\ archive'[g].at = "whole"
                 /\ history'[g].at = "whole" => archive'[g] = history'[g]
    <3>1. \A g \in j.retired : g \in Gen
      BY DEF Journals
    <3>2. QED
      BY <1>4, <2>1, <2>3, <3>1 DEF Given
  <2>4. \A g \in journal'.retired :
          /\ g < journal'.gen /\ archive'[g].at = "whole"
          /\ history'[g].at = "whole" => archive'[g] = history'[g]
    <3>1. CASE journal' = journal
      BY <2>2, <2>3, <3>1
    <3>2. CASE journal' = safe.journal
      BY <2>2, <2>3, <3>2
    <3>3. QED
      BY <1>4, <3>1, <3>2
  <2>5. Given(journal)' /\ Given(safe.journal)'
    BY <1>6, <2>4 DEF Given
  <2>6. QED
    BY <1>13, <2>5 DEF Filed
<1>15. Counted'
  <2>1. ASSUME NEW g \in Gen, gens[g].at = "absent" PROVE gens'[g].at = "absent"
    <3>1. safe.gens[g] = gens[g]
      BY <2>1 DEF SafeInv, Kept
    <3>2. QED
      BY <1>3, <2>1, <3>1
  <2>2. Present' \subseteq Present
    BY <2>1 DEF Present
  <2>3. Cardinality(Present') <= Cardinality(Present) /\ Cardinality(Present') \in Nat
    BY <2>2, PresentFinite, FS_CardinalityType
  <2>4. Cardinality(Present) <= Generations /\ Cardinality(Present) \in Nat /\ Generations \in Nat
    BY PresentFinite, StoreAssumption DEF SafeInv
  <2>5. QED
    BY <2>3, <2>4 DEF Counted
<1>16. \A p \in Proc : Stage(p)'
  BY <1>9 DEF Stage
<1>17. QED
  BY <1>6, <1>10, <1>11, <1>12, <1>14, <1>15, <1>16, SafeFrom

\* The stores that were written before predecessors were recorded.
LEMMA OldStoreFacts ==
  ASSUME NEW store \in OldStores \cup {<<Bare, Bare, 0>>}
  PROVE  /\ store[1] \in Files /\ store[2] \in Files /\ store[3] \in {0, 1, 2}
         /\ \A g \in Gen :
              /\ store[1][g].at \in {"absent", "whole"} /\ store[2][g].at \in {"absent", "whole"}
              /\ store[1][g].at # "absent" \/ store[2][g].at # "absent" => g <= store[3]
              /\ store[1][g].at = "absent" \/ store[2][g].at = "absent"
         /\ store[3] # 0 => store[1][store[3]].at = "whole"
         /\ store[3] = 2 => store[1][1].at = "whole" \/ store[2][1].at = "whole"
<1>1. 1 \in Gen /\ 2 \in Gen
  BY StoreAssumption DEF Gen
<1>2. Bare \in Files /\ \A g \in Gen : Bare[g].at = "absent"
  BY EmptyFacts DEF Bare, Files, Missing
<1>3. ASSUME NEW e \in Entries, e.at = "whole", NEW g \in Gen
      PROVE  LET b == [Bare EXCEPT ![g] = e]
             IN  /\ b \in Files /\ b[g].at = "whole"
                 /\ \A h \in Gen \ {g} : b[h].at = "absent"
  BY <1>2, <1>3 DEF Files
<1>4. ASSUME NEW c \in Catalogs PROVE Whole(c) \in Entries /\ Whole(c).at = "whole"
  BY DEF Whole, Entries
<1>5. ASSUME NEW d \in Deck, NEW l \in Layout PROVE Both(d, l) \in Entries /\ Both(d, l).at = "whole"
  <2> DEFINE q == Row(1, l, NoLayout, FALSE)
             c == [selected |-> d, profiles |-> [e \in Deck |-> q]]
  <2>1. q \in Rows
    BY DEF Row, Rows
  <2> HIDE DEF q
  <2>2. c \in Catalogs
    BY <2>1 DEF Catalogs
  <2>3. Both(d, l) = Whole(c)
    BY DEF Both, q
  <2> HIDE DEF c
  <2>4. QED
    BY <1>4, <2>2, <2>3
<1>6. ASSUME NEW c \in Catalogs, NEW d \in Deck, NEW l \in Layout PROVE Unchecked(c, d, l) \in Catalogs
  <2> DEFINE n == c.profiles[d].rev + 1
             q == Row(n, l, NoLayout, FALSE)
             f == [c.profiles EXCEPT ![d] = q]
  <2>1. c.profiles \in [Deck -> Rows]
    BY DEF Catalogs
  <2>2. n \in Nat
    BY <2>1 DEF Rows
  <2>3. Unchecked(c, d, l) = [selected |-> d, profiles |-> f]
    BY <2>1 DEF Unchecked
  <2> HIDE DEF n
  <2>4. q \in Rows
    BY <2>2 DEF Row, Rows
  <2> HIDE DEF q
  <2>5. f \in [Deck -> Rows]
    BY <2>1, <2>4
  <2> HIDE DEF f
  <2>6. QED
    BY <2>3, <2>5 DEF Catalogs
<1>7. CASE store = <<Bare, Bare, 0>>
  BY <1>2, <1>7
<1>8. CASE store \in {<<[Bare EXCEPT ![1] = Both(d, l)], Bare, 1>> : d \in Deck, l \in Layout}
  <2>1. PICK d \in Deck, l \in Layout : store = <<[Bare EXCEPT ![1] = Both(d, l)], Bare, 1>>
    BY <1>8
  <2> DEFINE b == [Bare EXCEPT ![1] = Both(d, l)]
  <2>2. b \in Files /\ b[1].at = "whole" /\ \A h \in Gen \ {1} : b[h].at = "absent"
    BY <1>1, <1>3, <1>5
  <2>3. store = <<b, Bare, 1>>
    BY <2>1
  <2> HIDE DEF b
  <2>4. QED
    BY <1>1, <1>2, <2>2, <2>3
<1>9. ASSUME NEW d \in Deck, NEW l \in Layout, NEW m \in Layout,
             NEW one, one = Unchecked(Empty, d, l), NEW two, two = Whole(Unchecked(one, d, m)),
             store \in {<<[Bare EXCEPT ![1] = Whole(one), ![2] = two], Bare, 2>>,
                        <<[Bare EXCEPT ![2] = two], [Bare EXCEPT ![1] = Whole(one)], 2>>}
      PROVE  /\ store[1] \in Files /\ store[2] \in Files /\ store[3] \in {0, 1, 2}
             /\ \A g \in Gen :
                  /\ store[1][g].at \in {"absent", "whole"} /\ store[2][g].at \in {"absent", "whole"}
                  /\ store[1][g].at # "absent" \/ store[2][g].at # "absent" => g <= store[3]
                  /\ store[1][g].at = "absent" \/ store[2][g].at = "absent"
             /\ store[3] # 0 => store[1][store[3]].at = "whole"
             /\ store[3] = 2 => store[1][1].at = "whole" \/ store[2][1].at = "whole"
  <2>1. one \in Catalogs /\ two \in Entries /\ two.at = "whole"
    BY <1>4, <1>6, <1>9, EmptyFacts
  <2> DEFINE w == Whole(one)
             a == [Bare EXCEPT ![1] = w]
             b == [Bare EXCEPT ![2] = two]
             ab == [a EXCEPT ![2] = two]
  <2>2. w \in Entries /\ w.at = "whole"
    BY <1>4, <2>1
  <2> HIDE DEF w
  <2>3. a \in Files /\ a[1].at = "whole" /\ \A h \in Gen \ {1} : a[h].at = "absent"
    BY <1>1, <1>3, <2>2
  <2>4. b \in Files /\ b[2].at = "whole" /\ \A h \in Gen \ {2} : b[h].at = "absent"
    BY <1>1, <1>3, <2>1
  <2>5. store \in {<<ab, Bare, 2>>, <<b, a, 2>>}
    BY <1>9 DEF w
  <2> HIDE DEF a, b
  <2>6. /\ ab \in Files /\ ab[1].at = "whole" /\ ab[2].at = "whole"
        /\ \A h \in Gen \ {1, 2} : ab[h].at = "absent"
    BY <1>1, <2>1, <2>3 DEF Files
  <2> HIDE DEF ab
  <2>7. CASE store = <<ab, Bare, 2>>
    BY <1>1, <1>2, <2>6, <2>7
  <2>8. CASE store = <<b, a, 2>>
    BY <1>1, <1>2, <2>3, <2>4, <2>8
  <2>9. QED
    BY <2>5, <2>7, <2>8
<1>10. CASE store \in UNION
              {LET one == Unchecked(Empty, d, l)
                   two == Whole(Unchecked(one, d, m))
               IN  {<<[Bare EXCEPT ![1] = Whole(one), ![2] = two], Bare, 2>>,
                    <<[Bare EXCEPT ![2] = two], [Bare EXCEPT ![1] = Whole(one)], 2>>} :
               d \in Deck, l \in Layout, m \in Layout}
  <2>1. PICK d \in Deck, l \in Layout, m \in Layout :
          LET one == Unchecked(Empty, d, l)
              two == Whole(Unchecked(one, d, m))
          IN  store \in {<<[Bare EXCEPT ![1] = Whole(one), ![2] = two], Bare, 2>>,
                         <<[Bare EXCEPT ![2] = two], [Bare EXCEPT ![1] = Whole(one)], 2>>}
    BY <1>10
  <2>2. QED
    BY <1>9, <2>1
<1>11. QED
  BY <1>7, <1>8, <1>10 DEF OldStores

LEMMA StoreStart ==
  ASSUME Init
  PROVE  Typed /\ SafeInv
<1>1. PICK store \in OldStores \cup {<<Bare, Bare, 0>>} :
        gens = store[1] /\ archive = store[2] /\ pointer = store[3]
  BY DEF Init
<1>2. /\ journal = NoJournal /\ scrap = FALSE /\ lock = NoProc
      /\ trust = "kept" /\ losses = 0
      /\ safe = [gens |-> gens, pointer |-> pointer, journal |-> journal]
      /\ proc = [p \in Proc |-> Idle]
      /\ history = [g \in Gen |-> IF gens[g].at = "whole" THEN gens[g] ELSE archive[g]]
  BY DEF Init
<1>3. /\ gens \in Files /\ archive \in Files /\ pointer \in {0, 1, 2}
      /\ \A g \in Gen :
           /\ gens[g].at \in {"absent", "whole"} /\ archive[g].at \in {"absent", "whole"}
           /\ gens[g].at # "absent" \/ archive[g].at # "absent" => g <= pointer
      /\ pointer # 0 => gens[pointer].at = "whole"
  BY <1>1, OldStoreFacts
<1>4. \A p \in Proc : proc[p] = Idle /\ proc[p].pc = "idle"
  BY <1>2 DEF Idle
<1>5. history \in Files
  <2>1. ASSUME NEW g \in Gen PROVE (IF gens[g].at = "whole" THEN gens[g] ELSE archive[g]) \in Entries
    BY <1>3 DEF Files
  <2>2. QED
    BY <1>2, <2>1 DEF Files
<1>6. pointer \in 0..MaxGen /\ 1 \in Gen /\ 2 \in Gen
  BY <1>3, StoreAssumption DEF Gen
<1>7. Typed
  <2>1. proc \in [Proc -> Procs]
    BY <1>2, EmptyFacts
  <2>2. trust \in {"kept", "exposed", "lost"} /\ losses \in Nat /\ scrap \in BOOLEAN
    BY <1>2
  <2>3. journal \in Journals /\ lock \in Proc \cup {NoProc}
    BY <1>2, EmptyFacts
  <2>4. safe \in [gens : Files, pointer : 0..MaxGen, journal : Journals]
    BY <1>2, <1>3, <1>6, <2>3
  <2>5. QED
    BY <1>3, <1>5, <1>6, <2>1, <2>2, <2>3, <2>4 DEF Typed
<1>8. /\ safe.gens = gens /\ safe.pointer = pointer /\ safe.journal = journal
  BY <1>2
<1>9. Locking
  BY <1>2, <1>4, StoreAssumption DEF Locking
<1>10. Pointers
  <2>1. ASSUME pointer # 0 PROVE Durable(pointer)
    <3>1. pointer \in Gen
      BY <1>6, <2>1 DEF Gen
    <3>2. QED
      BY <1>2, <1>3, <1>8, <2>1, <3>1 DEF Durable, Loadable
  <2>2. pointer <= pointer
    BY <1>3
  <2>3. QED
    BY <1>8, <2>1, <2>2 DEF Standing, Pointers
<1>11. Kept
  <2> SUFFICES ASSUME NEW g \in Gen
               PROVE  /\ history[g].at # "absent" => history[g].at = "whole" /\ g <= pointer
                      /\ history[g].at = "whole" =>
                           /\ gens[g].at = "whole" => gens[g] = history[g]
                           /\ archive[g] = history[g] \/ gens[g] = history[g]
    BY <1>8 DEF Kept
  <2>1. history[g] = IF gens[g].at = "whole" THEN gens[g] ELSE archive[g]
    BY <1>2
  <2>2. QED
    BY <1>3, <2>1
<1>12. Journaled
  BY <1>2, <1>8 DEF Journaled, Given, NoJournal
<1>13. \A p \in Proc : Stage(p)
  BY <1>4 DEF Stage
<1>14. Cardinality(Present) <= Generations
  <2>1. Present \subseteq 1..2
    <3> SUFFICES ASSUME NEW g \in Gen, g <= pointer PROVE g \in 1..2
      BY <1>3 DEF Present
    <3>1. QED
      BY <1>3 DEF Gen
  <2>2. IsFiniteSet(1..2) /\ Cardinality(1..2) = 2
    <3>1. 1 \in Int /\ 2 \in Int /\ 1 <= 2 /\ 2 - 1 + 1 = 2
      OBVIOUS
    <3>2. IsFiniteSet(1..2) /\ Cardinality(1..2) = IF 1 > 2 THEN 0 ELSE 2 - 1 + 1
      BY <3>1, FS_Interval, Zenon
    <3>3. QED
      BY <3>1, <3>2
  <2>3. Cardinality(Present) <= 2
    BY <2>1, <2>2, FS_Subset
  <2>4. 2 <= Generations
    BY StoreAssumption
  <2>5. Cardinality(Present) \in Nat /\ Generations \in Nat
    BY PresentFinite, StoreAssumption
  <2>6. QED
    BY <2>3, <2>4, <2>5
<1>15. QED
  BY <1>7, <1>9, <1>10, <1>11, <1>12, <1>13, <1>14 DEF SafeInv

\* A stuttering step changes nothing here.
LEMMA SafeStutter ==
  ASSUME Typed, SafeInv, UNCHANGED vars
  PROVE  Typed' /\ SafeInv'
<1>1. Typed'
  BY DEF Typed, vars
<1>2. Filed' /\ Counted' /\ \A g \in Gen : Durable(g)' <=> Durable(g)
  BY SameFiles DEF vars
<1>3. Pointers' /\ Locking' /\ Journaled'
  BY <1>2 DEF SafeInv, Pointers, Standing, Locking, Journaled, Given, Durable, Loadable, vars
<1>4. ASSUME NEW p \in Proc PROVE Stage(p)'
  <2>1. Stage(p)
    BY DEF SafeInv
  <2>2. QED
    BY <2>1 DEF Stage, Present, Loadable, Retired, vars
<1>5. QED
  BY <1>1, <1>2, <1>3, <1>4 DEF SafeInv, Filed, Counted

\* Every step keeps what was current, as long as requests are for real decks.
LEMMA SafeStep ==
  ASSUME Typed, SafeInv, \A p \in Proc : Request(p), [Next]_vars
  PROVE  Typed' /\ SafeInv'
<1>1. CASE UNCHANGED vars
  BY <1>1, SafeStutter
<1>2. CASE LosePower
  BY <1>2, LosePowerStep
<1>3. ASSUME NEW p \in Proc, Save(p) PROVE Typed' /\ SafeInv'
  <2>1. CASE Draft(p) \/ Refuse(p)
    BY <2>1, RestSteps
  <2>2. CASE BeginGeneration(p)
    BY <2>2, BeginStep
  <2>3. CASE WriteManifest(p)
    BY <2>3, ManifestStep
  <2>4. CASE SyncGeneration(p)
    BY <2>4, SyncGenerationStep
  <2>5. CASE MovePointer(p)
    BY <2>5, MovePointerStep
  <2>6. CASE SyncRoot(p)
    BY <2>6, SyncRootStep
  <2>7. CASE GiveUp(p)
    BY <2>7, GiveUpStep
  <2>8. QED
    BY <1>3, <2>1, <2>2, <2>3, <2>4, <2>5, <2>6, <2>7 DEF Save
<1>4. ASSUME NEW p \in Proc, Archive(p) PROVE Typed' /\ SafeInv'
  <2>1. CASE StartArchive(p) \/ Resume(p)
    BY <2>1, StartSteps
  <2>2. CASE CompleteArchive(p)
    BY <2>2, CompleteStep
  <2>3. CASE WriteJournal(p)
    BY <2>3, WriteJournalStep
  <2>4. CASE SecureJournal(p)
    BY <2>4, SecureJournalStep
  <2>5. CASE Unlink(p) \/ RemoveGeneration(p)
    BY <2>5, PruneSteps
  <2>6. CASE RemoveJournal(p)
    BY <2>6, RemoveJournalStep
  <2>7. QED
    BY <1>4, <2>1, <2>2, <2>3, <2>4, <2>5, <2>6 DEF Archive
<1>5. QED
  BY <1>1, <1>2, <1>3, <1>4 DEF Next

-----------------------------------------------------------------------------
(* The catalog of the register.                                            *)

\* The catalog that is current, or would be after a loss of power, is the one
\* that history has: no file that may go is consulted for it.
LEMMA SameCatalog ==
  ASSUME Typed, SafeInv, Typed', SafeInv', NEW g \in Standing, g \in Standing',
         history'[g] = history[g]
  PROVE  CatalogOf(g)' = CatalogOf(g)
<1>1. CASE g = 0
  BY <1>1 DEF CatalogOf
<1>2. CASE g # 0
  <2>1. gens[g] = history[g]
    BY <1>2 DEF SafeInv, Pointers, Durable
  <2>2. gens'[g] = history'[g]
    BY <1>2 DEF SafeInv, Pointers, Durable
  <2>3. QED
    BY <2>1, <2>2 DEF CatalogOf
<1>3. QED
  BY <1>1, <1>2

LEMMA SingleMax == Max({1}) = 1
<1>1. {1} \in SUBSET (0..1) /\ 1 \in Nat
  OBVIOUS
<1>2. Max({1}) \in {1}
  BY <1>1, MaxFacts
<1>3. QED
  BY <1>2

\* Whatever is left of the first generation, the search finds what it held.
LEMMA PreviousRecorded ==
  ASSUME Typed, SafeInv, Legacy, NEW g \in Standing, NEW d \in Deck,
         CatalogOf(g).profiles[d].rev # 0
  PROVE  Previous(g, d) = Recorded(CatalogOf(g), history[1], g, d)
<1>1. CASE CatalogOf(g).profiles[d].checked
  BY <1>1 DEF Previous, Recorded
<1>2. CASE ~CatalogOf(g).profiles[d].checked
  <2>1. g \in 0..MaxGen /\ 1 \in Gen
    BY StoreAssumption DEF Typed, Standing, Gen
  <2>2. CatalogOf(g) \in Catalogs
    BY <2>1, CatalogTyped
  <2>3. CatalogOf(g).profiles[d].rev > 0
    BY <2>2 DEF Catalogs, Rows
  <2>4. Old(CatalogOf(g))
    BY <1>2, <2>3 DEF Old, Known
  <2>5. g # 0
    BY <2>4, EmptyFacts DEF CatalogOf
  <2>6. g <= 2 /\ (g = 2 => /\ history[1].at = "whole"
                            /\ archive[1].at = "whole" => archive[1] = history[1])
    BY <2>4, <2>5 DEF Legacy
  <2>7. CASE g = 1
    <3>1. InStore(1, d) = {} /\ InArchive(1, d) = {}
      BY DEF InStore, InArchive, Present, Gen
    <3>2. LegacyPrevious(g, d) = NoLayout
      BY <2>7, <3>1 DEF LegacyPrevious
    <3>3. QED
      BY <1>2, <2>7, <3>2 DEF Previous, Recorded
  <2>8. CASE g = 2
    <3>1. /\ history[1].at = "whole"
          /\ archive[1].at = "whole" => archive[1] = history[1]
          /\ gens[1].at = "whole" => gens[1] = history[1]
          /\ gens[1].at # "whole" => archive[1] = history[1]
      BY <2>1, <2>6, <2>8 DEF SafeInv, Kept
    <3>2. \A h \in Gen : h < 2 => h = 1
      BY DEF Gen
    <3> DEFINE found == Differing(history[1].catalog, g, d)
               old == history[1].catalog.profiles[d].layout
    <3>3. Recorded(CatalogOf(g), history[1], g, d) = IF found THEN old ELSE NoLayout
      BY <1>2, <2>8, <3>1 DEF Recorded, Differing
    <3>4. CASE gens[1].at = "whole"
      <4>1. InStore(g, d) = IF found THEN {1} ELSE {}
        BY <2>1, <2>8, <3>1, <3>2, <3>4 DEF InStore, Present, Loadable
      <4>2. ~found => InArchive(g, d) = {}
        BY <2>1, <2>8, <3>1, <3>2 DEF InArchive
      <4>3. LegacyPrevious(g, d) = IF found THEN old ELSE NoLayout
        BY <3>1, <3>4, <4>1, <4>2, SingleMax DEF LegacyPrevious
      <4>4. QED
        BY <1>2, <3>3, <4>3 DEF Previous
    <3>5. CASE gens[1].at # "whole"
      <4>1. InStore(g, d) = {}
        BY <2>8, <3>2, <3>5 DEF InStore, Present, Loadable
      <4>2. InArchive(g, d) = IF found THEN {1} ELSE {}
        BY <2>1, <2>8, <3>1, <3>2, <3>5 DEF InArchive
      <4>3. LegacyPrevious(g, d) = IF found THEN old ELSE NoLayout
        BY <3>1, <3>5, <4>1, <4>2, SingleMax DEF LegacyPrevious
      <4>4. QED
        BY <1>2, <3>3, <4>3 DEF Previous
    <3>6. QED
      BY <3>4, <3>5
  <2>9. QED
    BY <2>1, <2>5, <2>6, <2>7, <2>8
<1>3. QED
  BY <1>1, <1>2

LEMMA RecallIs ==
  ASSUME Typed, SafeInv, Legacy, NEW g \in Standing
  PROVE  AbsCatalog(g) = Recall(g)
<1>1. ASSUME NEW d \in Deck, CatalogOf(g).profiles[d].rev # 0
      PROVE  Previous(g, d) = Recorded(CatalogOf(g), history[1], g, d)
  BY <1>1, PreviousRecorded
<1> DEFINE row(d, before) ==
             [rev |-> CatalogOf(g).profiles[d].rev, layout |-> CatalogOf(g).profiles[d].layout,
              previous |-> IF CatalogOf(g).profiles[d].rev = 0 THEN NoLayout ELSE before]
<1>2. \A d \in Deck : row(d, Previous(g, d)) = row(d, Recorded(CatalogOf(g), history[1], g, d))
  BY <1>1
<1>3. AbsCatalog(g) = [selected |-> CatalogOf(g).selected,
                       profiles |-> [d \in Deck |-> row(d, Previous(g, d))]]
  BY DEF AbsCatalog
<1>4. Recall(g) = [selected |-> CatalogOf(g).selected,
                   profiles |-> [d \in Deck |-> row(d, Recorded(CatalogOf(g), history[1], g, d))]]
  BY DEF Recall, Memory, View
<1> HIDE DEF row
<1>5. QED
  BY <1>2, <1>3, <1>4

\* Beyond the second generation nothing older is consulted.
LEMMA RecallSame ==
  ASSUME Typed, SafeInv, Typed', SafeInv', NEW g \in Standing, g \in Standing',
         \A h \in Gen : h <= g => history'[h] = history[h]
  PROVE  CatalogOf(g)' = CatalogOf(g) /\ Recall(g)' = Recall(g)
<1>1. g \in 0..MaxGen /\ 1 \in Gen
  BY StoreAssumption DEF Typed, Standing, Gen
<1>2. CatalogOf(g)' = CatalogOf(g)
  <2>1. CASE g = 0
    BY <2>1 DEF CatalogOf
  <2>2. CASE g # 0
    BY <1>1, <2>2, SameCatalog DEF Gen
  <2>3. QED
    BY <2>1, <2>2
<1>3. CASE g = 0
  <2> DEFINE c == CatalogOf(g)
  <2>1. \A d \in Deck : Recorded(c, history'[1], 0, d) = Recorded(c, history[1], 0, d)
    BY DEF Recorded
  <2> HIDE DEF c
  <2>2. Memory(c, history'[1], 0) = Memory(c, history[1], 0)
    BY <2>1 DEF Memory
  <2>3. QED
    BY <1>2, <1>3, <2>2 DEF Recall, c
<1>4. CASE g # 0
  <2>1. history'[1] = history[1]
    BY <1>1, <1>4
  <2>2. QED
    BY <1>2, <2>1 DEF Recall
<1>5. QED
  BY <1>3, <1>4

\* As long as the pointer and history stay, so does what the register holds.
LEMMA StillCurrent ==
  ASSUME Typed, SafeInv, Typed', SafeInv', UNCHANGED <<pointer, history>>,
         trust # "lost", trust' # "lost"
  PROVE  Catalog' = Catalog /\ Recall(pointer)' = Recall(pointer)
<1>1. pointer \in Standing /\ pointer \in Standing'
  BY DEF Standing
<1>2. ASSUME NEW h, h = pointer PROVE CatalogOf(h)' = CatalogOf(h) /\ Recall(h)' = Recall(h)
  BY <1>1, <1>2, RecallSame
<1>3. CatalogOf(pointer)' = CatalogOf(pointer)
  BY <1>2 DEF CatalogOf
<1>4. ASSUME NEW h, h = pointer
      PROVE  Memory(CatalogOf(pointer)', history'[1], pointer')
               = Memory(CatalogOf(pointer), history[1], pointer)
  BY <1>3
<1>5. QED
  BY <1>3, <1>4 DEF Recall, Catalog

LEMMA LegacyKept ==
  ASSUME Typed, SafeInv, Legacy, Typed', SafeInv',
         \A g \in Standing' : g \in Standing \/ ~Old(gens'[g].catalog),
         \A g \in Standing : \A h \in Gen : h <= g /\ h <= pointer' =>
           history'[h] = history[h],
         archive'[1] \in {archive[1], gens[1]}
  PROVE  Legacy'
<1> SUFFICES ASSUME NEW g \in Standing' \ {0}, Old(CatalogOf(g)')
             PROVE  /\ g <= 2
                    /\ g = 2 => /\ history'[1].at = "whole"
                                /\ archive'[1].at = "whole" => archive'[1] = history'[1]
  BY DEF Legacy
<1>1. g \in Gen /\ g <= pointer' /\ 1 \in Gen /\ g \in Nat
  BY StoreAssumption DEF SafeInv, Pointers, Standing, Typed, Gen
<1>2. g \in Standing
  BY DEF CatalogOf
<1>3. CatalogOf(g)' = CatalogOf(g)
  <2>1. history'[g] = history[g]
    BY <1>1, <1>2
  <2>2. QED
    BY <1>2, <2>1, SameCatalog
<1>4. g <= 2 /\ (g = 2 => /\ history[1].at = "whole"
                          /\ archive[1].at = "whole" => archive[1] = history[1])
  BY <1>2, <1>3 DEF Legacy
<1>5. ASSUME g = 2 PROVE history'[1] = history[1]
  <2>1. pointer' \in Nat
    BY DEF Typed
  <2>2. 1 <= g /\ 1 <= pointer'
    BY <1>1, <1>5, <2>1
  <2>3. QED
    BY <1>1, <1>2, <2>2
<1>6. history[1].at = "whole" /\ gens[1].at = "whole" => gens[1] = history[1]
  BY <1>1 DEF SafeInv, Kept
<1>7. QED
  BY <1>4, <1>5, <1>6

LEMMA RequestKept ==
  ASSUME Typed, SafeInv, Typed', SafeInv', NEW p \in Proc, Request(p),
         proc'[p] = proc[p] \/ proc'[p].pc # "drafted",
         trust = "lost" => trust' = "lost",
         UNCHANGED <<pointer, history>> \/ pointer' > pointer
  PROVE  Request(p)'
<1>1. CASE proc'[p].pc # "drafted"
  BY <1>1 DEF Request
<1>2. CASE proc'[p] = proc[p] /\ pointer' > pointer /\ proc[p].pc = "drafted"
  <2>1. proc[p].base <= pointer /\ proc[p].base \in Nat /\ pointer \in Nat /\ pointer' \in Nat
    BY <1>2 DEF Request, Typed, Procs
  <2>2. proc[p].base <= pointer' /\ proc[p].base # pointer'
    BY <1>2, <2>1
  <2>3. QED
    BY <1>2, <2>2 DEF Request
<1>3. CASE proc'[p] = proc[p] /\ UNCHANGED <<pointer, history>> /\ proc[p].pc = "drafted"
  <2>1. trust' # "lost" => trust # "lost" /\ Catalog' = Catalog
    BY <1>3, StillCurrent
  <2>2. QED
    BY <1>3, <2>1 DEF Request
<1>4. QED
  BY <1>1, <1>2, <1>3

Writing == {"begun", "written", "synced"}

LEMMA SuccessionKept ==
  ASSUME Typed, SafeInv, Typed', SafeInv', NEW p \in Proc, Succession(p),
         trust = "lost" => trust' = "lost",
         proc'[p].pc \in Writing =>
           /\ proc[p].pc \in Writing /\ proc'[p].gen = proc[p].gen
           /\ UNCHANGED <<pointer, history>>
           /\ gens'[proc[p].gen].catalog = gens[proc[p].gen].catalog
  PROVE  Succession(p)'
<1>1. CASE proc'[p].pc \notin Writing \/ trust' = "lost"
  BY <1>1 DEF Succession, Writing
<1>2. CASE proc'[p].pc \in Writing /\ trust' # "lost" /\ trust # "lost"
  <2>1. Recall(pointer)' = Recall(pointer)
    BY <1>2, StillCurrent
  <2>2. /\ ~Old(gens[proc[p].gen].catalog)
        /\ Publishes(Recall(pointer), Plain(gens[proc[p].gen].catalog))
    BY <1>2 DEF Succession, Writing
  <2>3. QED
    BY <1>2, <2>1, <2>2 DEF Succession
<1>3. QED
  BY <1>1, <1>2

-----------------------------------------------------------------------------
(* What a draft publishes.                                                 *)

Replaced(P, d, l) == [P EXCEPT ![d] = Register!Successor(P[d], l)]

LEMMA SavedIn ==
  ASSUME NEW s, NEW P, NEW Q, NEW C, C = [selected |-> s, profiles |-> P],
         NEW d, NEW l, Q = Replaced(P, d, l)
  PROVE  Register!Saved(C, d, l) = [selected |-> s, profiles |-> Q]
<1>1. C \in [selected : {s}, profiles : {P}] /\ C.selected = s /\ C.profiles = P
  OBVIOUS
<1>2. Register!Saved(C, d, l) = [C EXCEPT !.profiles = Q]
  BY <1>1 DEF Register!Saved, Replaced
<1>3. [C EXCEPT !.profiles = Q] \in [selected : {s}, profiles : {Q}]
  BY <1>1
<1>4. QED
  BY <1>2, <1>3

LEMMA SavedIs ==
  ASSUME NEW s, NEW P, NEW Q, NEW d \in Deck, NEW l,
         P = [e \in Deck |-> P[e]], Q = [e \in Deck |-> Q[e]],
         \A e \in Deck \ {d} : Q[e] = P[e], Q[d] = Register!Successor(P[d], l)
  PROVE  [selected |-> s, profiles |-> Q] = Register!Saved([selected |-> s, profiles |-> P], d, l)
<1>1. Q = Replaced(P, d, l)
  BY DEF Replaced
<1> DEFINE C == [selected |-> s, profiles |-> P]
<1>2. C = [selected |-> s, profiles |-> P]
  OBVIOUS
<1> HIDE DEF C
<1>3. Register!Saved(C, d, l) = [selected |-> s, profiles |-> Q]
  BY <1>1, <1>2, SavedIn
<1>4. QED
  BY <1>2, <1>3

LEMMA EnrolledIs ==
  ASSUME NEW s, NEW t, NEW P, NEW Q, NEW d \in Deck, NEW l,
         P = [e \in Deck |-> P[e]], Q = [e \in Deck |-> Q[e]],
         t = IF s = NoDeck THEN d ELSE s,
         \A e \in Deck \ {d} : Q[e] = P[e], Q[d] = Register!Entry(1, l, NoLayout)
  PROVE  [selected |-> t, profiles |-> Q] = Register!Enrolled([selected |-> s, profiles |-> P], d, l)
<1> DEFINE w == Register!Entry(1, l, NoLayout)
           F == [P EXCEPT ![d] = w]
<1>1. Register!Enrolled([selected |-> s, profiles |-> P], d, l) = [selected |-> t, profiles |-> F]
  BY DEF Register!Enrolled
<1> HIDE DEF w
<1>2. F = Q
  BY DEF w
<1>3. QED
  BY <1>1, <1>2

\* The rows of the catalog that will be written, beside those of the register.
Now(d) ==
  [rev |-> Catalog.profiles[d].rev, layout |-> Catalog.profiles[d].layout,
   previous |-> IF Catalog.profiles[d].rev = 0 THEN NoLayout ELSE Previous(pointer, d)]
Then(c, d) ==
  [rev |-> c.profiles[d].rev, layout |-> c.profiles[d].layout,
   previous |-> IF c.profiles[d].rev = 0 THEN NoLayout ELSE Predecessor(c, d)]

LEMMA RowFacts ==
  ASSUME Typed, NEW c \in Catalogs, NEW d \in Deck
  PROVE  LET old == Catalog.profiles[d]
             new == c.profiles[d]
         IN  /\ old \in Rows /\ new \in Rows /\ Now(d).rev = old.rev
             /\ Predecessor(c, d) = IF old.rev = 0 THEN new.previous
                                    ELSE IF old.layout # new.layout THEN old.layout
                                    ELSE Previous(pointer, d)
<1>1. Catalog \in Catalogs
  BY CatalogTyped DEF Typed, Catalog
<1>2. QED
  BY <1>1 DEF Catalogs, Predecessor, Now

LEMMA RowKept ==
  ASSUME Typed, NEW c \in Catalogs, NEW d \in Deck, c.profiles[d] = Catalog.profiles[d]
  PROVE  Then(c, d) = Now(d)
BY RowFacts DEF Then, Now

LEMMA RowSaved ==
  ASSUME Typed, NEW c \in Catalogs, NEW d \in Deck, NEW l,
         Catalog.profiles[d].rev # 0, c.profiles[d].rev = Catalog.profiles[d].rev + 1,
         c.profiles[d].layout = l
  PROVE  Then(c, d) = Register!Successor(Now(d), l)
<1>1. c.profiles[d].rev # 0
  BY RowFacts DEF Rows
<1>2. QED
  BY <1>1, RowFacts DEF Then, Now, Register!Successor, Register!Entry

LEMMA RowEnrolled ==
  ASSUME Typed, NEW c \in Catalogs, NEW d \in Deck, NEW l,
         Catalog.profiles[d].rev = 0, c.profiles[d] = Row(1, l, NoLayout, TRUE)
  PROVE  Then(c, d) = Register!Entry(1, l, NoLayout)
BY RowFacts DEF Then, Row, Register!Entry

\* A draft that may be published is a step of the register.
LEMMA WantedPublishes ==
  ASSUME Typed, SafeInv, Legacy, NEW p \in Proc, Request(p), proc[p].pc = "drafted", UpToDate(p),
         trust # "lost"
  PROVE  Publishes(Recall(pointer), Plain(WithHistory(Wanted(p))))
<1> DEFINE r == proc[p]
           c == Wanted(p)
           P == [d \in Deck |-> Now(d)]
           Q == [d \in Deck |-> Then(c, d)]
<1>1. c \in Catalogs /\ Catalog \in Catalogs
  BY WantedTyped, CatalogTyped DEF Typed, Catalog
<1>2. /\ r.deck \in Deck /\ r.kind \in {"save", "project", "select", "enroll"}
      /\ r.kind # "select" => r.layout \in Layout
      /\ r.kind = "save" => r.rev # 0
      /\ r.base = pointer =>
           /\ (r.kind = "enroll") = (Catalog.profiles[r.deck].rev = 0)
           /\ r.kind = "project" => r.next = SavedRow(Catalog, r.deck, r.layout)
  BY DEF Request, Typed, Procs
<1>3. Recall(pointer) = [selected |-> Catalog.selected, profiles |-> P]
  <2>1. Recall(pointer) = AbsCatalog(pointer)
    BY RecallIs DEF Standing
  <2>2. QED
    BY <2>1 DEF AbsCatalog, Catalog, Now
<1>4. Plain(WithHistory(c)) = [selected |-> c.selected, profiles |-> Q]
  <2> DEFINE w == WithHistory(c)
  <2>1. /\ w.selected = c.selected
        /\ \A d \in Deck :
             /\ w.profiles[d].rev = c.profiles[d].rev
             /\ w.profiles[d].layout = c.profiles[d].layout
             /\ w.profiles[d].rev # 0 => w.profiles[d].previous = Predecessor(c, d)
    BY <1>1, WithHistoryFacts
  <2> HIDE DEF w, c
  <2>2. QED
    BY <2>1 DEF Plain, View, Then, w
<1>5. ASSUME NEW e \in Deck
      PROVE  P[e] = Now(e) /\ Q[e] = Then(c, e)
  OBVIOUS
<1>6. P = [e \in Deck |-> P[e]] /\ Q = [e \in Deck |-> Q[e]]
  OBVIOUS
<1> HIDE DEF P, Q
<1>0. Recall(pointer).profiles[r.deck].rev = Catalog.profiles[r.deck].rev
  <2>1. Recall(pointer).profiles[r.deck] = Now(r.deck)
    BY <1>2, <1>3, <1>5
  <2>2. QED
    BY <1>1, <1>2, <2>1, RowFacts
<1>7. CASE r.kind \in {"save", "project"}
  <2>1. c = SavedRow(Catalog, r.deck, r.layout) /\ r.layout \in Layout
        /\ Catalog.profiles[r.deck].rev # 0
    BY <1>2, <1>7 DEF Wanted, UpToDate
  <2>2. /\ c.selected = Catalog.selected
        /\ \A e \in Deck \ {r.deck} : c.profiles[e] = Catalog.profiles[e]
        /\ c.profiles[r.deck].rev = Catalog.profiles[r.deck].rev + 1
        /\ c.profiles[r.deck].layout = r.layout
    BY <1>1, <1>2, <2>1, SavedRowFacts
  <2> HIDE DEF c
  <2>3. Q[r.deck] = Register!Successor(P[r.deck], r.layout)
    BY <1>1, <1>2, <1>5, <2>1, <2>2, RowSaved
  <2>4. \A e \in Deck \ {r.deck} : Q[e] = P[e]
    BY <1>1, <1>5, <2>2, RowKept
  <2>5. [selected |-> Catalog.selected, profiles |-> Q]
          = Register!Saved([selected |-> Catalog.selected, profiles |-> P], r.deck, r.layout)
    BY <1>2, <1>6, <2>3, <2>4, SavedIs
  <2>6. Recall(pointer).profiles[r.deck].rev # 0
    BY <1>0, <2>1
  <2>7. QED
    BY <1>2, <1>3, <1>4, <2>1, <2>2, <2>5, <2>6 DEF Publishes, c
<1>8. CASE r.kind = "select"
  <2>1. c = [Catalog EXCEPT !.selected = r.deck] /\ Catalog.profiles[r.deck].rev # 0
    BY <1>2, <1>8 DEF Wanted, UpToDate
  <2>2. c.selected = r.deck /\ c.profiles = Catalog.profiles
    BY <1>1, <1>2, <2>1, SelectFacts
  <2> HIDE DEF c
  <2>3. \A e \in Deck : Q[e] = P[e]
    BY <1>1, <1>5, <2>2, RowKept
  <2>4. Q = P
    BY <1>6, <2>3
  <2>5. [selected |-> r.deck, profiles |-> Q]
          = Register!Selected([selected |-> Catalog.selected, profiles |-> P], r.deck)
    BY <2>4 DEF Register!Selected
  <2>6. Recall(pointer).profiles[r.deck].rev # 0
    BY <1>0, <2>1
  <2>7. QED
    BY <1>2, <1>3, <1>4, <2>2, <2>5, <2>6 DEF Publishes, c
<1>9. CASE r.kind = "enroll"
  <2>1. c = EnrolledRow(Catalog, r.deck, r.layout) /\ r.layout \in Layout
        /\ Catalog.profiles[r.deck].rev = 0
    BY <1>2, <1>9 DEF Wanted, UpToDate
  <2>2. /\ c.selected = IF Catalog.selected = NoDeck THEN r.deck ELSE Catalog.selected
        /\ \A e \in Deck \ {r.deck} : c.profiles[e] = Catalog.profiles[e]
        /\ c.profiles[r.deck] = Row(1, r.layout, NoLayout, TRUE)
    <3> HIDE DEF c
    <3>1. Catalog \in Catalogs /\ r.deck \in Deck /\ r.layout \in Layout \cup {NoLayout}
      BY <1>1, <1>2, <2>1
    <3> HIDE DEF r
    <3>2. QED
      BY <2>1, <3>1, EnrolledRowFacts
  <2> HIDE DEF c
  <2>3. Q[r.deck] = Register!Entry(1, r.layout, NoLayout)
    BY <1>1, <1>2, <1>5, <2>1, <2>2, RowEnrolled
  <2>4. \A e \in Deck \ {r.deck} : Q[e] = P[e]
    BY <1>1, <1>5, <2>2, RowKept
  <2>5. [selected |-> c.selected, profiles |-> Q]
          = Register!Enrolled([selected |-> Catalog.selected, profiles |-> P], r.deck, r.layout)
    BY <1>2, <1>6, <2>2, <2>3, <2>4, EnrolledIs
  <2>6. Recall(pointer).profiles[r.deck].rev = 0
    BY <1>0, <2>1
  <2>7. QED
    BY <1>2, <1>3, <1>4, <2>1, <2>5, <2>6 DEF Publishes, c
<1>10. QED
  BY <1>2, <1>7, <1>8, <1>9

-----------------------------------------------------------------------------
(* Requests and successions hold on.                                       *)

LEMMA TurnFacts ==
  ASSUME Typed, NEW p \in Proc, NEW stage \in Stages, Turns(p, stage) \/ Moves(p, Idle)
  PROVE  /\ \A q \in Proc \ {p} : proc'[q] = proc[q]
         /\ proc'[p].pc \in {stage, "idle"}
         /\ proc'[p].pc # "idle" => proc'[p].gen = proc[p].gen
<1>1. proc[p] \in Procs /\ proc \in [Proc -> Procs]
  BY DEF Typed
<1>2. CASE Turns(p, stage)
  <2> DEFINE r == [proc[p] EXCEPT !.pc = stage]
  <2>1. r.pc = stage /\ r.gen = proc[p].gen
    BY <1>1 DEF Procs
  <2>2. proc' = [proc EXCEPT ![p] = r]
    BY <1>2 DEF Turns
  <2> HIDE DEF r
  <2>3. proc'[p] = r /\ \A q \in Proc \ {p} : proc'[q] = proc[q]
    BY <1>1, <2>2
  <2>4. QED
    BY <2>1, <2>3
<1>3. CASE Moves(p, Idle)
  <2>1. proc'[p] = Idle /\ \A q \in Proc \ {p} : proc'[q] = proc[q]
    BY <1>1, <1>3 DEF Moves
  <2>2. QED
    BY <2>1 DEF Idle
<1>4. QED
  BY <1>2, <1>3

LEMMA RegisterFrom ==
  ASSUME Typed, SafeInv, RegisterInv, Typed', SafeInv', UNCHANGED <<pointer, history>>,
         Standing' \subseteq Standing, trust = "lost" => trust' = "lost",
         archive'[1] \in {archive[1], gens[1]},
         NEW p \in Proc, \A q \in Proc \ {p} : proc'[q] = proc[q],
         Request(p)', Succession(p)',
         \A q \in Proc \ {p} : proc[q].pc \in Writing =>
           gens'[proc[q].gen].catalog = gens[proc[q].gen].catalog
  PROVE  RegisterInv'
<1>1. Legacy'
  BY LegacyKept DEF RegisterInv
<1>2. ASSUME NEW q \in Proc PROVE Request(q)' /\ Succession(q)'
  <2>1. CASE q = p
    BY <2>1
  <2>2. CASE q # p
    <3>1. Request(q) /\ Succession(q) /\ proc'[q] = proc[q]
      BY <2>2 DEF RegisterInv
    <3>2. Request(q)'
      BY <3>1, RequestKept
    <3>3. Succession(q)'
      BY <2>2, <3>1, SuccessionKept
    <3>4. QED
      BY <3>2, <3>3
  <2>3. QED
    BY <2>1, <2>2
<1>3. QED
  BY <1>1, <1>2 DEF RegisterInv

\* The steps that leave the generations alone, drafts excepted.
LEMMA RegisterQuiet ==
  ASSUME Typed, SafeInv, RegisterInv, Typed', SafeInv', NEW p \in Proc,
         \/ Refuse(p) \/ SyncGeneration(p) \/ SyncRoot(p) \/ GiveUp(p) \/ StartArchive(p)
         \/ CompleteArchive(p) \/ WriteJournal(p) \/ SecureJournal(p) \/ Resume(p)
         \/ RemoveJournal(p)
  PROVE  RegisterInv'
<1>1. PICK stage \in {"synced", "copying", "copied", "journaled", "pruning", "swept"} :
        /\ Turns(p, stage) \/ Moves(p, Idle)
        /\ stage = "synced" => proc[p].pc = "written" \/ Moves(p, Idle)
  BY DEF Refuse, SyncGeneration, SyncRoot, GiveUp, Leave, StartArchive, CompleteArchive,
         WriteJournal, SecureJournal, Resume, RemoveJournal, Turns, Moves
<1>2. UNCHANGED <<gens, pointer, history>>
  BY DEF Refuse, SyncGeneration, SyncRoot, GiveUp, StartArchive, CompleteArchive,
         WriteJournal, SecureJournal, Resume, RemoveJournal
<1>3. Standing' \subseteq Standing /\ (trust = "lost" => trust' = "lost")
  BY DEF Refuse, SyncGeneration, SyncRoot, SecureRoot, GiveUp, StartArchive, CompleteArchive,
         WriteJournal, SecureJournal, Resume, RemoveJournal, Standing, Typed
<1>4. archive'[1] \in {archive[1], gens[1]}
  <2>1. 1 \in Gen
    BY StoreAssumption DEF Gen
  <2>2. QED
    BY <2>1 DEF Refuse, SyncGeneration, SyncRoot, GiveUp, StartArchive, CompleteArchive,
                WriteJournal, SecureJournal, Resume, RemoveJournal
<1>5. /\ \A q \in Proc \ {p} : proc'[q] = proc[q]
      /\ proc'[p].pc \in {stage, "idle"}
      /\ proc'[p].pc # "idle" => proc'[p].gen = proc[p].gen
  <2>1. stage \in Stages
    BY DEF Stages
  <2>2. QED
    BY <1>1, <2>1, TurnFacts
<1>6. Request(p)'
  BY <1>5 DEF Request
<1>7. Succession(p)'
  <2>1. Succession(p)
    BY DEF RegisterInv
  <2>2. proc'[p].pc \in Writing => proc[p].pc \in Writing /\ proc'[p].gen = proc[p].gen
    <3>1. Moves(p, Idle) => proc'[p].pc = "idle"
      BY DEF Moves, Idle, Typed
    <3>2. QED
      BY <1>1, <1>5, <3>1 DEF Writing
  <2>3. QED
    BY <1>2, <1>3, <2>1, <2>2, SuccessionKept
<1>8. QED
  BY <1>2, <1>3, <1>4, <1>5, <1>6, <1>7, RegisterFrom

LEMMA RegisterDraft ==
  ASSUME Typed, SafeInv, RegisterInv, Typed', SafeInv', NEW p \in Proc, Draft(p)
  PROVE  RegisterInv'
<1>1. PICK d \in Deck, l \in Layout \cup {NoLayout}, kind \in Kinds(p) :
        /\ (kind = "enroll") = (Catalog.profiles[d].rev = 0)
        /\ (kind = "select") = (l = NoLayout)
        /\ proc' = [proc EXCEPT ![p] =
             [pc |-> "drafted", kind |-> kind, deck |-> d, layout |-> l,
              base |-> pointer, rev |-> Catalog.profiles[d].rev, gen |-> 0,
              next |-> IF kind = "project" THEN SavedRow(Catalog, d, l) ELSE Empty]]
  BY DEF Draft
<1>2. UNCHANGED <<gens, pointer, safe, archive, history, trust>>
  BY DEF Draft
<1> DEFINE n == IF kind = "project" THEN SavedRow(Catalog, d, l) ELSE Empty
           v == Catalog.profiles[d].rev
           r == [pc |-> "drafted", kind |-> kind, deck |-> d, layout |-> l,
                 base |-> pointer, rev |-> v, gen |-> 0, next |-> n]
<1> HIDE DEF n, v
<1>3. proc'[p] = r /\ \A q \in Proc \ {p} : proc'[q] = proc[q]
  <2>1. proc' = [proc EXCEPT ![p] = r]
    BY <1>1 DEF n, v
  <2> HIDE DEF r
  <2>2. QED
    BY <2>1 DEF Typed
<1>4. Request(p)'
  <2>1. Catalog' = Catalog
    BY <1>2 DEF Catalog, CatalogOf
  <2>2. pointer' <= pointer'
    BY DEF Typed
  <2>3. kind # "select" => l \in Layout
    BY <1>1
  <2>4. kind = "save" => v # 0
    BY <1>1 DEF v
  <2>5. kind = "project" => n = SavedRow(Catalog, d, l)
    BY DEF n
  <2>6. (kind = "enroll") = (Catalog.profiles[d].rev = 0)
    BY <1>1
  <2>7. QED
    BY <1>2, <1>3, <2>1, <2>2, <2>3, <2>4, <2>5, <2>6 DEF Request
<1>5. Succession(p)'
  BY <1>3 DEF Succession
<1>6. Standing' = Standing /\ archive'[1] = archive[1] /\ gens' = gens
      /\ UNCHANGED <<pointer, history, trust>>
  BY <1>2 DEF Standing
<1>7. QED
  BY <1>3, <1>4, <1>5, <1>6, RegisterFrom

\* The program that has the lock is the only one that is writing.
LEMMA NoOtherWrites ==
  ASSUME SafeInv, NEW p \in Proc, lock \in {p, NoProc}
  PROVE  \A q \in Proc \ {p} : proc[q].pc \notin Writing
BY StoreAssumption DEF SafeInv, Locking, Writing

LEMMA RegisterBegin ==
  ASSUME Typed, SafeInv, RegisterInv, Typed', SafeInv', NEW p \in Proc, BeginGeneration(p)
  PROVE  RegisterInv'
<1>1. /\ proc[p].pc = "drafted" /\ UpToDate(p) /\ lock = NoProc
      /\ UNCHANGED <<pointer, safe, archive, history, trust>>
  BY DEF BeginGeneration, Publishable
<1>2. Request(p) /\ Legacy
  BY DEF RegisterInv
<1> DEFINE n == NextGen
           w == WithHistory(Wanted(p))
<1>3. gens'[n] = Partial(w)
  BY <1>2, BeginFacts
<1>4. PICK r \in Procs : Moves(p, r) /\ r.pc = "begun" /\ r.gen = n
  BY <1>2, BeginFacts
<1>5. ~Old(w) /\ (trust # "lost" => Publishes(Recall(pointer), Plain(w)))
  BY <1>1, <1>2, WantedTyped, WithHistoryFacts, WantedPublishes
<1> HIDE DEF n, w
<1>6. proc'[p] = r /\ \A q \in Proc \ {p} : proc'[q] = proc[q]
  BY <1>4 DEF Moves, Typed
<1>7. gens'[n].catalog = w
  BY <1>3 DEF Partial
<1>8. Succession(p)'
  <2>1. trust # "lost" => Recall(pointer)' = Recall(pointer)
    BY <1>1, StillCurrent
  <2>2. proc'[p].gen = n
    BY <1>4, <1>6
  <2>3. QED
    BY <1>1, <1>5, <1>7, <2>1, <2>2 DEF Succession
<1>9. Request(p)'
  BY <1>4, <1>6 DEF Request
<1>10. \A q \in Proc \ {p} : proc[q].pc \notin Writing
  BY <1>1, NoOtherWrites
<1>11. Standing' = Standing /\ archive'[1] = archive[1] /\ UNCHANGED <<pointer, history, trust>>
  BY <1>1 DEF Standing
<1>12. QED
  BY <1>6, <1>8, <1>9, <1>10, <1>11, RegisterFrom

LEMMA RegisterFiles ==
  ASSUME Typed, SafeInv, RegisterInv, Typed', SafeInv', NEW p \in Proc,
         WriteManifest(p) \/ Unlink(p) \/ RemoveGeneration(p)
  PROVE  RegisterInv'
<1>1. /\ UNCHANGED <<pointer, archive, history, trust>> /\ proc[p].pc \in {"begun", "pruning"}
      /\ \/ Turns(p, "written") /\ proc[p].pc = "begun"
         \/ proc' = proc /\ proc[p].pc = "pruning"
  BY DEF WriteManifest, Unlink, RemoveGeneration, Turns
<1>2. Standing' = Standing
  BY DEF WriteManifest, Unlink, RemoveGeneration, Typed, Standing
<1>3. \A q \in Proc \ {p} : proc[q].pc \notin Writing
  <2>1. lock = p
    BY <1>1, Holding DEF Resting
  <2>2. QED
    BY <2>1, NoOtherWrites
<1>4. CASE WriteManifest(p)
  <2>1. /\ \A q \in Proc \ {p} : proc'[q] = proc[q]
        /\ proc'[p].pc \in {"written", "idle"}
        /\ proc'[p].pc # "idle" => proc'[p].gen = proc[p].gen
    <3>1. "written" \in Stages /\ Turns(p, "written")
      BY <1>4 DEF WriteManifest, Stages, Turns
    <3>2. QED
      BY <3>1, TurnFacts
  <2>2. gens'[proc[p].gen].catalog = gens[proc[p].gen].catalog
    <3> DEFINE n == proc[p].gen
               e == [gens[n] EXCEPT !.at = "whole"]
    <3>1. n \in Gen /\ proc[p].pc = "begun"
      BY <1>4, Holding DEF WriteManifest, Stage, Resting
    <3>2. gens[n] \in Entries /\ gens \in Files
      BY <3>1 DEF Typed, Files
    <3>3. e.catalog = gens[n].catalog
      BY <3>2, EntryFacts
    <3>4. gens' = [gens EXCEPT ![n] = e]
      BY <1>4 DEF WriteManifest
    <3> HIDE DEF e, n
    <3>5. gens'[n] = e
      BY <3>1, <3>2, <3>4 DEF Files
    <3>6. QED
      BY <3>3, <3>5 DEF n
  <2>3. Succession(p)'
    <3>1. Succession(p) /\ proc[p].pc \in Writing
      BY <1>4 DEF RegisterInv, WriteManifest, Writing
    <3>2. proc'[p].pc \in Writing => proc'[p].gen = proc[p].gen
      BY <2>1 DEF Writing
    <3>3. QED
      BY <1>1, <2>2, <3>1, <3>2, SuccessionKept
  <2>4. Request(p)'
    BY <2>1 DEF Request
  <2>5. UNCHANGED <<pointer, history, trust>> /\ archive'[1] = archive[1]
    BY <1>1
  <2>6. QED
    BY <1>2, <1>3, <2>1, <2>3, <2>4, <2>5, RegisterFrom
<1>5. CASE Unlink(p) \/ RemoveGeneration(p)
  <2>1. proc' = proc /\ proc[p].pc = "pruning"
    BY <1>5 DEF Unlink, RemoveGeneration
  <2>2. Request(p)' /\ Succession(p)'
    BY <2>1 DEF Request, Succession
  <2>3. UNCHANGED <<pointer, history, trust>> /\ archive'[1] = archive[1]
        /\ \A q \in Proc \ {p} : proc'[q] = proc[q]
    BY <1>1, <2>1
  <2>4. QED
    BY <1>2, <1>3, <2>2, <2>3, RegisterFrom
<1>6. QED
  BY <1>4, <1>5

LEMMA RegisterMove ==
  ASSUME Typed, SafeInv, RegisterInv, Typed', SafeInv', NEW p \in Proc, MovePointer(p)
  PROVE  RegisterInv'
<1>1. /\ proc[p].pc = "synced" /\ Turns(p, "moved") /\ "moved" \in Stages
      /\ UNCHANGED <<gens, safe, archive, trust>>
  BY DEF MovePointer, Turns, Stages
<1>2. /\ pointer' = proc[p].gen /\ pointer' \in Gen /\ pointer' > pointer
      /\ \A g \in Gen \ {pointer'} : history'[g] = history[g]
  BY MoveFrom
<1>3. /\ \A q \in Proc \ {p} : proc'[q] = proc[q]
      /\ proc'[p].pc \in {"moved", "idle"}
  BY <1>1, TurnFacts
<1>4. trust # "lost" => ~Old(gens'[pointer'].catalog)
  BY <1>1, <1>2 DEF RegisterInv, Succession
<1>5. Legacy'
  <2>1. \A g \in Standing : \A h \in Gen : h <= g => history'[h] = history[h]
    <3>1. pointer \in Nat /\ safe.pointer \in Nat /\ safe.pointer <= pointer /\ pointer' \in Nat
      BY <1>2 DEF SafeInv, Pointers, Typed, Gen
    <3>2. \A h \in Gen : h <= pointer => h # pointer'
      BY <1>2, <3>1 DEF Gen
    <3>3. \A h \in Gen : h <= safe.pointer => h <= pointer
      BY <3>1 DEF Gen
    <3>4. QED
      BY <1>2, <3>2, <3>3 DEF Standing
  <2>2. \A g \in Standing' : g \in Standing \/ ~Old(gens'[g].catalog)
    BY <1>1, <1>4 DEF Standing
  <2>3. archive'[1] = archive[1] /\ Legacy
    BY <1>1 DEF RegisterInv
  <2>4. QED
    BY <2>1, <2>2, <2>3, LegacyKept
<1>6. \A q \in Proc \ {p} : proc[q].pc \notin Writing
  <2>1. lock = p
    BY <1>1, Holding DEF Resting
  <2>2. QED
    BY <2>1, NoOtherWrites
<1>7. ASSUME NEW q \in Proc PROVE Request(q)' /\ Succession(q)'
  <2>1. Request(q) /\ Succession(q)
    BY DEF RegisterInv
  <2>2. proc'[q] = proc[q] \/ proc'[q].pc # "drafted"
    BY <1>3
  <2>3. proc'[q].pc \notin Writing
    BY <1>3, <1>6 DEF Writing
  <2>4. Request(q)'
    BY <1>1, <1>2, <2>1, <2>2, RequestKept
  <2>5. Succession(q)'
    BY <1>1, <2>1, <2>3, SuccessionKept
  <2>6. QED
    BY <2>4, <2>5
<1>8. QED
  BY <1>5, <1>7 DEF RegisterInv

LEMMA RegisterLosePower ==
  ASSUME Typed, SafeInv, RegisterInv, Typed', SafeInv', LosePower
  PROVE  RegisterInv'
<1>1. /\ pointer' \in {pointer, safe.pointer} /\ safe'.pointer = pointer'
      /\ archive' = archive /\ proc' = [p \in Proc |-> Idle]
      /\ history' = [g \in Gen |-> IF g > pointer' THEN Missing ELSE history[g]]
  BY DEF LosePower
<1>2. \A h \in Gen : h <= pointer' => history'[h] = history[h]
  <2>1. pointer' \in Nat
    BY DEF Typed
  <2>2. QED
    BY <1>1, <2>1 DEF Gen
<1>0. \A g \in Standing' : g \in Standing
  BY DEF LosePower, Standing, Typed
<1>3. Legacy'
  BY <1>0, <1>1, <1>2, LegacyKept DEF RegisterInv
<1>4. \A p \in Proc : proc'[p].pc = "idle"
  BY <1>1 DEF Idle
<1>5. QED
  BY <1>3, <1>4 DEF RegisterInv, Request, Succession

LEMMA RegisterStep ==
  ASSUME Typed, SafeInv, RegisterInv, Typed', SafeInv', [Next]_vars
  PROVE  RegisterInv'
<1>1. CASE UNCHANGED vars
  <2>1. UNCHANGED <<gens, pointer, safe, archive, proc, history, trust>> /\ Standing' = Standing
    BY <1>1 DEF vars, Standing
  <2>2. Legacy'
    BY <2>1, LegacyKept DEF RegisterInv
  <2>3. ASSUME NEW q \in Proc PROVE Request(q)' /\ Succession(q)'
    <3>1. Request(q) /\ Succession(q)
      BY DEF RegisterInv
    <3>2. QED
      BY <2>1, <3>1, RequestKept, SuccessionKept
  <2>4. QED
    BY <2>2, <2>3 DEF RegisterInv
<1>2. CASE LosePower
  BY <1>2, RegisterLosePower
<1>3. ASSUME NEW p \in Proc, Save(p) \/ Archive(p) PROVE RegisterInv'
  <2>1. CASE Draft(p)
    BY <2>1, RegisterDraft
  <2>2. CASE BeginGeneration(p)
    BY <2>2, RegisterBegin
  <2>3. CASE WriteManifest(p) \/ Unlink(p) \/ RemoveGeneration(p)
    BY <2>3, RegisterFiles
  <2>4. CASE MovePointer(p)
    BY <2>4, RegisterMove
  <2>5. CASE \/ Refuse(p) \/ SyncGeneration(p) \/ SyncRoot(p) \/ GiveUp(p) \/ StartArchive(p)
             \/ CompleteArchive(p) \/ WriteJournal(p) \/ SecureJournal(p) \/ Resume(p)
             \/ RemoveJournal(p)
    BY <2>5, RegisterQuiet
  <2>6. QED
    BY <1>3, <2>1, <2>2, <2>3, <2>4, <2>5 DEF Save, Archive
<1>4. QED
  BY <1>1, <1>2, <1>3 DEF Next

LEMMA RegisterStart ==
  ASSUME Init, Typed
  PROVE  RegisterInv
<1>1. PICK store \in OldStores \cup {<<Bare, Bare, 0>>} :
        gens = store[1] /\ archive = store[2] /\ pointer = store[3]
  BY DEF Init
<1>2. /\ pointer \in {0, 1, 2}
      /\ \A g \in Gen : gens[g].at = "absent" \/ archive[g].at = "absent"
      /\ pointer = 2 => gens[1].at = "whole" \/ archive[1].at = "whole"
  BY <1>1, OldStoreFacts
<1>3. /\ safe.pointer = pointer /\ proc = [p \in Proc |-> Idle]
      /\ history = [g \in Gen |-> IF gens[g].at = "whole" THEN gens[g] ELSE archive[g]]
  BY DEF Init
<1>4. \A p \in Proc : proc[p].pc = "idle"
  BY <1>3 DEF Idle
<1>5. 1 \in Gen
  BY StoreAssumption DEF Gen
<1>6. pointer = 2 => history[1].at = "whole"
  BY <1>2, <1>3, <1>5
<1>7. pointer = 2 /\ archive[1].at = "whole" => archive[1] = history[1]
  BY <1>2, <1>3, <1>5
<1>8. Legacy
  BY <1>2, <1>3, <1>6, <1>7 DEF Legacy, Standing
<1>9. QED
  BY <1>4, <1>8 DEF RegisterInv, Request, Succession

LEMMA StoreStep ==
  ASSUME StoreIInv, [Next]_vars
  PROVE  StoreIInv'
<1>1. Typed' /\ SafeInv'
  BY SafeStep DEF StoreIInv, RegisterInv
<1>2. RegisterInv'
  BY <1>1, RegisterStep DEF StoreIInv
<1>3. QED
  BY <1>1, <1>2 DEF StoreIInv

\* The inductive invariant.
THEOREM StoreInvariance ==
  Spec => []StoreIInv
<1>1. Init => StoreIInv
  BY StoreStart, RegisterStart DEF StoreIInv
<1>2. StoreIInv /\ [Next]_vars => StoreIInv'
  BY StoreStep
<1>3. QED
  BY <1>1, <1>2, PTL DEF Spec

\* Generations above the pointer were never current, the lock is held by
\* exactly the program that is writing, and the store keeps its bound
\* (StoreTypeOK).
THEOREM StoreTyping ==
  Spec => []StoreTypeOK
<1>1. StoreIInv => StoreTypeOK
  <2> SUFFICES ASSUME StoreIInv PROVE StoreTypeOK
    OBVIOUS
  <2>1. pointer \in 0..MaxGen /\ safe.pointer \in 0..MaxGen /\ lock \in Proc \cup {NoProc}
    BY DEF StoreIInv, Typed
  <2>2. \A p \in Proc : (lock = p) = (proc[p].pc \notin {"idle", "drafted"})
    BY DEF StoreIInv, SafeInv, Locking
  <2>3. QED
    BY <2>1, <2>2 DEF StoreIInv, SafeInv, Kept, StoreTypeOK
<1>2. QED
  BY <1>1, StoreInvariance, PTL

\* The current generation can be loaded whatever was interrupted, and so could
\* the one a loss of power would fall back to, until a resumed archiving starts
\* to prune the latter; the current one is then gone only if the power is lost
\* before the root is synced (CurrentIsWhole).
THEOREM CurrentStaysWhole ==
  Spec => []CurrentIsWhole
<1>1. StoreIInv => CurrentIsWhole
  BY DEF StoreIInv, SafeInv, Pointers, Durable, Loadable, CurrentIsWhole
<1>2. QED
  BY <1>1, StoreInvariance, PTL

\* Every catalog that was current is in the store or in a complete archive,
\* whatever was interrupted (NothingLost).
THEOREM NothingIsLost ==
  Spec => []NothingLost
<1>1. StoreIInv => NothingLost
  BY DEF StoreIInv, SafeInv, Kept, NothingLost
<1>2. QED
  BY <1>1, StoreInvariance, PTL

-----------------------------------------------------------------------------
(* The store implements the register.                                      *)

Faithful ==
  /\ trust # "lost" => AbsCatalog(pointer) = Recall(pointer)
  /\ trust = "kept" => AbsCatalog(safe.pointer) = Recall(safe.pointer)

\* Where there is no catalog, the register has nothing.
LEMMA NothingIs ==
  AbsCatalog(0) = Register!Nothing /\ AbsCatalog(0)' = Register!Nothing
<1>1. CatalogOf(0) = Empty /\ CatalogOf(0)' = Empty
  BY DEF CatalogOf
<1>2. /\ Empty.selected = NoDeck
      /\ \A d \in Deck : Empty.profiles[d].rev = 0 /\ Empty.profiles[d].layout = NoLayout
  BY DEF Empty, NoRow, Row
<1>3. QED
  BY <1>1, <1>2 DEF AbsCatalog, Register!Nothing, Register!NoEntry, Register!Entry

LEMMA NowFrom ==
  ASSUME Typed, SafeInv, Typed', SafeInv', NEW g \in Standing, g = pointer', trust' # "lost",
         \A h \in Gen : h <= g => history'[h] = history[h]
  PROVE  Recall(pointer)' = Recall(g)
<1>0. g \in Standing'
  BY DEF Standing
<1>1. CatalogOf(g)' = CatalogOf(g) /\ Recall(g)' = Recall(g)
  BY <1>0, RecallSame
<1>2. CatalogOf(pointer)' = CatalogOf(g)'
  BY DEF CatalogOf
<1>3. QED
  BY <1>1, <1>2 DEF Recall

LEMMA KeptFrom ==
  ASSUME Typed, SafeInv, Typed', SafeInv', NEW g \in Standing, g = safe'.pointer,
         trust' = "kept", \A h \in Gen : h <= g => history'[h] = history[h]
  PROVE  Recall(safe.pointer)' = Recall(g)
<1>0. g \in Standing'
  BY DEF Standing
<1>1. CatalogOf(g)' = CatalogOf(g) /\ Recall(g)' = Recall(g)
  BY <1>0, RecallSame
<1>2. CatalogOf(safe.pointer)' = CatalogOf(g)'
  BY DEF CatalogOf
<1>3. QED
  BY <1>1, <1>2 DEF Recall

\* A generation that recorded the predecessors needs no others.
LEMMA RecallPlain ==
  ASSUME NEW c, NEW one, NEW g, ~Old(c), \A d \in Deck : c.profiles[d].rev \in Nat
  PROVE  Memory(c, one, g) = Plain(c)
<1>1. \A d \in Deck : c.profiles[d].rev # 0 => Recorded(c, one, g, d) = c.profiles[d].previous
  BY DEF Old, Known, Recorded
<1>2. ASSUME NEW d \in Deck
      PROVE  (IF c.profiles[d].rev = 0 THEN NoLayout ELSE Recorded(c, one, g, d))
               = (IF c.profiles[d].rev = 0 THEN NoLayout ELSE c.profiles[d].previous)
  BY <1>1
<1>3. QED
  BY <1>2 DEF Memory, Plain, View

AbsVars == <<AbsCurrent, AbsSecured, AbsPhase>>

\* Once the catalog is lost, the register promises nothing.
LEMMA LostStutters ==
  ASSUME trust = "lost", trust' = "lost"
  PROVE  UNCHANGED AbsVars
<1>1. AbsCatalog(0)' = AbsCatalog(0)
  BY NothingIs
<1>2. QED
  BY <1>1 DEF AbsVars, AbsCurrent, AbsSecured, AbsPhase

\* The rename of the pointer publishes.
LEMMA MovePublishes ==
  ASSUME Typed, SafeInv, RegisterInv, Typed', SafeInv', Faithful, Faithful',
         NEW p \in Proc, MovePointer(p), trust # "lost"
  PROVE  Register!Publish
<1>1. proc[p].pc = "synced" /\ gens' = gens /\ safe' = safe /\ trust' = trust
  BY DEF MovePointer
<1>2. /\ pointer' = proc[p].gen /\ pointer' \in Gen /\ pointer' > pointer
      /\ \A g \in Gen \ {pointer'} : history'[g] = history[g]
  BY MoveFrom
<1> DEFINE c == gens[proc[p].gen].catalog
<1>3. ~Old(c) /\ Publishes(Recall(pointer), Plain(c))
  BY <1>1 DEF RegisterInv, Succession
<1>4. Recall(pointer)' = Plain(c)
  <2>1. \A d \in Deck : c.profiles[d].rev \in Nat
    BY <1>2 DEF Typed, Files, Entries, Catalogs, Rows
  <2>2. CatalogOf(pointer)' = c
    BY <1>1, <1>2 DEF CatalogOf, Gen
  <2> HIDE DEF c
  <2>3. QED
    BY <1>3, <2>1, <2>2, RecallPlain DEF Recall
<1>5. safe.pointer \in Nat /\ pointer \in Nat /\ safe.pointer <= pointer /\ pointer' \in Nat
  BY <1>2 DEF SafeInv, Pointers, Typed, Gen
<1>6. trust = "kept" => Recall(safe.pointer)' = Recall(safe.pointer)
  <2>1. \A h \in Gen : h <= safe.pointer => history'[h] = history[h]
    BY <1>2, <1>5 DEF Gen
  <2>2. QED
    BY <1>1, <2>1, KeptFrom DEF Standing
<1> HIDE DEF c
<1>7. Publishes(AbsCurrent, AbsCurrent')
  BY <1>1, <1>3, <1>4 DEF Faithful, AbsCurrent
<1>8. AbsSecured' = AbsSecured
  BY <1>1, <1>6, NothingIs DEF Faithful, AbsSecured
<1>9. AbsPhase # "lost" /\ AbsPhase' = IF AbsPhase = "settled" THEN "pending" ELSE AbsPhase
  <2>1. trust' = "kept" => pointer' # safe'.pointer
    BY <1>1, <1>2, <1>5
  <2>2. QED
    BY <1>1, <2>1 DEF AbsPhase, Typed
<1>10. QED
  BY <1>7, <1>8, <1>9 DEF Register!Publish, Publishes

\* What is current when the root is on the disk is secured.
LEMMA SyncSecures ==
  ASSUME Typed, SafeInv, Typed', SafeInv', Faithful, Faithful',
         pointer' = pointer, \A h \in Gen : h <= pointer => history'[h] = history[h],
         safe'.pointer = pointer, trust # "lost", trust' = "kept"
  PROVE  Register!Secure
<1>1. Recall(pointer)' = Recall(pointer) /\ Recall(safe.pointer)' = Recall(pointer)
  BY NowFrom, KeptFrom DEF Standing
<1>2. /\ AbsCurrent = Recall(pointer) /\ AbsCurrent' = Recall(pointer)
      /\ AbsSecured' = Recall(pointer)
  BY <1>1 DEF Faithful, AbsCurrent, AbsSecured
<1>3. AbsPhase # "lost" /\ AbsPhase' = "settled"
  BY DEF AbsPhase
<1>4. QED
  BY <1>2, <1>3 DEF Register!Secure

LEMMA LosePowerFalls ==
  ASSUME Typed, SafeInv, Typed', SafeInv', Faithful, Faithful', LosePower, trust # "lost"
  PROVE  Register!Secure \/ Register!LosePower
<1>1. /\ pointer' \in {pointer, safe.pointer} /\ safe'.pointer = pointer'
      /\ history' = [g \in Gen |-> IF g > pointer' THEN Missing ELSE history[g]]
      /\ trust' = IF trust = "exposed" /\ pointer' # pointer THEN "lost" ELSE "kept"
  BY DEF LosePower
<1>2. \A h \in Gen : h <= pointer' => history'[h] = history[h]
  <2>1. pointer' \in Nat
    BY DEF Typed
  <2>2. QED
    BY <1>1, <2>1 DEF Gen
<1>3. CASE pointer' = pointer
  BY <1>1, <1>2, <1>3, SyncSecures
<1>4. CASE pointer' = safe.pointer /\ trust = "kept"
  <2>1. /\ Recall(pointer)' = Recall(safe.pointer)
        /\ Recall(safe.pointer)' = Recall(safe.pointer)
    BY <1>1, <1>2, <1>4, NowFrom, KeptFrom DEF Standing
  <2>2. AbsCurrent' = AbsSecured /\ AbsSecured' = AbsSecured
    BY <1>1, <1>4, <2>1 DEF Faithful, AbsCurrent, AbsSecured
  <2>3. AbsPhase \in {"settled", "pending"} /\ AbsPhase' = "settled"
    BY <1>1, <1>4 DEF AbsPhase
  <2>4. QED
    BY <2>2, <2>3 DEF Register!LosePower
<1>5. CASE pointer' # pointer /\ trust = "exposed"
  <2>1. trust' = "lost"
    BY <1>1, <1>5
  <2>2. AbsCurrent' = AbsSecured /\ AbsSecured' = AbsSecured
    BY <1>5, <2>1, NothingIs DEF AbsCurrent, AbsSecured
  <2>3. AbsPhase = "exposed" /\ AbsPhase' = "lost"
    BY <1>5, <2>1 DEF AbsPhase
  <2>4. QED
    BY <2>2, <2>3 DEF Register!LosePower
<1>6. QED
  BY <1>1, <1>3, <1>4, <1>5 DEF Typed

LEMMA RegisterStutter ==
  ASSUME Typed, SafeInv, Typed', SafeInv', Faithful, Faithful',
         UNCHANGED <<pointer, history, trust>>, safe'.pointer = safe.pointer
  PROVE  UNCHANGED AbsVars
<1>1. trust # "lost" => Recall(pointer)' = Recall(pointer)
  BY NowFrom DEF Standing
<1>2. trust = "kept" => Recall(safe.pointer)' = Recall(safe.pointer)
  BY KeptFrom DEF Standing
<1>3. AbsCurrent' = AbsCurrent
  BY <1>1, NothingIs DEF Faithful, AbsCurrent
<1>4. AbsSecured' = AbsSecured
  BY <1>2, NothingIs DEF Faithful, AbsSecured
<1>5. AbsPhase' = AbsPhase
  BY DEF AbsPhase
<1>6. QED
  BY <1>3, <1>4, <1>5 DEF AbsVars

\* A resumed archiving exposes what an unacknowledged publication replaced.
LEMMA ResumeExposes ==
  ASSUME Typed, SafeInv, Typed', SafeInv', Faithful, Faithful',
         NEW p \in Proc, Resume(p), trust' # trust
  PROVE  Register!Expose
<1>1. /\ UNCHANGED <<pointer, safe, history>> /\ journal.gen = pointer
      /\ trust = "kept" /\ trust' = "exposed" /\ safe.pointer \in journal.retired
  BY DEF Resume
<1>2. pointer # safe.pointer
  <2>1. pointer \in Nat /\ \A g \in journal.retired : g < journal.gen
    BY DEF Typed, SafeInv, Journaled, Given
  <2>2. QED
    BY <1>1, <2>1
<1>3. Recall(pointer)' = Recall(pointer)
  BY <1>1, NowFrom DEF Standing
<1>4. AbsCurrent' = AbsCurrent
  BY <1>1, <1>3 DEF Faithful, AbsCurrent
<1>5. AbsSecured' = Register!Nothing
  BY <1>1, NothingIs DEF AbsSecured
<1>6. AbsPhase = "pending" /\ AbsPhase' = "exposed"
  BY <1>1, <1>2 DEF AbsPhase
<1>7. QED
  BY <1>4, <1>5, <1>6 DEF Register!Expose

\* Every step of the store is a step of the register, or a stutter.
LEMMA RegisterRefines ==
  ASSUME StoreIInv, StoreIInv', Faithful, Faithful', [Next]_vars
  PROVE  [Register!Next]_AbsVars
<1>1. Typed /\ SafeInv /\ RegisterInv /\ Typed' /\ SafeInv'
  BY DEF StoreIInv
<1>2. CASE UNCHANGED vars
  BY <1>1, <1>2, RegisterStutter DEF vars
<1>3. CASE LosePower
  <2>1. CASE trust = "lost"
    <3>1. trust' = "lost"
      BY <1>3, <2>1 DEF LosePower
    <3>2. QED
      BY <2>1, <3>1, LostStutters
  <2>2. CASE trust # "lost"
    BY <1>1, <1>3, <2>2, LosePowerFalls DEF Register!Next
  <2>3. QED
    BY <2>1, <2>2
<1>4. ASSUME NEW p \in Proc, Save(p) \/ Archive(p)
      PROVE  [Register!Next]_AbsVars
  <2>1. CASE MovePointer(p)
    <3>1. trust' = trust
      BY <2>1 DEF MovePointer
    <3>2. QED
      BY <1>1, <2>1, <3>1, MovePublishes, LostStutters DEF Register!Next
  <2>2. CASE SyncRoot(p) \/ SecureJournal(p)
    <3>1. UNCHANGED <<pointer, history>> /\ safe'.pointer = pointer
          /\ trust' = IF trust = "exposed" THEN "kept" ELSE trust
      BY <1>1, <2>2 DEF SyncRoot, SecureJournal, SecureRoot, Typed
    <3>2. CASE trust = "lost"
      BY <3>1, <3>2, LostStutters
    <3>3. CASE trust # "lost"
      <4>1. trust' = "kept"
        BY <1>1, <3>1, <3>3 DEF Typed
      <4>2. QED
        BY <1>1, <3>1, <3>3, <4>1, SyncSecures DEF Register!Next
    <3>4. QED
      BY <3>2, <3>3
  <2>3. CASE Resume(p) /\ trust' # trust
    BY <1>1, <2>3, ResumeExposes DEF Register!Next
  <2>4. CASE \/ Draft(p) \/ BeginGeneration(p) \/ Refuse(p) \/ WriteManifest(p)
             \/ SyncGeneration(p) \/ GiveUp(p) \/ StartArchive(p) \/ CompleteArchive(p)
             \/ WriteJournal(p) \/ (Resume(p) /\ trust' = trust) \/ Unlink(p)
             \/ RemoveGeneration(p) \/ RemoveJournal(p)
    <3>1. UNCHANGED <<pointer, history, trust>> /\ safe'.pointer = safe.pointer
      BY <1>1, <2>4
         DEF Draft, BeginGeneration, Refuse, WriteManifest, SyncGeneration, GiveUp,
             StartArchive, CompleteArchive, WriteJournal, Resume, Unlink, RemoveGeneration,
             RemoveJournal, Typed
    <3>2. QED
      BY <1>1, <3>1, RegisterStutter
  <2>5. QED
    BY <1>4, <2>1, <2>2, <2>3, <2>4 DEF Save, Archive
<1>5. QED
  BY <1>2, <1>3, <1>4 DEF Next

\* The store is a register: saves are atomic, none is lost to another, and what
\* was acknowledged survives, but for the one sequence in which a resumed
\* archiving exposes it, a step of the register (ImplementsRegister).
THEOREM StoreIsRegister ==
  Spec => ImplementsRegister
<1>1. Init => Register!Init
  BY DEF Init, Register!Init, AbsCurrent, AbsSecured, AbsPhase
<1>2. StoreIInv => Faithful
  BY RecallIs DEF StoreIInv, RegisterInv, Faithful, Standing
<1>3. /\ StoreIInv /\ StoreIInv' /\ Faithful /\ Faithful' /\ [Next]_vars
      => [Register!Next]_<<AbsCurrent, AbsSecured, AbsPhase>>
  BY RegisterRefines DEF AbsVars
<1>4. QED
  BY <1>1, <1>2, <1>3, StoreInvariance, PTL DEF Spec, ImplementsRegister, Register!Spec

=============================================================================
