---------------------------- MODULE ProfileStore ----------------------------
(***************************************************************************)
(* The store of saved profiles (apps/decksmith-daemon/src/                 *)
(* device_profiles.rs): immutable generations in a directory, a pointer    *)
(* file that names the current one, sibling archives of old generations    *)
(* and the journal that lets an interrupted pruning be resumed.            *)
(*                                                                         *)
(* Several programs use one store and serialise their writes with a file   *)
(* lock.  Each file operation that a crash can separate from the next one  *)
(* is a step; `safe` is what a loss of power would leave at least.  A      *)
(* generation's files are abstracted to how complete they are; names,      *)
(* checksums and file modes to "whole"; brightness, name and page to the   *)
(* revision that counts their saves.                                       *)
(***************************************************************************)
EXTENDS Integers, FiniteSets, FiniteSetsExt

CONSTANTS
  Deck, Layout, NoLayout, NoDeck,
  Proc,        \* programs with the store open
  Permanent,   \* those that make room before they save
  NoProc,
  Generations, \* GENERATIONS, the bound of a store
  Daily,       \* archive when there are so many
  Keep,        \* generations an archiving leaves
  MaxGen,      \* bound: generations ever numbered
  MaxPowerLoss \* bound: losses of power

ASSUME StoreAssumption ==
  /\ Permanent \subseteq Proc /\ NoProc \notin Proc
  /\ NoLayout \notin Layout /\ NoDeck \notin Deck
  /\ Generations \in Nat /\ Daily \in 0..Generations /\ Keep \in 2..Daily
  /\ MaxGen \in Nat \ {0, 1} /\ MaxPowerLoss \in Nat

VARIABLES
  gens,     \* the directory `generations`
  pointer,  \* current.json, 0 without one
  journal,  \* retention.json: the current generation and those retired
  safe,     \* the durable gens, pointer and journal
  archive,  \* what complete archives hold
  scrap,    \* an archive was left incomplete
  lock,     \* who holds store.lock
  proc,     \* what each program is doing
  history,  \* history variable: every catalog that was current
  trust,    \* history variable: what a loss of power would still find
  losses    \* counts the losses of power

vars == <<gens, pointer, journal, safe, archive, scrap, lock, proc, history, trust, losses>>

Gen == 1..MaxGen

\* `checked` is history_complete: the predecessor was recorded.
Row(rev, layout, previous, checked) ==
  [rev |-> rev, layout |-> layout, previous |-> previous, checked |-> checked]
NoRow == Row(0, NoLayout, NoLayout, TRUE)
Empty == [selected |-> NoDeck, profiles |-> [d \in Deck |-> NoRow]]

\* absent; partial (load_generation refuses it); whole.
Missing == [at |-> "absent", catalog |-> Empty]
Partial(c) == [at |-> "partial", catalog |-> c]
Whole(c) == [at |-> "whole", catalog |-> c]

Present == {g \in Gen : gens[g].at # "absent"}
Loadable(g) == gens[g].at = "whole"
Known(c) == {d \in Deck : c.profiles[d].rev > 0}

\* load: without a pointer only an empty directory is a store.
CanLoad == IF pointer = 0 THEN Present = {} ELSE Loadable(pointer)
CatalogOf(g) == IF g = 0 THEN Empty ELSE gens[g].catalog
Catalog == CatalogOf(pointer)

Idle == [pc |-> "idle", kind |-> "save", deck |-> NoDeck, layout |-> NoLayout,
         base |-> 0, rev |-> 0, next |-> Empty, gen |-> 0]

-----------------------------------------------------------------------------
(* The layout before the one of generation g, for generations that did not *)
(* record it: the newest that differs, in the store and then in archives.  *)

Differing(c, g, d) ==
  c.profiles[d].rev > 0 /\ c.profiles[d].layout # CatalogOf(g).profiles[d].layout
InStore(g, d) == {h \in Present : h < g /\ Loadable(h) /\ Differing(gens[h].catalog, g, d)}
InArchive(g, d) ==
  {h \in Gen : h < g /\ archive[h].at = "whole" /\ Differing(archive[h].catalog, g, d)}

LegacyPrevious(g, d) ==
  IF InStore(g, d) # {} THEN gens[Max(InStore(g, d))].catalog.profiles[d].layout
  ELSE IF InArchive(g, d) # {} THEN archive[Max(InArchive(g, d))].catalog.profiles[d].layout
  ELSE NoLayout

\* A generation that cannot be verified stops the search, as does an
\* archive without its provenance record.
LegacyReadable(g, d) ==
  /\ \A h \in Present : h < g /\ ~Loadable(h) => \E i \in InStore(g, d) : i > h
  /\ InStore(g, d) = {} => ~scrap

Previous(g, d) ==
  IF CatalogOf(g).profiles[d].checked THEN CatalogOf(g).profiles[d].previous
                                      ELSE LegacyPrevious(g, d)

-----------------------------------------------------------------------------
(* Catalogs in memory.                                                     *)

SavedRow(c, d, layout) ==
  [c EXCEPT !.profiles[d].rev = @ + 1, !.profiles[d].layout = layout]

EnrolledRow(c, d, layout) ==
  [selected |-> IF c.selected = NoDeck THEN d ELSE c.selected,
   profiles |-> [c.profiles EXCEPT ![d] = Row(1, layout, NoLayout, TRUE)]]

\* commit records the predecessor of every profile.
Predecessor(c, d) ==
  LET old == Catalog.profiles[d]
  IN  IF old.rev = 0 THEN c.profiles[d].previous
      ELSE IF old.layout # c.profiles[d].layout THEN old.layout
      ELSE Previous(pointer, d)

WithHistory(c) ==
  [c EXCEPT !.profiles = [d \in Deck |->
     IF c.profiles[d].rev = 0 THEN c.profiles[d]
     ELSE [c.profiles[d] EXCEPT !.previous = Predecessor(c, d), !.checked = TRUE]]]

\* Only a profile whose layout stays needs the search.
HistoryReadable(c) ==
  \A d \in Known(c) :
    LET old == Catalog.profiles[d]
    IN  old.rev > 0 /\ ~old.checked /\ old.layout = c.profiles[d].layout
          => LegacyReadable(pointer, d)

NextGenByCount == Cardinality(Present) + 1 \* faulty

\* next: one more than the greatest number in the directory.
NextGen == Max({0} \cup Present) + 1
HasRoom == Cardinality(Present) < Generations

\* What an archiving retires: all but the newest.
Retired == {g \in Present : Cardinality({h \in Present : h > g}) >= Keep}
NoJournal == [gen |-> 0, retired |-> {}]

-----------------------------------------------------------------------------
(* Faulty variants, for the mutation checks.                               *)

AnyBase(p) == TRUE

\* The pointer moves before the generation is on the disk.
MovePointerEarly(p) ==
  /\ proc[p].pc = "written"
  /\ pointer' = proc[p].gen
  /\ history' = [history EXCEPT ![pointer'] = gens[pointer']]
  /\ proc' = [proc EXCEPT ![p].pc = "moved"]
  /\ UNCHANGED <<gens, journal, safe, archive, scrap, lock, trust, losses>>

-----------------------------------------------------------------------------
(* A save: draft, check under the lock, write, publish.                    *)

Leave(p) == proc' = [proc EXCEPT ![p] = Idle] /\ lock' = NoProc

\* The permanent service projects a save before it publishes it; the
\* workspace (and the service while it starts) saves and enrols directly.
Kinds(p) == {"select"} \cup IF p \in Permanent THEN {"project"} ELSE {"save", "enroll"}

\* The catalog is loaded to make the request.  The permanent service has
\* made room before.
Draft(p) ==
  /\ proc[p].pc = "idle" /\ CanLoad
  /\ p \in Permanent => journal = NoJournal /\ Cardinality(Present) < Daily
  /\ \E d \in Deck, l \in Layout \cup {NoLayout}, kind \in Kinds(p) :
       LET rev == Catalog.profiles[d].rev
       IN  /\ (kind = "enroll") = (rev = 0)
           /\ kind = "select" => Catalog.selected # d
           /\ (kind = "select") = (l = NoLayout)
           /\ proc' = [proc EXCEPT ![p] =
                [pc |-> "drafted", kind |-> kind, deck |-> d, layout |-> l,
                 base |-> pointer, rev |-> rev, gen |-> 0,
                 next |-> IF kind = "project" THEN SavedRow(Catalog, d, l) ELSE Empty]]
  /\ UNCHANGED <<gens, pointer, journal, safe, archive, scrap, lock, history, trust, losses>>

\* save_profile merges into the latest catalog and compares the revision of
\* its profile; the other requests are for one generation.
UpToDate(p) ==
  IF proc[p].kind = "save" THEN Catalog.profiles[proc[p].deck].rev = proc[p].rev
                           ELSE pointer = proc[p].base

Wanted(p) ==
  LET r == proc[p]
  IN  CASE r.kind = "project" -> r.next
        [] r.kind = "save" -> SavedRow(Catalog, r.deck, r.layout)
        [] r.kind = "select" -> [Catalog EXCEPT !.selected = r.deck]
        [] r.kind = "enroll" -> EnrolledRow(Catalog, r.deck, r.layout)

Publishable(p) ==
  /\ lock = NoProc /\ CanLoad /\ UpToDate(p)
  /\ journal = NoJournal /\ HasRoom /\ HistoryReadable(Wanted(p))

\* The directory of the new generation, and some of its files.
BeginGeneration(p) ==
  /\ proc[p].pc = "drafted" /\ Publishable(p) /\ NextGen <= MaxGen
  /\ lock' = p
  /\ gens' = [gens EXCEPT ![NextGen] = Partial(WithHistory(Wanted(p)))]
  /\ proc' = [proc EXCEPT ![p].pc = "begun", ![p].gen = NextGen, ![p].next = Empty]
  /\ UNCHANGED <<pointer, journal, safe, archive, scrap, history, trust, losses>>

Refuse(p) ==
  /\ proc[p].pc = "drafted" /\ ~Publishable(p)
  /\ proc' = [proc EXCEPT ![p] = Idle]
  /\ UNCHANGED <<gens, pointer, journal, safe, archive, scrap, lock, history, trust, losses>>

\* The manifest makes it whole.
WriteManifest(p) ==
  /\ proc[p].pc = "begun"
  /\ gens' = [gens EXCEPT ![proc[p].gen].at = "whole"]
  /\ proc' = [proc EXCEPT ![p].pc = "written"]
  /\ UNCHANGED <<pointer, journal, safe, archive, scrap, lock, history, trust, losses>>

SyncGeneration(p) ==
  /\ proc[p].pc = "written"
  /\ safe' = [safe EXCEPT !.gens = gens]
  /\ proc' = [proc EXCEPT ![p].pc = "synced"]
  /\ UNCHANGED <<gens, pointer, journal, archive, scrap, lock, history, trust, losses>>

\* The generation is loaded once more; then a rename publishes it.
MovePointer(p) ==
  /\ proc[p].pc = "synced" /\ Loadable(proc[p].gen)
  /\ pointer' = proc[p].gen
  /\ history' = [history EXCEPT ![pointer'] = gens[pointer']]
  /\ proc' = [proc EXCEPT ![p].pc = "moved"]
  /\ UNCHANGED <<gens, journal, safe, archive, scrap, lock, trust, losses>>

\* A sync of the root secures the pointer and the journal together.
SecureRoot ==
  /\ safe' = [safe EXCEPT !.pointer = pointer, !.journal = journal]
  /\ trust' = IF trust = "exposed" THEN "kept" ELSE trust

SyncRoot(p) ==
  /\ proc[p].pc \in {"moved", "swept"}
  /\ SecureRoot /\ Leave(p)
  /\ UNCHANGED <<gens, pointer, journal, archive, scrap, history, losses>>

\* An operation on the files fails, or the program is killed: what is there
\* stays, and the lock is free.  After a rename the outcome is reported as
\* uncertain.
GiveUp(p) ==
  /\ proc[p].pc \notin {"idle", "drafted"}
  /\ scrap' = (scrap \/ proc[p].pc = "copying")
  /\ Leave(p)
  /\ UNCHANGED <<gens, pointer, journal, safe, archive, history, trust, losses>>

-----------------------------------------------------------------------------
(* Archiving: copy, verify, journal, prune.                                *)

\* Every generation must load, and the last must be the current one.
StartArchive(p) ==
  /\ proc[p].pc = "idle" /\ lock = NoProc /\ journal = NoJournal
  /\ pointer > 0 /\ Cardinality(Present) > Keep /\ Max(Present) = pointer
  /\ \A g \in Present : Loadable(g)
  /\ lock' = p
  /\ proc' = [proc EXCEPT ![p].pc = "copying"]
  /\ UNCHANGED <<gens, pointer, journal, safe, archive, scrap, history, trust, losses>>

CompleteArchive(p) ==
  /\ proc[p].pc = "copying"
  /\ archive' = [g \in Gen |-> IF g \in Retired THEN gens[g] ELSE archive[g]]
  /\ proc' = [proc EXCEPT ![p].pc = "copied"]
  /\ UNCHANGED <<gens, pointer, journal, safe, scrap, lock, history, trust, losses>>

WriteJournal(p) ==
  /\ proc[p].pc = "copied"
  /\ journal' = [gen |-> pointer, retired |-> Retired]
  /\ proc' = [proc EXCEPT ![p].pc = "journaled"]
  /\ UNCHANGED <<gens, pointer, safe, archive, scrap, lock, history, trust, losses>>

SecureJournal(p) ==
  /\ proc[p].pc = "journaled" /\ SecureRoot
  /\ proc' = [proc EXCEPT ![p].pc = "pruning"]
  /\ UNCHANGED <<gens, pointer, journal, archive, scrap, lock, history, losses>>

\* finish_retention checks the journal against the pointer and the archive
\* before it goes on; resume_archive comes here with the journal it found and
\* does not sync the root: a publication whose rename is not on the disk yet
\* may be taken back to a generation that is about to go.
Resume(p) ==
  /\ proc[p].pc = "idle" /\ lock = NoProc /\ journal # NoJournal
  /\ journal.gen = pointer /\ CanLoad
  /\ \A g \in journal.retired :
       archive[g].at = "whole" /\ (g \in Present => gens[g].catalog = archive[g].catalog)
  /\ lock' = p
  /\ proc' = [proc EXCEPT ![p].pc = "pruning"]
  /\ trust' = IF trust = "kept" /\ safe.pointer \in journal.retired THEN "exposed" ELSE trust
  /\ UNCHANGED <<gens, pointer, journal, safe, archive, scrap, history, losses>>

Left == journal.retired \cap Present

Unlink(p) ==
  /\ proc[p].pc = "pruning" /\ Left # {} /\ Loadable(Min(Left))
  /\ gens' = [gens EXCEPT ![Min(Left)].at = "partial"]
  /\ UNCHANGED <<pointer, journal, safe, archive, scrap, lock, proc, history, trust, losses>>

RemoveGeneration(p) ==
  /\ proc[p].pc = "pruning" /\ Left # {} /\ ~Loadable(Min(Left))
  /\ gens' = [gens EXCEPT ![Min(Left)] = Missing]
  /\ safe' = [safe EXCEPT !.gens = gens']
  /\ UNCHANGED <<pointer, journal, archive, scrap, lock, proc, history, trust, losses>>

RemoveJournal(p) ==
  /\ proc[p].pc = "pruning" /\ Left = {}
  /\ journal' = NoJournal
  /\ proc' = [proc EXCEPT ![p].pc = "swept"]
  /\ UNCHANGED <<gens, pointer, safe, archive, scrap, lock, history, trust, losses>>

-----------------------------------------------------------------------------
(* Loss of power.                                                          *)

\* Of what was not secured, anything may be left.
Survivors(g) ==
  IF gens[g] = safe.gens[g] THEN {gens[g]}
  ELSE {gens[g], safe.gens[g], [gens[g] EXCEPT !.at = "partial"]}

LosePower ==
  /\ losses < MaxPowerLoss /\ losses' = losses + 1
  /\ \E f \in [Gen -> UNION {Survivors(g) : g \in Gen}] :
       (\A g \in Gen : f[g] \in Survivors(g)) /\ gens' = f
  /\ pointer' \in {pointer, safe.pointer} /\ journal' \in {journal, safe.journal}
  /\ safe' = [gens |-> gens', pointer |-> pointer', journal |-> journal']
  /\ trust' = IF trust = "lost" \/ (trust = "exposed" /\ pointer' # pointer) THEN "lost"
              ELSE "kept"
  /\ scrap' = (scrap \/ \E p \in Proc : proc[p].pc = "copying")
  /\ history' = [g \in Gen |-> IF g > pointer' THEN Missing ELSE history[g]]
  /\ proc' = [p \in Proc |-> Idle] /\ lock' = NoProc
  /\ UNCHANGED archive

-----------------------------------------------------------------------------
\* Stores written by a version that did not record predecessors: one
\* generation with two profiles, or two of one profile, the first perhaps
\* archived.
Unchecked(c, d, layout) ==
  [selected |-> d, profiles |-> [c.profiles EXCEPT ![d] = Row(@.rev + 1, layout, NoLayout, FALSE)]]
Bare == [g \in Gen |-> Missing]
Both(d, l) == Whole([selected |-> d, profiles |-> [e \in Deck |-> Row(1, l, NoLayout, FALSE)]])
OldStores ==
  {<<[Bare EXCEPT ![1] = Both(d, l)], Bare, 1>> : d \in Deck, l \in Layout} \cup
  UNION {LET one == Unchecked(Empty, d, l)
             two == Whole(Unchecked(one, d, m))
         IN  {<<[Bare EXCEPT ![1] = Whole(one), ![2] = two], Bare, 2>>,
              <<[Bare EXCEPT ![2] = two], [Bare EXCEPT ![1] = Whole(one)], 2>>} :
         d \in Deck, l \in Layout, m \in Layout}

Init ==
  /\ \E store \in OldStores \cup {<<Bare, Bare, 0>>} :
       gens = store[1] /\ archive = store[2] /\ pointer = store[3]
  /\ journal = NoJournal /\ scrap = FALSE /\ lock = NoProc
  /\ trust = "kept" /\ losses = 0
  /\ safe = [gens |-> gens, pointer |-> pointer, journal |-> journal]
  /\ proc = [p \in Proc |-> Idle]
  /\ history = [g \in Gen |-> IF gens[g].at = "whole" THEN gens[g] ELSE archive[g]]

Save(p) ==
  \/ Draft(p) \/ BeginGeneration(p) \/ Refuse(p) \/ WriteManifest(p)
  \/ SyncGeneration(p) \/ MovePointer(p) \/ SyncRoot(p) \/ GiveUp(p)
Archive(p) ==
  \/ StartArchive(p) \/ CompleteArchive(p) \/ WriteJournal(p) \/ SecureJournal(p)
  \/ Resume(p) \/ Unlink(p) \/ RemoveGeneration(p) \/ RemoveJournal(p)

Next == (\E p \in Proc : Save(p) \/ Archive(p)) \/ LosePower

Spec == Init /\ [][Next]_vars

-----------------------------------------------------------------------------
(* Properties.                                                             *)

\* Generations above the pointer were never published, and the lock is held
\* by exactly the program that is writing.
StoreTypeOK ==
  /\ pointer \in 0..MaxGen /\ safe.pointer \in 0..MaxGen
  /\ lock \in Proc \cup {NoProc}
  /\ \A p \in Proc : (lock = p) = (proc[p].pc \notin {"idle", "drafted"})
  /\ \A g \in Gen : history[g].at # "absent" => g <= pointer
  /\ Cardinality(Present) <= Generations

\* The current generation and the fallback, as far as they can be relied on.
Standing ==
  {g \in {pointer} : trust # "lost"} \cup {g \in {safe.pointer} : trust = "kept"}

\* The current generation can be loaded whatever was interrupted, and so could
\* the one a loss of power would fall back to.  One sequence is excepted: a
\* publication is interrupted between its rename and the sync of the root, an
\* archiving retires the generation before it and is interrupted too, and
\* resume_archive, which does not sync the root, prunes that generation.  Until
\* the root is synced the fallback is exposed; if the power is lost before,
\* there may be no current generation to load (but see NothingLost).
CurrentIsWhole ==
  \A g \in Standing \ {0} :
    /\ Loadable(g) /\ safe.gens[g].at = "whole"
    /\ gens[g] = history[g]

\* Every catalog that was current is still there, in the store or in a
\* complete archive, whatever was interrupted.
NothingLost ==
  \A g \in Gen : history[g].at = "whole" => history[g] \in {gens[g], archive[g]}

\* The store is a register: saves are atomic and none is lost to another; what
\* was acknowledged survives, but for the one sequence that CurrentIsWhole
\* excepts, which the register has as a step of its own (Expose).
AbsCatalog(g) ==
  [selected |-> CatalogOf(g).selected,
   profiles |-> [d \in Deck |->
     LET r == CatalogOf(g).profiles[d]
     IN  [rev |-> r.rev, layout |-> r.layout,
          previous |-> IF r.rev = 0 THEN NoLayout ELSE Previous(g, d)]]]
AbsCurrent == IF trust = "lost" THEN AbsCatalog(0) ELSE AbsCatalog(pointer)
AbsSecured == IF trust = "kept" THEN AbsCatalog(safe.pointer) ELSE AbsCatalog(0)
AbsPhase ==
  IF trust # "kept" THEN trust ELSE IF pointer = safe.pointer THEN "settled" ELSE "pending"
Register == INSTANCE ProfileRegister
              WITH current <- AbsCurrent, secured <- AbsSecured, phase <- AbsPhase
ImplementsRegister == Register!Spec
=============================================================================
