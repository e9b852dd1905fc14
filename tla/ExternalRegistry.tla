-------------------------- MODULE ExternalRegistry --------------------------
(***************************************************************************)
(* The registry of external ranges (external.hpp), behind mark_at and      *)
(* unmark_at: pages of slots, each page with a count of its used slots and *)
(* a high-water mark below which every scan stops.  All operations hold    *)
(* one spin lock from their first read on, so each is one step.            *)
(*                                                                         *)
(* Pages are never freed; a new page becomes the head of their list.  They *)
(* are numbered in the order they were made, so the head is the last one   *)
(* and scans go from it downwards.  The provenance stored with a range is  *)
(* left out: the repository only ever registers "caller".                  *)
(***************************************************************************)
EXTENDS Integers, FiniteSets

CONSTANTS
  Capacity,     \* slots of a page
  MaxPages,     \* mmap has no memory for more pages than this
  Top,          \* numeric_limits<uintptr_t>::max()
  Bases, Lens   \* what callers pass, null and zero included

ASSUME RegistryAssumption == /\ Capacity \in Nat \ {0} /\ MaxPages \in Nat /\ Top \in Nat
                             /\ Bases \subseteq 0..Top /\ Lens \subseteq 0..Top

VARIABLES
  n_pages,      \* pages made; page n_pages is __external_pages, the head
  slot,         \* slot[p][i]: ranges[i] of page p
  high_water,   \* high_water[p]
  used,         \* used[p]
  count,        \* __external_count
  answer        \* what the last call returned

vars == <<n_pages, slot, high_water, used, count, answer>>

Null == [base |-> 0, len |-> 0]
RangeRec == [base : 1..Top, len : 1..Top]
Index == 1..Capacity
PageIds == 1..MaxPages
Pages == 1..n_pages

Init ==
  /\ n_pages = 0
  /\ slot = [p \in PageIds |-> [i \in Index |-> Null]]
  /\ high_water = [p \in PageIds |-> 0]
  /\ used = [p \in PageIds |-> 0]
  /\ count = 0 /\ answer = TRUE

-----------------------------------------------------------------------------
(* The scan: pages from the head on, slots upwards to the high-water mark *)

Scanned == {c \in Pages \X Index : c[2] <= high_water[c[1]]}
Before(c, d) == c[1] > d[1] \/ (c[1] = d[1] /\ c[2] < d[2])
IsFirst(c, S) == c \in S /\ \A d \in S \ {c} : Before(c, d)
At(c) == slot[c[1]][c[2]]

\* __external_bounds
Bounds(b, n) == b > 0 /\ n > 0 /\ n <= Top - b

\* __external_overlap, of [b, b + n) with a slot; the sum is the machine's.
Hits(b, n, r) == r # Null /\ b < r.base + r.len /\ r.base < (b + n) % (Top + 1)

Vacant == {c \in Scanned : At(c) = Null}

TailVacant == {c \in Pages \X Index : c[2] = high_water[c[1]] + 1}

Store(c, b, n, hw) ==
  /\ slot' = [slot EXCEPT ![c[1]][c[2]] = [base |-> b, len |-> n]]
  /\ high_water' = [high_water EXCEPT ![c[1]] = hw]

\* Mutant of RegisterHead: any register may take the fast path.
RegisterHeadAlways(b, n) ==
  /\ Bounds(b, n) /\ n_pages > 0
  /\ Store(<<n_pages, 1>>, b, n, 1)
  /\ used' = [used EXCEPT ![n_pages] = 1]
  /\ count' = 1 /\ answer' = TRUE
  /\ UNCHANGED n_pages

\* register_external with an empty registry: the first slot of the head page.
RegisterHead(b, n) ==
  /\ Bounds(b, n) /\ count = 0 /\ n_pages > 0
  /\ Store(<<n_pages, 1>>, b, n, 1)
  /\ used' = [used EXCEPT ![n_pages] = 1]
  /\ count' = 1 /\ answer' = TRUE
  /\ UNCHANGED n_pages

SlowPath(b, n) ==
  /\ Bounds(b, n) /\ (count > 0 \/ n_pages = 0)
  /\ \A c \in Scanned : ~Hits(b, n, At(c))

Enter(c, b, n, hw) ==
  /\ Store(c, b, n, hw)
  /\ used' = [used EXCEPT ![c[1]] = @ + 1]
  /\ count' = count + 1 /\ answer' = TRUE

\* __external_register_slow: the first vacant slot below a mark,
RegisterVacant(b, n) ==
  /\ SlowPath(b, n)
  /\ \E c \in Vacant : IsFirst(c, Vacant) /\ Enter(c, b, n, high_water[c[1]])
  /\ UNCHANGED n_pages

\* else the slot at the mark of the first page that has one,
RegisterTail(b, n) ==
  /\ SlowPath(b, n) /\ Vacant = {}
  /\ \E c \in TailVacant : IsFirst(c, TailVacant) /\ Enter(c, b, n, c[2])
  /\ UNCHANGED n_pages

\* else the first slot of a new page.
RegisterPage(b, n) ==
  /\ SlowPath(b, n) /\ Vacant = {} /\ TailVacant = {}
  /\ n_pages < MaxPages
  /\ Enter(<<n_pages + 1, 1>>, b, n, 1)
  /\ n_pages' = n_pages + 1

Refuse == answer' = FALSE /\ UNCHANGED <<n_pages, slot, high_water, used, count>>

\* Bad arguments, an overlap, or no memory for a page.
RegisterRefused(b, n) ==
  /\ \/ ~Bounds(b, n)
     \/ (count > 0 \/ n_pages = 0) /\ \E c \in Scanned : Hits(b, n, At(c))
     \/ SlowPath(b, n) /\ Vacant = {} /\ TailVacant = {} /\ n_pages = MaxPages
  /\ Refuse

register_external(b, n) ==
  RegisterHead(b, n) \/ RegisterVacant(b, n) \/ RegisterTail(b, n) \/ RegisterPage(b, n)
  \/ RegisterRefused(b, n)

-----------------------------------------------------------------------------
(* unregister_external *)

Matching(b) == {c \in Scanned : At(c).base = b}

\* Mutant of Trimmed: the mark goes down to the slot that is emptied.
TrimmedToSlot(c) == c[2] - 1

\* The mark after slot c is emptied: it only moves if c was the topmost one,
\* then down to the next slot in use.
Trimmed(c) ==
  IF c[2] # high_water[c[1]] THEN high_water[c[1]]
  ELSE CHOOSE h \in 0..Capacity :
         /\ h < c[2] /\ \A i \in Index : h < i /\ i < c[2] => slot[c[1]][i] = Null
         /\ h > 0 => slot[c[1]][h] # Null

Clear(c, hw) ==
  /\ slot' = [slot EXCEPT ![c[1]][c[2]] = Null]
  /\ high_water' = [high_water EXCEPT ![c[1]] = hw]
  /\ used' = [used EXCEPT ![c[1]] = @ - 1]
  /\ count' = count - 1 /\ answer' = TRUE
  /\ UNCHANGED n_pages

AtHead(b) == n_pages > 0 /\ high_water[n_pages] > 0 /\ slot[n_pages][1].base = b

\* Mutant of UnregisterHead: the mark of the head page is always cleared.
UnregisterHeadZero(b, n) ==
  /\ b > 0 /\ n > 0 /\ AtHead(b) /\ slot[n_pages][1].len = n
  /\ Clear(<<n_pages, 1>>, 0)

\* The first slot of the head page, without a scan.
UnregisterHead(b, n) ==
  /\ b > 0 /\ n > 0 /\ AtHead(b) /\ slot[n_pages][1].len = n
  /\ Clear(<<n_pages, 1>>, IF high_water[n_pages] = 1 THEN 0 ELSE high_water[n_pages])

\* __external_unregister_slow
UnregisterSlow(b, n) ==
  /\ b > 0 /\ n > 0 /\ ~AtHead(b)
  /\ \E c \in Matching(b) : IsFirst(c, Matching(b)) /\ At(c).len = n /\ Clear(c, Trimmed(c))

\* Bad arguments, a base that is not found, or one of another length.
UnregisterRefused(b, n) ==
  /\ \/ b = 0 \/ n = 0 \/ Matching(b) = {}
     \/ AtHead(b) /\ slot[n_pages][1].len # n
     \/ ~AtHead(b) /\ \E c \in Matching(b) : IsFirst(c, Matching(b)) /\ At(c).len # n
  /\ Refuse

unregister_external(b, n) == UnregisterHead(b, n) \/ UnregisterSlow(b, n) \/ UnregisterRefused(b, n)

-----------------------------------------------------------------------------
(* The queries *)

external_is_present(b) == b > 0 /\ Matching(b) # {}
external_within(a) == a > 0 /\ \E c \in Scanned : At(c) # Null /\ a >= At(c).base /\ a - At(c).base < At(c).len
external_query_size(b) ==
  IF external_is_present(b) THEN At(CHOOSE c \in Matching(b) : IsFirst(c, Matching(b))).len ELSE 0

Next == \E b \in Bases, n \in Lens : register_external(b, n) \/ unregister_external(b, n)
Spec == Init /\ [][Next]_vars

-----------------------------------------------------------------------------
(* Properties *)

Occupied == {c \in PageIds \X Index : At(c) # Null}

TypeOK ==
  /\ n_pages \in 0..MaxPages
  /\ slot \in [PageIds -> [Index -> RangeRec \cup {Null}]]
  /\ high_water \in [PageIds -> 0..Capacity]
  /\ used \in [PageIds -> 0..Capacity]
  /\ count \in Nat /\ answer \in BOOLEAN

\* No range hides beyond a mark: a scan sees every slot in use, whatever
\* sequence of slots was emptied and filled, and a mark is tight, so an
\* empty registry has no slot below any mark and the fast path may reset
\* the head page.
MarksCover ==
  \A p \in PageIds :
    /\ \A i \in Index : slot[p][i] # Null => p \in Pages /\ i <= high_water[p]
    /\ high_water[p] > 0 => slot[p][high_water[p]] # Null

\* What callers ask is answered from the ranges that are registered: every
\* address of each is within, its base is present with its length, and
\* no other address is.
QueriesSeeAll ==
  /\ \A c \in Occupied : external_query_size(At(c).base) = At(c).len
  /\ \A a \in 1..Top :
       /\ external_is_present(a) <=> \E c \in Occupied : At(c).base = a
       /\ external_within(a) <=> \E c \in Occupied : a \in At(c).base .. (At(c).base + At(c).len - 1)

\* The counters that select the fast path count the slots in use.
CountsExact ==
  /\ count = Cardinality(Occupied)
  /\ \A p \in PageIds : used[p] = Cardinality({i \in Index : slot[p][i] # Null})

\* Two slots never hold overlapping ranges, so a base names one range.
Disjoint ==
  \A c, d \in Occupied :
    c # d => \/ At(c).base + At(c).len <= At(d).base
             \/ At(d).base + At(d).len <= At(c).base

\* The representation invariant of the registry: marks, counters and slots
\* agree and the slots hold disjoint ranges.
RegistrySound == TypeOK /\ MarksCover /\ CountsExact /\ Disjoint

\* The registry is a set of disjoint ranges and every answer is true of it:
\* a call that reports success added or removed exactly one range, one that
\* refuses changed nothing, and no register displaces another range.
Registered == INSTANCE RangeSet WITH ranges <- {At(c) : c \in Occupied}
ImplementsRangeSet == Registered!Spec
=============================================================================
