----------------------------- MODULE PublicApi ------------------------------
(***************************************************************************)
(* The allocation calls of malloc.hpp and malloc-c.hpp as one thread uses  *)
(* them: plain and over-aligned blocks, the ways to give them back, and    *)
(* the ranges marked as external.  An over-aligned pointer lies inside its *)
(* block; the 16 bytes before it, its prefix, name the block.  free,       *)
(* realloc and aligned_free are handed a pointer and decide from memory    *)
(* contents which kind it is, so the model keeps those contents.           *)
(*                                                                         *)
(* The arena is one sheet of Units units of 32 bytes (__hdr_offset) at the *)
(* addresses 1 .. Units; external memory lies above it.  The sheet's       *)
(* allocator is seen through what TlsfList and BuddyList do with memory:   *)
(* where a block may start and which words are written when it is taken    *)
(* or given back.                                                          *)
(***************************************************************************)
EXTENDS ExternalRegistry, FiniteSetsExt

CONSTANTS
  Kind,         \* "tlsf" or "buddy", the allocator of the sheet
  Units,        \* length of the sheet
  Align,        \* the alignment asked for, in units
  Sizes,        \* what callers ask for, in 16 bytes
  Ways,         \* release calls the callers use: Ways[z] in a build that
                \* clears what it hands out (z, __default_zero_on_alloc) or not
  MaxHeld       \* bound: blocks and external ranges callers hold at a time

ASSUME ApiAssumption == /\ Kind \in {"tlsf", "buddy"} /\ Units \in Nat \ {0}
                        /\ Align \in Nat \ {0, 1} /\ Sizes \subseteq Nat \ {0} /\ MaxHeld \in Nat
                        /\ Ways \in [BOOLEAN -> SUBSET {"dealloc", "free", "aligned_free", "aligned_dealloc", "realloc0"}]

VARIABLES
  zeroes,       \* the build clears what it hands out; never changes
  mem,          \* [blocks, lo, hi]: the sheet, see below
  held          \* history: what callers hold, [ptr, blk, n, aligned]

\* mem.blocks: the blocks [off, len] in use.  Of every unit, mem.lo is what
\* its first 16 bytes read as a TLSF header would say: "free" if the flags
\* word is zero, else "set"; mem.hi is the address that its last 16 bytes,
\* read as the prefix of the next unit, name, or NoRaw if the guard is wrong.
apiVars == <<zeroes, mem, held>>
NoRaw == 0
Cells == 1 .. Units

Span(b) == b.off .. (b.off + b.len - 1)
Taken(m) == UNION {Span(b) : b \in m.blocks}

\* User pointer of a block, and the units of it that callers may write: a
\* TLSF header comes first, a buddy header last.
UserPtr(b) == IF Kind = "tlsf" THEN b.off + 1 ELSE b.off
LastUser(b) == IF Kind = "tlsf" THEN b.off + b.len - 1 ELSE b.off + b.len - 2
UserSize(b) == LastUser(b) - UserPtr(b) + 1

-----------------------------------------------------------------------------
(* The sheet's allocator *)

Gap(m, u) == {v \in Cells : u <= v /\ u .. v \cap Taken(m) = {}}
GapStarts(m) == {u \in Cells \ Taken(m) : u = 1 \/ (u - 1) \in Taken(m)}

\* TLSF takes the front of a free block and leaves the rest, if it can stand
\* alone, as a free block; the buddy takes an aligned power of two.
Candidates(m, n) ==
  IF Kind = "tlsf"
  THEN LET need == Max({n + 1, 2})
           cut(u) == IF Cardinality(Gap(m, u)) - need < 2 THEN Cardinality(Gap(m, u)) ELSE need
       IN {[off |-> u, len |-> cut(u)] : u \in {v \in GapStarts(m) : Cardinality(Gap(m, v)) >= need}}
  ELSE LET len == CHOOSE l \in 1 .. 2 * Units : /\ \E o \in 0 .. Units : l = 2 ^ o
                                                /\ l >= n + 1 /\ l < 2 * (n + 1)
       IN {b \in {[off |-> u, len |-> len] : u \in Cells} :
             (b.off - 1) % len = 0 /\ b.off + len - 1 <= Units /\ Span(b) \cap Taken(m) = {}}

\* What the allocator writes when it hands out b: the flags of its header and,
\* in TLSF, the header of the rest; a TLSF header has free-list links where a
\* prefix would be.  A buddy header is shorter than its unit: the last 16
\* bytes of a block are never written.
Take(m, b) ==
  LET hdrs == {b.off} \cup ({b.off + b.len} \cap (Cells \ Taken(m)))
  IN IF Kind = "tlsf"
     THEN [blocks |-> m.blocks \cup {b},
           lo |-> [u \in Cells |-> IF u = b.off THEN "set" ELSE IF u \in hdrs THEN "free" ELSE m.lo[u]],
           hi |-> [u \in Cells |-> IF u \in hdrs THEN NoRaw ELSE m.hi[u]]]
     ELSE [m EXCEPT !.blocks = @ \cup {b}]

\* coalesce_and_free: only the header that begins the merged block says free.
Give(m, b) ==
  LET rest == [m EXCEPT !.blocks = @ \ {b}]
      first == Max({u \in GapStarts(rest) : u <= b.off})
  IN IF Kind = "tlsf" THEN [rest EXCEPT !.lo[first] = "free", !.hi[first] = NoRaw] ELSE rest

\* The caller fills the units from ptr on with data.
Fill(m, b, ptr) ==
  [m EXCEPT !.lo = [u \in Cells |-> IF u \in ptr .. LastUser(b) THEN "set" ELSE @[u]],
            !.hi = [u \in Cells |-> IF u \in ptr .. LastUser(b) THEN NoRaw ELSE @[u]]]

\* The blocks that arena.pop(x) takes x to be: {} if the block check refuses
\* it, {Bogus} if it passes on data that is no header of a block in use.
Bogus == [off |-> 0, len |-> 0]
Named(m, x) ==
  LET mine == {b \in m.blocks : UserPtr(b) = x}
  IN IF Kind = "tlsf" /\ mine = {} /\ x > 1 /\ m.lo[x - 1] = "set" THEN {Bogus} ELSE mine

Pop(m, x) == IF Named(m, x) \subseteq m.blocks /\ Named(m, x) # {}
             THEN Give(m, CHOOSE b \in m.blocks : UserPtr(b) = x) ELSE m

-----------------------------------------------------------------------------
(* Queries *)

has_provenance(x) == x \in Cells
is_present(m, x) == external_is_present(x) \/ (x \in Cells /\ Named(m, x) # {})

\* __aligned_base_of: a prefix that can be read, whose guard is right, and
\* whose block is present.
AlignedBaseOf(m, x) ==
  IF x > 1 /\ m.hi[x - 1] # NoRaw /\ m.hi[x - 1] < x /\ is_present(m, m.hi[x - 1])
  THEN m.hi[x - 1] ELSE NoRaw

-----------------------------------------------------------------------------
(* Allocation *)

\* Units that n times 16 bytes need, and those that need, the alignment - 1
\* bytes to shift the pointer by and the 16 bytes of the prefix.
UnitsOf(n) == (n + 1) \div 2
AlignedUnits(n) == Align + (n + 2) \div 2

Busy == Cardinality(held) + count >= MaxHeld
Plain(b, n) == [ptr |-> UserPtr(b), blk |-> b, n |-> n, aligned |-> FALSE]

\* push: take b, and clear its user bytes if the build does.
Granted(m, b) ==
  LET t == Take(m, b)
  IN IF zeroes THEN [t EXCEPT !.lo = [u \in Cells |-> IF u \in UserPtr(b) .. LastUser(b) THEN "free" ELSE @[u]],
                              !.hi = [u \in Cells |-> IF u \in UserPtr(b) .. LastUser(b) THEN NoRaw ELSE @[u]]]
               ELSE t

\* What the caller's block holds afterwards: its data, or what was there.
Written(m, b, ptr, w) == IF w THEN Fill(m, b, ptr) ELSE m

\* balloc, alloc, malloc, calloc, salloc, fetch; w says if the caller writes.
Balloc(n, w) ==
  /\ ~Busy
  /\ \E b \in Candidates(mem, UnitsOf(n)) :
       /\ mem' = Written(Granted(mem, b), b, UserPtr(b), w)
       /\ held' = held \cup {Plain(b, n)}
  /\ UNCHANGED <<vars, zeroes>>

\* Mutant of AlignedPtr: rounded up from the block, not from behind a prefix.
AlignedPtrBare(raw) == 1 + Align * ((raw - 1 + Align - 1) \div Align)

\* The next multiple of the alignment that leaves room for the prefix.
AlignedPtr(raw) == 1 + Align * ((raw - 1) \div Align + 1)

\* aligned_balloc: aligned_alloc, posix_memalign, memalign, valloc.
AlignedBalloc(n, w) ==
  /\ ~Busy
  /\ \E b \in Candidates(mem, AlignedUnits(n)) :
       LET ptr == AlignedPtr(UserPtr(b))
           m == Granted(mem, b)
       IN /\ mem' = Written([m EXCEPT !.hi[ptr - 1] = UserPtr(b)], b, ptr, w)
          /\ held' = held \cup {[ptr |-> ptr, blk |-> b, n |-> n, aligned |-> TRUE]}
  /\ UNCHANGED <<vars, zeroes>>

-----------------------------------------------------------------------------
(* Giving back *)

\* Mutant of FreeTarget: free does not look for a prefix.
FreeTargetPlain(m, x) == x

\* free and the C realloc look for a prefix first,
FreeTarget(m, x) == IF AlignedBaseOf(m, x) # NoRaw THEN AlignedBaseOf(m, x) ELSE x

\* aligned_free asks first if the pointer is a block itself,
AlignedFreeTarget(m, x) ==
  IF is_present(m, x) THEN x ELSE AlignedBaseOf(m, x)

\* aligned_dealloc knows the alignment and trusts the prefix,
AlignedDeallocTarget(m, h) == IF h.aligned THEN m.hi[h.ptr - 1] ELSE h.ptr

\* abc::realloc to size zero and dealloc take the pointer as it is.
Target(way, h) ==
  CASE way = "free" -> FreeTarget(mem, h.ptr)
    [] way = "aligned_free" -> AlignedFreeTarget(mem, h.ptr)
    [] way = "aligned_dealloc" -> AlignedDeallocTarget(mem, h)
    [] OTHER -> h.ptr

\* dealloc is for plain pointers only.
Release(h, way) ==
  /\ h.aligned => way # "dealloc"
  /\ mem' = Pop(mem, Target(way, h))
  /\ held' = held \ {h}
  /\ UNCHANGED <<vars, zeroes>>

\* A plain block is taken, the data copied and the old block freed; the C
\* realloc does this for any size but zero, which is a free.
CRealloc(h, n) ==
  /\ \E b \in Candidates(mem, UnitsOf(n)) :
       /\ mem' = Pop(Fill(Granted(mem, b), b, UserPtr(b)), FreeTarget(mem, h.ptr))
       /\ held' = (held \ {h}) \cup {Plain(b, n)}
  /\ UNCHANGED <<vars, zeroes>>

\* abc::realloc moves an over-aligned block; a plain one stays if it is large
\* enough and more than half used.
Realloc(h, n) ==
  LET base == AlignedBaseOf(mem, h.ptr)
      stays == base = NoRaw /\ 2 * UserSize(h.blk) >= n /\ n > UserSize(h.blk)
  IN \/ /\ stays
        /\ held' = (held \ {h}) \cup {[h EXCEPT !.n = n]}
        /\ UNCHANGED <<vars, zeroes, mem>>
     \/ ~stays /\ CRealloc(h, n)

-----------------------------------------------------------------------------
(* External ranges *)

\* mark_at refuses addresses of the sheet and what register_external refuses.
MarkAt(b, n) ==
  /\ ~Busy /\ b # 0 /\ n # 0
  /\ IF has_provenance(b) THEN Refuse ELSE register_external(b, n)
  /\ UNCHANGED apiVars

UnmarkAt(b, n) ==
  /\ b # 0 /\ n # 0
  /\ IF external_is_present(b) THEN unregister_external(b, n) ELSE Refuse
  /\ UNCHANGED apiVars

-----------------------------------------------------------------------------

ApiInit ==
  /\ Init
  /\ mem = [blocks |-> {}, lo |-> [u \in Cells |-> "free"], hi |-> [u \in Cells |-> NoRaw]]
  /\ held = {}
  /\ zeroes \in BOOLEAN

ApiNext ==
  \/ \E n \in Sizes, w \in BOOLEAN : Balloc(n, w) \/ AlignedBalloc(n, w)
  \/ \E h \in held, way \in Ways[zeroes] : Release(h, way)
  \/ \E h \in held, n \in Sizes : Realloc(h, n) \/ CRealloc(h, n)
  \/ \E b \in Bases, n \in Lens : MarkAt(b, n) \/ UnmarkAt(b, n)

ApiSpec == ApiInit /\ [][ApiNext]_<<vars, apiVars>>

-----------------------------------------------------------------------------
(* Properties *)

\* free, realloc, dealloc and the aligned releases act on the block of the
\* pointer they are given: the blocks in use are those that callers hold, none
\* leaked and none released under its holder.
ReleasesOwn ==
  /\ mem.blocks = {h.blk : h \in held}
  /\ \A g, h \in held : g # h => Span(g.blk) \cap Span(h.blk) = {}

\* An over-aligned pointer is aligned, its prefix and all the bytes asked for
\* lie in the user part of its block, and the prefix still names the block,
\* whatever callers wrote and the allocator did around it.
PrefixIntact ==
  \A h \in held :
    /\ h.ptr + UnitsOf(h.n) - 1 <= LastUser(h.blk)
    /\ h.aligned => /\ (h.ptr - 1) % Align = 0
                    /\ h.ptr - 1 >= UserPtr(h.blk)
                    /\ mem.hi[h.ptr - 1] = UserPtr(h.blk)
=============================================================================
