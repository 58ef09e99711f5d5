------------------------------ MODULE Directory ------------------------------
(***************************************************************************)
(* Detail::Directory<Mailbox>: indices handed out from pages of entries.    *)
(* Allocate runs under m_Mutex from end to end and is only called with its  *)
(* default argument, so each of its outcomes is one step.                   *)
(***************************************************************************)
EXTENDS Integers, FiniteSets

CONSTANTS
    MAX_PAGES,           \* 32 in the code
    ENTRIES_PER_PAGE,    \* 256 in the code
    NoActor              \* the null m_pActor of an entry

ASSUME DirectoryAssumption ==
    MAX_PAGES \in Nat \ {0} /\ ENTRIES_PER_PAGE \in Nat \ {0}

Capacity == MAX_PAGES * ENTRIES_PER_PAGE
Indices == 0 .. Capacity - 1
PageOf(i) == i \div ENTRIES_PER_PAGE

VARIABLES
    nextIndex,     \* m_iNextIndex
    maxIndex,      \* m_iMaxIndex
    reuseIndex,    \* m_iReuseIndex
    pages,         \* the allocated pages of m_Pages
    pActor         \* m_pActor of every entry

allocVars == <<nextIndex, maxIndex, reuseIndex, pages>>

DirectoryInit ==
    /\ nextIndex = 0
    /\ maxIndex = 0
    /\ reuseIndex = 0
    /\ pages = {}
    /\ pActor = [i \in Indices |-> NoActor]

\* Mailbox::IsUsed, which tells an entry without an actor for a used one.
IsUsed(i) == pActor[i] = NoActor

\* Variant: only the first page is allocated.
AllocateFirstPage(i) ==
    /\ pages' = IF pages = {} THEN {PageOf(i)} ELSE pages
    /\ maxIndex' = IF nextIndex' < i THEN i ELSE maxIndex

\* The end of Allocate.  m_iNextIndex is already past the new index here.
AllocatePage(i) ==
    /\ pages' = pages \cup {PageOf(i)}
    /\ maxIndex' = IF nextIndex' < i THEN i ELSE maxIndex

\* Variant: the next index is counted from the actors there are.
AllocateCount(i) ==
    /\ nextIndex < Capacity
    /\ i = nextIndex
    /\ nextIndex' = 1 + Cardinality({j \in Indices : pActor[j] # NoActor})
    /\ UNCHANGED reuseIndex
    /\ AllocatePage(i)

AllocateNext(i) ==
    /\ nextIndex < Capacity
    /\ i = nextIndex
    /\ nextIndex' = nextIndex + 1
    /\ UNCHANGED reuseIndex
    /\ AllocatePage(i)

\* Variant: m_iReuseIndex is not set back at the limit.
AllocateReuseOn(i) ==
    /\ nextIndex >= Capacity
    /\ i \in Indices /\ ~IsUsed(i)
    /\ \A j \in 0 .. i - 1 : IsUsed(j)
    /\ reuseIndex' = i + 1
    /\ UNCHANGED nextIndex
    /\ AllocatePage(i)

\* The first entry with ~IsUsed.
AllocateReuse(i) ==
    /\ nextIndex >= Capacity
    /\ i \in Indices /\ ~IsUsed(i)
    /\ \A j \in 0 .. i - 1 : IsUsed(j)
    /\ reuseIndex' = (i + 1) % Capacity
    /\ UNCHANGED nextIndex
    /\ AllocatePage(i)

\* No entry qualifies: index stays -1 and m_Pages is read out of its bounds.
AllocateNone ==
    /\ nextIndex >= Capacity
    /\ \A i \in Indices : IsUsed(i)
    /\ reuseIndex' = 0
    /\ UNCHANGED <<nextIndex, maxIndex, pages>>

\* GetEntry reads a page that is there.
HasEntry(i) == i \in Indices /\ PageOf(i) \in pages
=============================================================================
