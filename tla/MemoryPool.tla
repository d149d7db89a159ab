------------------------------ MODULE MemoryPool ------------------------------
(***************************************************************************)
(* MemoryPool (include/ashe/memory_pool.h): blocks that are handed out are *)
(* kept in the doubly linked data list, returned ones in the free list,    *)
(* both threaded through the headers of the blocks.  A block is returned   *)
(* without a search, so the links alone say which list it leaves.  Each    *)
(* operation holds m_ of its pool and is one step.  Move assignment holds  *)
(* m_ of the pool assigned to, and not that of the source, whose heads it  *)
(* reads and later writes.                                                 *)
(***************************************************************************)
EXTENDS Naturals, Sequences, FiniteSets

CONSTANTS
    Pool,
    Block,      \* what operator new can return
    SourceShared, \* whether a pool is used while it is moved from
    Null

ConstantsOK == IsFiniteSet(Block) /\ Null \notin Block /\ SourceShared \in BOOLEAN

VARIABLES
    data_element, free_element,     \* pool -> head of its list
    pre, next,                      \* of the blocks
    source,         \* pool -> the one it is being assigned from, or itself
    seen,           \* pool -> the heads read from its source
    lent,           \* history: pool -> blocks its users hold
    returned,       \* history: pool -> blocks given back to it
    gone            \* pools that were destroyed

heads == <<data_element, free_element>>
links == <<pre, next>>
move == <<source, seen>>
history == <<lent, returned>>
vars == <<heads, links, move, history, gone>>

NoHeads == [data |-> Null, free |-> Null]

TypeOK ==
    /\ data_element \in [Pool -> Block \cup {Null}]
    /\ free_element \in [Pool -> Block \cup {Null}]
    /\ pre \in [Block -> Block \cup {Null}] /\ next \in [Block -> Block \cup {Null}]
    /\ source \in [Pool -> Pool]
    /\ seen \in [Pool -> [data : Block \cup {Null}, free : Block \cup {Null}]]
    /\ lent \in [Pool -> SUBSET Block] /\ returned \in [Pool -> SUBSET Block]
    /\ gone \subseteq Pool

Init ==
    /\ data_element = [p \in Pool |-> Null] /\ free_element = [p \in Pool |-> Null]
    /\ pre = [b \in Block |-> Null] /\ next = [b \in Block |-> Null]
    /\ source = [p \in Pool |-> p] /\ seen = [p \in Pool |-> NoHeads]
    /\ lent = [p \in Pool |-> {}] /\ returned = [p \in Pool |-> {}]
    /\ gone = {}

\* Writing through a null pointer is no step: Null is not a block.
Link(f, b, to) == [c \in Block |-> IF c = b THEN to ELSE f[c]]

InMemory == UNION {lent[p] \cup returned[p] : p \in Pool}

\* No move assignment holds m_ of p.  That nobody uses a pool that is being moved
\* from is up to the callers, and is so unless SourceShared.
MayUse(p) ==
    /\ p \notin gone /\ source[p] = p
    /\ SourceShared \/ \A r \in Pool : r # p => source[r] # p
-----------------------------------------------------------------------------
\* The list of block b in front of the data list of p.
PutInData(p, b, pre0, next0) ==
    /\ pre' = Link(Link(pre0, data_element[p], b), b, Null)
    /\ next' = Link(next0, b, data_element[p])
    /\ data_element' = [data_element EXCEPT ![p] = b]

\* allocate with an empty free list: allocateBlock.
AllocateNew(p, b) ==
    /\ MayUse(p)
    /\ free_element[p] = Null
    /\ b \notin InMemory
    /\ PutInData(p, b, pre, next)
    /\ lent' = [lent EXCEPT ![p] = @ \cup {b}]
    /\ UNCHANGED <<free_element, move, returned, gone>>

\* allocate from the free list.
AllocateFree(p) ==
    LET b == free_element[p] IN
    /\ MayUse(p)
    /\ b # Null
    /\ free_element' = [free_element EXCEPT ![p] = next[b]]
    /\ PutInData(p, b, Link(pre, next[b], Null), next)
    /\ lent' = [lent EXCEPT ![p] = @ \cup {b}]
    /\ returned' = [returned EXCEPT ![p] = @ \ {b}]
    /\ UNCHANGED <<move, gone>>

\* deallocate: out of the data list by its own links, in front of the free one.
deallocate(p, b) ==
    /\ MayUse(p)
    /\ b \in lent[p]
    /\ pre' = Link(Link(Link(pre, next[b], pre[b]), free_element[p], b), b, Null)
    /\ next' = Link(Link(next, pre[b], next[b]), b, free_element[p])
    /\ data_element' = [data_element EXCEPT ![p] = IF pre[b] = Null THEN next[b] ELSE @]
    /\ free_element' = [free_element EXCEPT ![p] = b]
    /\ lent' = [lent EXCEPT ![p] = @ \ {b}]
    /\ returned' = [returned EXCEPT ![p] = @ \cup {b}]
    /\ UNCHANGED <<move, gone>>

Swap(f, p, q) == [f EXCEPT ![p] = f[q], ![q] = f[p]]

\* operator=(MemoryPool&&), in two steps; the move constructor is the case of an
\* empty p.  The blocks in use go along with the lists.
moveAssign(p, q) ==
    /\ p # q /\ MayUse(p)
    /\ IF SourceShared THEN q \notin gone ELSE MayUse(q)
    /\ source' = [source EXCEPT ![p] = q]
    /\ seen' = [seen EXCEPT ![p] = [data |-> data_element[q], free |-> free_element[q]]]
    /\ UNCHANGED <<heads, links, history, gone>>

MoveEnds(p) ==
    LET q == source[p] IN
    /\ p # q
    /\ data_element' = [data_element EXCEPT ![p] = seen[p].data, ![q] = data_element[p]]
    /\ free_element' = [free_element EXCEPT ![p] = seen[p].free, ![q] = free_element[p]]
    /\ lent' = Swap(lent, p, q)
    /\ returned' = Swap(returned, p, q)
    /\ source' = [source EXCEPT ![p] = p] /\ seen' = [seen EXCEPT ![p] = NoHeads]
    /\ UNCHANGED <<links, gone>>

\* The blocks from b on.
ChainFrom(b) ==
    LET walk[n \in 0 .. Cardinality(Block)] ==
            IF n = 0 THEN IF b = Null THEN <<>> ELSE <<b>>
            ELSE LET w == walk[n - 1] IN
                 IF w = <<>> THEN w
                 ELSE IF next[w[Len(w)]] = Null THEN w ELSE Append(w, next[w[Len(w)]])
    IN  walk[Cardinality(Block)]

Blocks(c) == {c[i] : i \in DOMAIN c}

\* The destructor walks both lists and deletes what it finds.
Delete(p) ==
    LET found == Blocks(ChainFrom(data_element[p])) \cup Blocks(ChainFrom(free_element[p]))
    IN
    /\ MayUse(p)
    /\ gone' = gone \cup {p}
    /\ lent' = [lent EXCEPT ![p] = @ \ found]
    /\ returned' = [returned EXCEPT ![p] = @ \ found]
    /\ UNCHANGED <<heads, links, move>>
-----------------------------------------------------------------------------
AllGone == gone = Pool /\ UNCHANGED vars

Next ==
    \/ \E p \in Pool :
          \/ \E b \in Block : AllocateNew(p, b) \/ deallocate(p, b)
          \/ AllocateFree(p)
          \/ \E q \in Pool : moveAssign(p, q)
          \/ MoveEnds(p)
          \/ Delete(p)
    \/ AllGone

Spec == Init /\ [][Next]_vars
-----------------------------------------------------------------------------
\* The two lists of a pool hold exactly the blocks its users have and those
\* they gave back, each once and linked both ways: no block is ever lent
\* twice, and the destructor frees all.  With SourceShared it is false: a block
\* allocated from the source during a move is in neither list.
Linked(c) ==
    /\ Cardinality(Blocks(c)) = Len(c)
    /\ \A i \in DOMAIN c : pre[c[i]] = IF i = 1 THEN Null ELSE c[i - 1]

ListsHoldBlocks ==
    \A p \in Pool :
        IF p \in gone THEN lent[p] = {} /\ returned[p] = {}
        ELSE /\ Linked(ChainFrom(data_element[p]))
             /\ Blocks(ChainFrom(data_element[p])) = lent[p]
             /\ Linked(ChainFrom(free_element[p]))
             /\ Blocks(ChainFrom(free_element[p])) = returned[p]
=============================================================================
