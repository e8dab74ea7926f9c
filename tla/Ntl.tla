-------------------------------- MODULE Ntl --------------------------------
(***************************************************************************)
(* ntl.c: NULL-terminated lists.  A list is one block of memory with the   *)
(* pointers to its elements, a NULL, and the elements; a longer list is    *)
(* another block.  Two lists of a program are made, changed, copied,       *)
(* written into a text and read from it.                                   *)
(***************************************************************************)
EXTENDS Naturals, Sequences, FiniteSets, SequencesExt

CONSTANTS
  Values,     \* what an element may be
  MaxLength,  \* bound: elements of a list
  MaxBlocks   \* bound: blocks allocated in a behaviour

VARIABLES
  blocks,   \* the blocks allocated so far: pointers, elements, and whether it was freed
  lists,     \* the two lists of the program: a block, 0 for NULL
  meant,    \* what each of them should contain
  written   \* a text: what it says, its size by the first pass, itself

ntlVars == <<blocks, lists, meant, written>>

Init0   == "init"   \* an element after its init function
NullPtr == 0
NoText  == [of |-> <<>>, size |-> 0, text |-> <<>>]

NtlInit ==
  /\ blocks = <<>> /\ lists = <<0, 0>> /\ meant = <<<<>>, <<>>>>
  /\ written = NoText

\* ntl_calloc_init of n elements
Block(n, value) == [ptrs |-> [i \in 1 .. n + 1 |-> IF i <= n THEN i ELSE NullPtr],
                    elems |-> [i \in 1..n |-> value], freed |-> FALSE]

\* ntl_length: up to the NULL; a list that is NULL is empty.
Length(b) == IF b = 0 THEN 0 ELSE SelectInSeq(blocks[b].ptrs, LAMBDA p : p = NullPtr) - 1
Contents(b) == [i \in 1 .. Length(b) |-> blocks[b].elems[blocks[b].ptrs[i]]]

Freed(bs, b) == IF b = 0 THEN bs ELSE [bs EXCEPT ![b].freed = TRUE]

\* The elements of a list copied over the first ones of a new block.
CopiedTo(block, values) ==
  [block EXCEPT !.elems = [i \in DOMAIN block.elems |-> IF i <= Len(values) THEN values[i] ELSE block.elems[i]]]

\* A call that gives list x a new block, with the old one left or freed.
Replaced(x, block, free) ==
  /\ Len(blocks) < MaxBlocks
  /\ blocks' = Append(IF free THEN Freed(blocks, lists[x]) ELSE blocks, block)
  /\ lists' = [lists EXCEPT ![x] = Len(blocks) + 1]

\* ntl_calloc_init and ntl_malloc_init
Calloc(x) ==
  /\ lists[x] = 0
  /\ \E n \in 0..MaxLength : /\ Replaced(x, Block(n, Init0), FALSE)
                             /\ meant' = [meant EXCEPT ![x] = [i \in 1..n |-> Init0]]
  /\ UNCHANGED written

\* Mutant of Extended: the old list is not freed.
Extended_Leak(x, v) == Replaced(x, CopiedTo(Block(1 + Length(lists[x]), Init0), Append(Contents(lists[x]), v)), FALSE)

\* ntl_append2, by ntl_append
Extended(x, v) == Replaced(x, CopiedTo(Block(1 + Length(lists[x]), Init0), Append(Contents(lists[x]), v)), TRUE)

AppendValue(x) ==
  /\ Length(lists[x]) < MaxLength
  /\ \E v \in Values : Extended(x, v) /\ meant' = [meant EXCEPT ![x] = Append(meant[x], v)]
  /\ UNCHANGED written

\* Mutant of ReallocElems: all elements of the new list are initialized.
ReallocElems_All(x, n) == Block(n, Init0)

\* ntl_realloc_init: the init function is called for what is new.
ReallocElems(x, n) == CopiedTo(Block(n, Init0), Contents(lists[x]))

\* Only to more elements: with fewer it copies over the NULL.
Realloc(x) ==
  /\ \E n \in Length(lists[x]) .. MaxLength :
       /\ Replaced(x, ReallocElems(x, n), TRUE)
       /\ meant' = [meant EXCEPT ![x] = [i \in 1..n |-> IF i <= Len(meant[x]) THEN meant[x][i] ELSE Init0]]
  /\ UNCHANGED written

\* ntl_dup and ntl_fmap, of which the second one returns NULL for NULL.
Dup(x, y) ==
  /\ x # y /\ lists[x] # 0 /\ lists[y] = 0
  /\ Replaced(y, CopiedTo(Block(Length(lists[x]), Init0), Contents(lists[x])), FALSE)
  /\ meant' = [meant EXCEPT ![y] = meant[x]]
  /\ UNCHANGED written

\* ntl_free
Free(x) ==
  /\ lists[x] # 0
  /\ blocks' = Freed(blocks, lists[x]) /\ lists' = [lists EXCEPT ![x] = 0] /\ meant' = [meant EXCEPT ![x] = <<>>]
  /\ UNCHANGED written

\* Mutant of Pieces: an element delimiter after the last element.
Pieces_Comma(values) == FlattenSeq([i \in DOMAIN values |-> <<values[i], ",">>])

\* The loop of ntl_to_buf: after the last element comes last_element_delimiter, "".
Pieces(values) == FlattenSeq([i \in DOMAIN values |-> IF i = Len(values) THEN <<values[i]>> ELSE <<values[i], ",">>])

\* What ntl_to_buf returns.
Size(values) == 2 + Len(values) + (IF values = <<>> THEN 0 ELSE Len(values) - 1)

\* ntl_to_buf into a buffer of the program; without one it writes the final NUL
\* through NULL, which is why ntl_to_abuf is not an action.
ToText(x) ==
  /\ written' = IF lists[x] = 0 THEN [of |-> <<>>, size |-> 1, text |-> <<"null">>]
                ELSE LET values == Contents(lists[x])
                     IN  [of |-> meant[x], size |-> Size(values), text |-> <<"[">> \o Pieces(values) \o <<"]">>]
  /\ UNCHANGED <<blocks, lists, meant>>

\* json_to_sized_buffer_ntl: the elements of an array; for null it aborts.
Partition(marks) == SelectSeq(marks, LAMBDA m : m \notin {"[", "]", ","})

\* ntl_from_buf: no element is NULL, and the partition, a list of no elements, is
\* not freed.
FromText(x) ==
  /\ written.text \notin {<<>>, <<"null">>} /\ lists[x] = 0 /\ Len(blocks) < MaxBlocks
  /\ LET values == Partition(written.text) IN
       /\ IF values = <<>> THEN blocks' = Append(blocks, Block(0, Init0)) /\ UNCHANGED lists
          ELSE Replaced(x, CopiedTo(Block(Len(values), Init0), values), FALSE)
       /\ meant' = [meant EXCEPT ![x] = written.of]
  /\ UNCHANGED written

NtlNext == \E x, y \in {1, 2} : \/ Calloc(x) \/ AppendValue(x) \/ Realloc(x) \/ Dup(x, y)
                               \/ Free(x) \/ ToText(x) \/ FromText(x)

-----------------------------------------------------------------------------
(* Properties *)

\* A list is the sequence that the calls made it: no element is lost, repeated or
\* left uninitialized when a list grows, is copied or comes back from a text.
ListIsSequence == \A x \in {1, 2} : Contents(lists[x]) = meant[x]

\* No list of the program is freed, and every other block is: but for partitions of
\* the text of an empty array.
NoBlockLost == LET live == {b \in DOMAIN blocks : ~blocks[b].freed}
                   owned == {lists[x] : x \in {1, 2}} \ {0}
               IN  owned \subseteq live /\ \A b \in live \ owned : blocks[b].elems = <<>>

\* What ntl_to_buf returns is what it wrote, which is the text of an array.
TextFits ==
  LET n == Len(written.text) IN
    /\ written.size = n
    /\ n > 1 => \A i \in DOMAIN written.text : (written.text[i] = ",") = (i % 2 = 1 /\ i \notin {1, n})

\* A list keeps its elements, its blocks and its text while it grows, is copied and freed.
ListsAreKept ==
  /\ ListIsSequence
  /\ NoBlockLost
  /\ TextFits
=============================================================================
