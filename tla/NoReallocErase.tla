--------------------------- MODULE NoReallocErase ---------------------------
(***************************************************************************)
(* stdVectorNoReallocErase.hpp: an element leaves a vector by being        *)
(* swapped with the last one, which is then popped.                        *)
(***************************************************************************)
EXTENDS Integers, Sequences

LOCAL INSTANCE SequencesExt

\* Mutant: the last element is popped, the swap forgotten.
EraseLast(container, it) == [i \in 1..(Len(container) - 1) |-> container[i]]

\* stdVectorNoReallocEraseByIterator, the iterator being an index of the
\* vector: the other elements stay where they are, but for the last one.
EraseByIterator(container, it) ==
  [i \in 1..(Len(container) - 1) |->
     IF i = it THEN container[Len(container)] ELSE container[i]]

\* std::find_if with a callback that compares with one value, as all the
\* callbacks of this code do: the first such index.
FirstIndex(container, value) ==
  CHOOSE i \in DOMAIN container :
    container[i] = value /\ \A j \in 1..(i - 1) : container[j] # value

\* stdVectorNoReallocEraseByCallback and stdVectorNoReallocEraseByValue: the
\* vector is left alone when nothing is found.
EraseByValue(container, value) ==
  IF Contains(container, value)
    THEN EraseByIterator(container, FirstIndex(container, value))
    ELSE container

\* What the two functions return: whether something was erased.
WasErased(container, value) == Contains(container, value)
=============================================================================
