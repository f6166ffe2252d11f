------------------------------ MODULE Offsets ------------------------------
(***************************************************************************)
(* Cards and the object-start offset table of the old generation           *)
(* (src/src/memory/cards.rs and offsets.rs).  Addresses count words.       *)
(*                                                                         *)
(* One table entry per card tells where to find an object header at or     *)
(* below the card's first word.  An entry up to MAX_DIRECT is a distance   *)
(* back in words; a larger one sends the reader back a number of cards.    *)
(***************************************************************************)
EXTENDS Integers

CONSTANTS
    OldStart,        \* old.bounds.start
    OldEnd,          \* old.bounds.end: the reservation, which both tables cover
    CardWords,       \* CARD_SIZE in words (64 in the code)
    MAX_DIRECT,      \* largest direct entry (64)
    MAX_CHAIN_SKIP   \* most cards one chain entry skips (191)

ASSUME OldAssumption == OldStart \in Nat /\ OldEnd \in Nat /\ OldStart < OldEnd
ASSUME CardAssumption == CardWords \in Nat \ {0}
(* A direct entry reaches back over one whole card; an entry fits a byte. *)
ASSUME EntryAssumption ==
    /\ MAX_DIRECT \in Nat /\ CardWords <= MAX_DIRECT
    /\ MAX_CHAIN_SKIP \in Nat \ {0}
    /\ MAX_DIRECT + MAX_CHAIN_SKIP <= 255

LesserOf(a, b) == IF a <= b THEN a ELSE b

CardIndex(addr) == (addr - OldStart) \div CardWords
CardBase(i) == OldStart + i * CardWords
CardEnd(i) == CardBase(i + 1)
Cards == 0 .. CardIndex(OldEnd - 1)

\* The cards an address range [first, end) overlaps (record_multistores).
CardsOf(first, end) == {i \in Cards : first < end /\ CardIndex(first) <= i /\ i <= CardIndex(end - 1)}

\* A chain entry that skips past the card after the header.
EntrySkipsTooFar(i, addr) ==
    LET distance == CardBase(i) - addr
    IN  IF distance <= MAX_DIRECT
        THEN distance
        ELSE MAX_DIRECT + LesserOf(i - CardIndex(addr) + 1, MAX_CHAIN_SKIP)

\* The entry of card i, inside the object at addr that starts on an earlier card.
Entry(i, addr) ==
    LET distance == CardBase(i) - addr
    IN  IF distance <= MAX_DIRECT
        THEN distance
        ELSE MAX_DIRECT + LesserOf(i - (CardIndex(addr) + 1), MAX_CHAIN_SKIP)

\* record_object that stops one card short of the object's last card.
RecordObjectShort(offs, addr, size) ==
    LET c0 == CardIndex(addr)
        last == CardIndex(addr + size - 1)
    IN  [i \in Cards |->
            CASE i = c0 /\ addr = CardBase(c0) -> 0
              [] c0 < i /\ i < last -> Entry(i, addr)
              [] OTHER -> offs[i]]

\* record_object: a card the object starts exactly on gets 0, the cards its body
\* runs into get an entry back to it, every other entry stays.
RecordObject(offs, addr, size) ==
    LET c0 == CardIndex(addr)
        last == CardIndex(addr + size - 1)
    IN  [i \in Cards |->
            CASE i = c0 /\ addr = CardBase(c0) -> 0
              [] c0 < i /\ i <= last -> Entry(i, addr)
              [] OTHER -> offs[i]]

\* clear_through: entries up to the card below top are zeroed.
ClearThrough(offs, top) ==
    [i \in Cards |-> IF top > OldStart /\ i <= CardIndex(top - 1) THEN 0 ELSE offs[i]]

\* resolve: follow chain entries back to a direct one.
Resolve(offs, card) ==
    LET header[i \in Cards] ==
            IF offs[i] <= MAX_DIRECT
            THEN CardBase(i) - offs[i]
            ELSE IF i - (offs[i] - MAX_DIRECT) \in 0 .. i - 1
                 THEN header[i - (offs[i] - MAX_DIRECT)]
                 ELSE -1    \* the chain walked before old.bounds.start
    IN  header[card]

=============================================================================
