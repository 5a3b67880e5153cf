-------------------------------- MODULE Nbt --------------------------------
(***************************************************************************)
(* NBT documents: the tree (crates/nbt/src/tag.rs), the writer (write.rs)  *)
(* and the reader (read.rs), both by recursive descent under a depth       *)
(* limit, the reader also under a node budget.  A document is either built *)
(* with the tree's operations, written and read back, or a peer supplies   *)
(* bytes one at a time and the reader is asked after each.                 *)
(*                                                                         *)
(* A byte has Base values and the integers of 16, 32 and 64 bits have the  *)
(* widths W16, W32 and W64; the layout is that of the code.                *)
(***************************************************************************)
EXTENDS Integers, Sequences, FiniteSets

LOCAL INSTANCE SequencesExt

CONSTANTS
    Base,              \* byte values (256)
    W16, W32, W64,     \* bytes of a 16, 32 and 64-bit integer
    MAX_DEPTH,
    MAX_TOTAL_NODES,
    InvalidBytes,      \* bytes that occur in no UTF-8 string
    InputBytes,        \* bytes the peer sends
    Names,             \* names used in building documents
    Leaves,            \* tags without children used in building
    MaxBytes,          \* bound: bytes the peer sends
    MaxNodes           \* bound: tags of a built document

ASSUME NbtAssumption ==
    /\ {Base, W16, W32, W64, MAX_DEPTH, MAX_TOTAL_NODES} \subseteq Nat \ {0}
    /\ Base > 12 /\ InputBytes \subseteq 0..(Base - 1)

VARIABLES
    form,     \* which of the root functions is used
    tag,      \* the tag under construction
    src,      \* the bytes written, or received so far
    result    \* what reading src returns

vars == <<form, tag, src, result>>

-----------------------------------------------------------------------------
(***************************************************************************)
(* The tree.  Every tag has the same fields: the numbers or bytes of a     *)
(* leaf, the element type of a list, the names of a compound's entries,    *)
(* and the items of either.                                                *)
(***************************************************************************)
End == 0
Byte == 1
Short == 2
Int32 == 3
Long == 4
Float == 5
Double == 6
ByteArray == 7
String == 8
List == 9
Compound == 10
IntArray == 11
LongArray == 12

TagId == End..LongArray

Leaf(id, data) == [id |-> id, data |-> data, elem |-> End, names |-> <<>>, items |-> <<>>]

NbtCompound == Leaf(Compound, <<>>)

NbtList(element_type, items) == [Leaf(List, <<>>) EXCEPT !.elem = element_type, !.items = items]

push(compound, name, value) ==
    [compound EXCEPT !.names = Append(@, name), !.items = Append(@, value)]

Has(compound, name) == name \in {compound.names[i] : i \in DOMAIN compound.names}

\* The first match.
Find(compound, name) ==
    CHOOSE i \in DOMAIN compound.names :
        compound.names[i] = name /\ \A j \in 1..(i - 1) : compound.names[j] # name

\* Fault: appends without looking for the name.
insert_Appends(compound, name, value) == push(compound, name, value)

insert(compound, name, value) ==
    IF Has(compound, name) THEN [compound EXCEPT !.items[Find(compound, name)] = value]
    ELSE push(compound, name, value)

\* Fault: an empty list forgets the type it was declared with.
from_parts_Untyped(element_type, items) ==
    NbtList(IF items = <<>> THEN End ELSE element_type, items)

from_parts(element_type, items) == NbtList(element_type, items)

\* NbtList::new refuses anything else.
Homogeneous(items) == \A i \in DOMAIN items : items[i].id = items[1].id

-----------------------------------------------------------------------------
(***************************************************************************)
(* Big-endian integers.                                                    *)
(***************************************************************************)
Unsigned(bytes) == FoldLeft(LAMBDA n, byte : n * Base + byte, 0, bytes)

Signed(bytes) ==
    LET n == Unsigned(bytes)
        range == Base ^ Len(bytes)
    IN  IF 2 * n >= range THEN n - range ELSE n

BigEndian(value, width) ==
    [i \in 1..width |-> ((value % (Base ^ width)) \div (Base ^ (width - i))) % Base]

\* Bytes of a number, or of one element of an array.
Size(id) == CASE id \in {Byte, ByteArray} -> 1
              [] id = Short -> W16
              [] id \in {Int32, Float, IntArray} -> W32
              [] id \in {Long, Double, LongArray} -> W64

Numbers == {Byte, Short, Int32, Long, Float, Double}
Arrays == {ByteArray, IntArray, LongArray}

Take(bytes, n) == SubSeq(bytes, 1, n)
Drop(bytes, n) == SubSeq(bytes, n + 1, Len(bytes))

-----------------------------------------------------------------------------
(***************************************************************************)
(* The writer.                                                             *)
(***************************************************************************)
Written(bytes) == [error |-> "none", bytes |-> bytes]
Unwritten(why) == [error |-> why, bytes |-> <<>>]

\* `first?; second`.
Then(first, second) ==
    IF first.error # "none" THEN first
    ELSE IF second.error # "none" THEN second
    ELSE Written(first.bytes \o second.bytes)

InTurn(writes) == FoldLeft(Then, Written(<<>>), writes)

write_nbt_string(value) ==
    IF Len(value) >= Base ^ W16 THEN Unwritten("StringTooLong")
    ELSE Written(BigEndian(Len(value), W16) \o value)

array_len(len) ==
    IF 2 * len >= Base ^ W32 THEN Unwritten("ArrayTooLong") ELSE Written(BigEndian(len, W32))

\* Fault: one level short.
WriteTooDeep_OffByOne(depth) == depth >= MAX_DEPTH

\* The guard of write_compound_body and of write_payload.
WriteTooDeep(depth) == depth > MAX_DEPTH

RECURSIVE write_payload(_, _)

write_compound_body(value, depth) ==
    IF WriteTooDeep(depth) THEN Unwritten("DepthExceeded")
    ELSE Then(InTurn([i \in DOMAIN value.items |->
                        InTurn(<<Written(<<value.items[i].id>>),
                                 write_nbt_string(value.names[i]),
                                 write_payload(value.items[i], depth)>>)]),
              Written(<<End>>))

write_payload(t, depth) ==
    IF WriteTooDeep(depth) THEN Unwritten("DepthExceeded")
    ELSE CASE t.id \in Numbers -> Written(BigEndian(t.data[1], Size(t.id)))
           [] t.id = String -> write_nbt_string(t.data)
           [] t.id \in Arrays ->
                Then(array_len(Len(t.data)),
                     Written(FlattenSeq([i \in DOMAIN t.data |-> BigEndian(t.data[i], Size(t.id))])))
           [] t.id = List ->
                InTurn(<<Written(<<t.elem>>), array_len(Len(t.items)),
                         InTurn([i \in DOMAIN t.items |-> write_payload(t.items[i], depth + 1)])>>)
           [] t.id = Compound -> write_compound_body(t, depth + 1)

write_network_root(value) == Then(Written(<<Compound>>), write_compound_body(value, 1))

write_named_root(name, value) ==
    InTurn(<<Written(<<Compound>>), write_nbt_string(name), write_compound_body(value, 1)>>)

-----------------------------------------------------------------------------
(***************************************************************************)
(* The reader.  A field is a value and the rest of the input; a tag comes  *)
(* with the running count of nodes as well.                                *)
(***************************************************************************)
Field(value, rest) == [error |-> "none", value |-> value, rest |-> rest]
NoField(why) == [error |-> why, value |-> 0, rest |-> <<>>]

Ok(t, rest, nodes) == [error |-> "none", tag |-> t, rest |-> rest, nodes |-> nodes]
Err(why) == [error |-> why, tag |-> NbtCompound, rest |-> <<>>, nodes |-> 0]

\* Fault: the end of the input closes a compound.
read_tag_id_Lenient(bytes) ==
    IF bytes = <<>> THEN Field(End, <<>>)
    ELSE IF bytes[1] \notin TagId THEN NoField("UnknownTag")
    ELSE Field(bytes[1], Tail(bytes))

read_tag_id(bytes) ==
    IF bytes = <<>> THEN NoField("UnexpectedEof")
    ELSE IF bytes[1] \notin TagId THEN NoField("UnknownTag")
    ELSE Field(bytes[1], Tail(bytes))

read_nbt_string(bytes) ==
    LET len == Unsigned(Take(bytes, W16))
        rest == Drop(bytes, W16)
    IN  IF Len(bytes) < W16 THEN NoField("UnexpectedEof")
        ELSE IF Len(rest) < len THEN NoField("LengthExceedsInput")
        ELSE IF \E i \in 1..len : rest[i] \in InvalidBytes THEN NoField("InvalidUtf8")
        ELSE Field(Take(rest, len), Drop(rest, len))

read_length(bytes, min_element_size) ==
    LET len == Signed(Take(bytes, W32))
        rest == Drop(bytes, W32)
    IN  IF Len(bytes) < W32 THEN NoField("UnexpectedEof")
        ELSE IF len < 0 THEN NoField("NegativeLength")
        ELSE IF len * min_element_size > Len(rest) THEN NoField("LengthExceedsInput")
        ELSE Field(len, rest)

read_number(bytes, id, nodes) ==
    IF Len(bytes) < Size(id) THEN Err("UnexpectedEof")
    ELSE Ok(Leaf(id, <<Signed(Take(bytes, Size(id)))>>), Drop(bytes, Size(id)), nodes)

\* The `?` of the code: an error ends the read, anything else goes on.
Try(outcome, Rest(_)) == IF outcome.error # "none" THEN Err(outcome.error) ELSE Rest(outcome)

read_string(bytes, nodes) ==
    Try(read_nbt_string(bytes),
        LAMBDA value : Ok(Leaf(String, value.value), value.rest, nodes))

read_array(bytes, id, nodes) ==
    Try(read_length(bytes, Size(id)), LAMBDA len :
        Ok(Leaf(id, [i \in 1..len.value |->
                        Signed(SubSeq(len.rest, (i - 1) * Size(id) + 1, i * Size(id)))]),
           Drop(len.rest, len.value * Size(id)), nodes))

min_element_size(element_type) ==
    CASE element_type = End -> 0
      [] element_type \in Numbers -> Size(element_type)
      [] OTHER -> 1

\* Fault: a compound of two entries is not looked at.
reject_duplicate_keys_Pair(compound) ==
    Len(compound.names) > 2 /\ ~IsInjective(compound.names)

\* Sorting brings equal names together.
reject_duplicate_keys(compound) ==
    Len(compound.names) > 1 /\ ~IsInjective(compound.names)

RECURSIVE read_payload(_, _, _, _)
RECURSIVE read_entries(_, _, _, _)
RECURSIVE read_items(_, _, _, _, _)

\* The loop over a compound's entries, up to its End.
read_entries(bytes, compound, depth, nodes) ==
    Try(read_tag_id(bytes), LAMBDA id :
        IF id.value = End
        THEN IF reject_duplicate_keys(compound) THEN Err("DuplicateKey")
             ELSE Ok(compound, id.rest, nodes)
        ELSE Try(read_nbt_string(id.rest), LAMBDA name :
             Try(read_payload(name.rest, id.value, depth, nodes), LAMBDA value :
             read_entries(value.rest, push(compound, name.value, value.tag), depth, value.nodes))))

read_compound_body(bytes, depth, nodes) ==
    IF depth > MAX_DEPTH THEN Err("DepthExceeded")
    ELSE read_entries(bytes, NbtCompound, depth, nodes)

\* The loop over the elements a list has left.
read_items(bytes, list, left, depth, nodes) ==
    IF left = 0 THEN Ok(from_parts(list.elem, list.items), bytes, nodes)
    ELSE Try(read_payload(bytes, list.elem, depth, nodes), LAMBDA item :
         read_items(item.rest, NbtList(list.elem, Append(list.items, item.tag)),
                    left - 1, depth, item.nodes))

read_list(bytes, depth, nodes) ==
    Try(read_tag_id(bytes), LAMBDA element_type :
    Try(read_length(element_type.rest, min_element_size(element_type.value)), LAMBDA len :
        IF element_type.value = End /\ len.value # 0 THEN Err("InvalidListElementType")
        ELSE read_items(len.rest, NbtList(element_type.value, <<>>), len.value, depth + 1, nodes)))

\* End never gets here: it ends a compound, and a list of it is empty.
read_payload(bytes, id, depth, nodes) ==
    IF depth > MAX_DEPTH THEN Err("DepthExceeded")
    ELSE IF nodes + 1 > MAX_TOTAL_NODES THEN Err("TooManyNodes")
    ELSE CASE id \in Numbers -> read_number(bytes, id, nodes + 1)
           [] id = String -> read_string(bytes, nodes + 1)
           [] id \in Arrays -> read_array(bytes, id, nodes + 1)
           [] id = List -> read_list(bytes, depth, nodes + 1)
           [] id = Compound -> read_compound_body(bytes, depth + 1, nodes + 1)

\* Stands for None in what read_optional_network_root returns.
NoDocument == Leaf(End, <<>>)

\* read_network_root, read_optional_network_root and read_named_root; the name
\* of the root is kept in its data.
read_root(bytes) ==
    Try(read_tag_id(bytes), LAMBDA id :
        IF form = "optional" /\ id.value = End THEN Ok(NoDocument, id.rest, 0)
        ELSE IF id.value # Compound THEN Err("RootNotCompound")
        ELSE IF form # "named" THEN read_compound_body(id.rest, 1, 0)
        ELSE Try(read_nbt_string(id.rest), LAMBDA name :
             Try(read_compound_body(name.rest, 1, 0), LAMBDA root :
             [root EXCEPT !.tag.data = name.value])))

write_root(name, value) ==
    IF form = "named" THEN write_named_root(name, value) ELSE write_network_root(value)

-----------------------------------------------------------------------------
(***************************************************************************)
(* Tags counted and measured independently of the reader's counters: a     *)
(* compound or list is one level more than the deepest of its items.       *)
(***************************************************************************)
RECURSIVE Subtags(_)
Subtags(t) == FoldLeft(LAMBDA sum, item : sum + 1 + Subtags(item), 0, t.items)

RECURSIVE Levels(_)
Levels(t) ==
    IF t.id \notin {List, Compound} THEN 0
    ELSE 1 + FoldLeft(LAMBDA most, item : IF Levels(item) > most THEN Levels(item) ELSE most,
                      0, t.items)

RECURSIVE Sound(_)
Sound(t) ==
    /\ t.id = Compound => IsInjective(t.names)
    /\ t.id = List => \A i \in DOMAIN t.items : t.items[i].id = t.elem
    /\ \A i \in DOMAIN t.items : Sound(t.items[i])

-----------------------------------------------------------------------------
(***************************************************************************)
(* Building, writing and receiving.                                        *)
(***************************************************************************)
Building == src = <<>>

Build(t) == /\ Building /\ Subtags(t) <= MaxNodes
            /\ tag' = t
            /\ UNCHANGED <<form, src, result>>

Insert(name, value) == tag.id = Compound /\ Build(insert(tag, name, value))

\* The tag becomes the one entry of a compound, or an element of a list.
IntoCompound(name) == Build(insert(NbtCompound, name, tag))

\* NbtList::new of an empty vector declares the element type End.
IntoList(items) ==
    /\ Homogeneous(items)
    /\ Build(NbtList(IF items = <<>> THEN End ELSE items[1].id, items))

\* The document is written and, if that succeeds, read back from the bytes.
Write(name) ==
    LET bytes == write_root(name, tag).bytes
    IN  /\ Building /\ tag.id = Compound
        /\ write_root(name, tag).error = "none"
        /\ src' = bytes
        /\ result' = read_root(bytes)
        /\ UNCHANGED <<form, tag>>

\* The input ended too early: more bytes may settle the matter.
Incomplete(why) == why \in {"UnexpectedEof", "LengthExceedsInput"}

Receive(byte) ==
    /\ tag = NbtCompound /\ Incomplete(result.error)
    /\ Len(src) < MaxBytes
    /\ src' = Append(src, byte)
    /\ result' = read_root(src')
    /\ UNCHANGED <<form, tag>>

Init ==
    /\ form \in {"network", "named", "optional"}
    /\ tag = NbtCompound
    /\ src = <<>>
    /\ result = read_root(<<>>)

Next ==
    \/ \E name \in Names, leaf \in Leaves : Insert(name, leaf)
    \/ \E name \in Names : IntoCompound(name)
    \/ \E items \in {<<>>, <<tag>>} \cup {<<tag, leaf>> : leaf \in Leaves \cup {tag}} : IntoList(items)
    \/ \E name \in Names : Write(name)
    \/ \E byte \in InputBytes : Receive(byte)

Spec == Init /\ [][Next]_vars

-----------------------------------------------------------------------------
(***************************************************************************)
(* Properties.                                                             *)
(***************************************************************************)
Decoded == result.error = "none" /\ result.tag # NoDocument

\* A document that is read has no compound with two entries of one name, so
\* `get` and iteration agree on it, no list of mixed types, no more tags than
\* the budget and no more levels than the depth limit and one: whatever the
\* mixture of lists and compounds that leads there (read_payload,
\* read_compound_body, reject_duplicate_keys).
DecodedSound ==
    Decoded => /\ Sound(result.tag)
               /\ Subtags(result.tag) = result.nodes
               /\ result.nodes <= MAX_TOTAL_NODES
               /\ Levels(result.tag) <= MAX_DEPTH + 1

\* The reader accepts one encoding of a document only, the writer's: what was
\* read can be written, under the same depth limit, and gives back the bytes
\* consumed, with what followed them left over.
Canonical ==
    Decoded =>
        LET again == write_root(result.tag.data, result.tag)
        IN  again.error = "none" /\ again.bytes \o result.rest = src

\* A document that can be built and written is read back as it was, however it
\* was put together; only the node budget, which the writer does not have, may
\* stand in the way.
WrittenReadsBack ==
    tag.id = Compound /\ ~Building /\ tag # NbtCompound =>
        IF Subtags(tag) > MAX_TOTAL_NODES THEN result.error = "TooManyNodes"
        ELSE result.error = "none" /\ [result.tag EXCEPT !.data = <<>>] = tag /\ result.rest = <<>>

\* The writer's depth limit is the one promised: up to MAX_DEPTH levels are
\* never refused for it and more than one beyond always are, in any mixture of
\* lists and compounds.
WriterDepth ==
    tag.id = Compound =>
        LET why == write_network_root(tag).error
        IN  /\ Levels(tag) <= MAX_DEPTH => why # "DepthExceeded"
            /\ Levels(tag) > MAX_DEPTH + 1 => why # "none"

\* A verdict does not depend on what follows the document: once the reader has
\* accepted or refused for a reason other than the end of its input, one more
\* byte changes nothing but the rest.
VerdictFinal ==
    ~Incomplete(result.error) =>
        \A byte \in InputBytes :
            LET next == read_root(Append(src, byte))
            IN  /\ next.error = result.error
                /\ result.error = "none" =>
                       next = [result EXCEPT !.rest = Append(@, byte)]

=============================================================================
