---------------------------- MODULE BinaryString ----------------------------
(***************************************************************************)
(* lab31/v2: strings of bytes in memory of their own, with operations that *)
(* allocate and operations that rely on what an earlier one allocated.     *)
(* A call is made only with the positions and operands it is meant for;    *)
(* the model then compares the memory with the text the calls stand for.   *)
(***************************************************************************)
EXTENDS Integers, Sequences

CONSTANTS
    Strings,   \* the objects
    Bytes,
    Slack,     \* what mallocNeedSize and others allocate beyond the need, 10
    MaxLength  \* bound on the length of a text

ASSUME SlackAssumption == Slack \in Nat /\ MaxLength \in Nat

Junk == "junk"   \* a byte nobody wrote
Texts == UNION {[1..n -> Bytes] : n \in 0..MaxLength}

VARIABLES
    obj,    \* each object: the cells of _data, whether it is "null", "live" or
            \* "dangling", _dataSize and _mallocedSize
    text,   \* what each object is to hold
    stray   \* memory was used that is not the object's

vars == <<obj, text, stray>>

Null == [cells |-> <<>>, held |-> "null", size |-> 0, malloced |-> 0]
Fresh(data) == [cells |-> data, held |-> "live", size |-> Len(data), malloced |-> Len(data)]
Held(n) == [k \in 1..n |-> Junk]

\* cells with src written behind the first at cells.
Over(cells, at, src) ==
    [k \in DOMAIN cells |-> IF k - at \in DOMAIN src THEN src[k - at] ELSE cells[k]]
Room(x, n) == n = 0 \/ (x.held = "live" /\ n <= Len(x.cells))
\* Bytes from .. to - 1 of an object, and its text by its own size.
Slice(x, from, to) == IF Room(x, to) THEN SubSeq(x.cells, from + 1, to) ELSE <<>>
Content(x) == Slice(x, 0, x.size)
Readable(x) == Room(x, x.size)
Deletable(x) == x.held # "dangling"

Init ==
    /\ obj = [s \in Strings |-> Null]
    /\ text = [s \in Strings |-> <<>>]
    /\ stray = FALSE

\* An operation leaves x in a, whose text is now t; ok says that it kept to its memory.
Becomes(a, x, t, ok) ==
    /\ obj' = [obj EXCEPT ![a] = x]
    /\ text' = [text EXCEPT ![a] = t]
    /\ stray' = (stray \/ ~ok)

-----------------------------------------------------------------------------
(* Operations that bring their own memory.                                 *)

\* A new object in the place of an old one, which is destroyed first.
Construct(a) ==
    \E data \in Texts :
        Becomes(a, IF data = <<>> THEN Null ELSE Fresh(data), data, Deletable(obj[a]))

CopyConstruct(a, o) ==
    a # o /\ Becomes(a, Fresh(Content(obj[o])), text[o], Deletable(obj[a]) /\ Readable(obj[o]))

\* The old data is deleted before the other's is read: not for the object itself.
Assign(a, o) ==
    a # o /\ Becomes(a, Fresh(Content(obj[o])), text[o], Deletable(obj[a]) /\ Readable(obj[o]))

\* The operand is a copy, so it may be the object itself.
Add(a, o) ==
    /\ Len(text[a]) + Len(text[o]) <= MaxLength
    /\ Becomes(a, Fresh(Content(obj[a]) \o Content(obj[o])), text[a] \o text[o],
               Deletable(obj[a]) /\ Readable(obj[a]) /\ Readable(obj[o]))

\* a = o + a, by way of a temporary object.
AssignSum(a, o) ==
    /\ Len(text[a]) + Len(text[o]) <= MaxLength
    /\ Becomes(a, Fresh(Content(obj[o]) \o Content(obj[a])), text[o] \o text[a],
               Deletable(obj[a]) /\ Readable(obj[a]) /\ Readable(obj[o]))

\* a = o.subBinaryString(from, to), which writes the size of the result into
\* _mallocedSize of o.
subBinaryString(a, o) ==
    /\ a # o
    /\ \E to \in 0..Len(text[o]) : \E from \in 0..to :
         /\ obj' = [obj EXCEPT ![o].malloced = to - from, ![a] = Fresh(Slice(obj[o], from, to))]
         /\ text' = [text EXCEPT ![a] = SubSeq(text[o], from + 1, to)]
         /\ stray' = (stray \/ ~(Room(obj[o], to) /\ Deletable(obj[a])))

\* The old memory is lost, not deleted.
copyAndCreateData(a, o) ==
    /\ a # o
    /\ Becomes(a, Fresh(Content(obj[o])), text[o], Readable(obj[o]))

mallocNeedSize(a) ==
    \E n \in 0..MaxLength :
        Becomes(a, [cells |-> Held(n + Slack), held |-> "live", size |-> 0, malloced |-> n + Slack],
                <<>>, TRUE)

deleteMallocedBuf(a) ==
    Becomes(a, [obj[a] EXCEPT !.cells = <<>>, !.held = "dangling", !.size = 0, !.malloced = 0],
            <<>>, Deletable(obj[a]))

deleteData(a) == Becomes(a, Null, <<>>, Deletable(obj[a]))

-----------------------------------------------------------------------------
(* Operations on the memory that is there.  Their callers ask              *)
(* getMallocedSize first, where the operation does not.                    *)

clearData(a) ==
    Becomes(a, [obj[a] EXCEPT !.cells = Over(@, 0, [k \in 1..obj[a].malloced |-> "0"]), !.size = 0],
            <<>>, Room(obj[a], obj[a].malloced))

\* Bytes from start on go to the front of a.
Put(x, data) == [x EXCEPT !.cells = Over(@, 0, data), !.size = Len(data)]

setBinaryString(a) ==
    \E data \in Texts :
        /\ Len(data) <= obj[a].malloced
        /\ Becomes(a, Put(obj[a], data), data, Room(obj[a], Len(data)))

copyData(a, o) ==
    /\ obj[o].size <= obj[a].malloced
    /\ Becomes(a, Put(obj[a], Content(obj[o])), text[o],
               Readable(obj[o]) /\ Room(obj[a], obj[o].size))

setNewDataNotMallocWithPtr(a, o) ==
    \E to \in 0..Len(text[o]) : \E start \in 0..to :
        /\ to - start <= obj[a].malloced
        /\ Becomes(a, Put(obj[a], Slice(obj[o], start, to)), SubSeq(text[o], start + 1, to),
                   Room(obj[o], to) /\ Room(obj[a], to - start))

\* It allocates when there is too little; then the other must be another object.
setNewDataNotMalloc(a, o) ==
    \E to \in 0..Len(text[o]) : \E start \in 0..to :
        LET n == to - start
            more == obj[a].malloced < n
            x == IF more THEN [Fresh(Held(n + Slack)) EXCEPT !.size = 0] ELSE obj[a]
        IN  /\ more => a # o
            /\ Becomes(a, Put(x, Slice(obj[o], start, to)), SubSeq(text[o], start + 1, to),
                       /\ Room(obj[o], to) /\ Room(x, n)
                       /\ more => Deletable(obj[a]))

\* The bytes behind the first n move to the front, but the loop ends at the new size:
\* the last of them stay what they were.  Nothing says what the call is for, so this is
\* its text: of shifting, only lengths and memory are judged.
Shifted(old, src, n) ==
    [k \in 1..(Len(old) - n) |-> IF k + n <= Len(old) - n THEN src[k + n] ELSE old[k]]
shiftDataNotMalloc(a, o) ==
    \E n \in 0..Len(text[a]) :
        /\ Len(text[a]) - n <= Len(text[o])
        /\ LET size == obj[a].size - n
               moved == Slice(obj[o], n, IF size > n THEN size ELSE n)
           IN  Becomes(a, [obj[a] EXCEPT !.cells = Over(@, 0, moved), !.size = size],
                       Shifted(text[a], text[o], n),
                       size > n => Room(obj[o], size))

\* Mutant: the test does not count what is there.
NeedsMoreMutant(x, y) == x.malloced < y.size

NeedsMore(x, y) == x.malloced < x.size + y.size

\* It allocates when there is too little; then the other must be another object.
addToMallocedBuf(a, o) ==
    LET more == NeedsMore(obj[a], obj[o])
        n == obj[a].size + obj[o].size
        x == IF more THEN [cells |-> Over(Held(n + Slack), 0, Content(obj[a])), held |-> "live",
                           size |-> obj[a].size, malloced |-> n + Slack]
             ELSE obj[a]
    IN  /\ n <= MaxLength
        /\ more => a # o
        /\ Becomes(a, [x EXCEPT !.cells = Over(@, x.size, Content(obj[o])), !.size = n],
                   text[a] \o text[o],
                   /\ Readable(obj[a]) /\ Readable(obj[o]) /\ Room(x, n)
                   /\ more => Deletable(obj[a]))

\* After deleteMallocedBuf the object is given memory again before anything else is
\* done with it, and not destroyed.
Next ==
    \E a, o \in Strings :
        \/ mallocNeedSize(a) \/ copyAndCreateData(a, o)
        \/ /\ obj[a].held # "dangling" /\ obj[o].held # "dangling"
           /\ \/ Construct(a) \/ CopyConstruct(a, o) \/ Assign(a, o) \/ Add(a, o) \/ AssignSum(a, o)
              \/ subBinaryString(a, o) \/ deleteMallocedBuf(a) \/ deleteData(a) \/ clearData(a)
              \/ setBinaryString(a) \/ copyData(a, o) \/ setNewDataNotMallocWithPtr(a, o)
              \/ setNewDataNotMalloc(a, o) \/ shiftDataNotMalloc(a, o) \/ addToMallocedBuf(a, o)

Spec == Init /\ [][Next]_vars

-----------------------------------------------------------------------------
\* Whatever sequence of calls an object has seen, it holds the text they stand for in
\* memory that is its own: no call trusts a capacity that another call left too large,
\* though subBinaryString writes that of its source.
HoldsText ==
    /\ ~stray
    /\ \A s \in Strings :
         /\ obj[s].size = Len(text[s]) /\ Readable(obj[s])
         /\ Content(obj[s]) = text[s]
=============================================================================
